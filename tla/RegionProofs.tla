---------------------------- MODULE RegionProofs ----------------------------
(***************************************************************************)
(* Proofs about RegionInit for every set of processes, every capacity and  *)
(* every scenario: opening a region never wipes a message sent through it, *)
(* and never hands out a region that is not whole.                         *)
(***************************************************************************)
EXTENDS RegionInit, RingArithmetic

Messages == Procs \X (1 .. scenario.sends)
StoreSet ==
  [there : BOOLEAN, len : 0 .. Slots, head : 0 .. Slots, floor : {"zero", None},
   format : {0, Format - 1, Format}, magic : {None, "DSL1", "DSL2"},
   slot : [Idx -> {Free} \cup Messages]]
HandleSet ==
  [pc : {"idle", "failed", "dead"} \cup InUse \cup InOpen, held : BOOLEAN,
   created : BOOLEAN, fresh : BOOLEAN, i : 0 .. Slots, pos : 0 .. Slots,
   seen : 0 .. Slots, opens : Nat, sends : 0 .. scenario.sends]

\* Typing needs the cursor of the initialisation and of a send under way.
Typed ==
  /\ TypeOK
  /\ \A p \in Procs :
       /\ handle[p].pc = "clear" => handle[p].i < Cap(p)
       /\ handle[p].pc \in {"sending", "filled"} =>
            handle[p].sends \in 1 .. scenario.sends /\ handle[p].seen < Cap(p)

LEMMA Facts ==
  ASSUME Typed
  PROVE  /\ scenario \in Scenarios /\ scenario.sends \in Nat /\ Slots \in Nat \ {0}
         /\ \A p \in Procs : Cap(p) \in 1 .. Slots /\ scenario.multi[p] \in BOOLEAN
         /\ store \in StoreSet /\ handle \in [Procs -> HandleSet]
         /\ sent \subseteq (Idx \X Messages) /\ met \subseteq {"truncated", "raced", "stillborn"}
  BY ScenariosAssumption DEF Typed, TypeOK, StoreSet, HandleSet, Messages, Cap

\* One handle changes, and stays a handle.
LEMMA HandleChanged ==
  ASSUME Typed, scenario' = scenario, store' \in StoreSet,
         NEW p \in Procs, NEW r \in HandleSet, handle' = [handle EXCEPT ![p] = r],
         r.pc = "clear" => r.i < Cap(p),
         r.pc \in {"sending", "filled"} => r.sends \in 1 .. scenario.sends /\ r.seen < Cap(p),
         sent' \subseteq (Idx \X Messages), met' \subseteq {"truncated", "raced", "stillborn"}
  PROVE  Typed'
<1>1. handle' \in [Procs -> HandleSet]
  BY Facts
<1>2. handle'[p] = r /\ \A q \in Procs : q # p => handle'[q] = handle[q]
  BY Facts
<1>3. TypeOK'
  BY <1>1, Facts DEF TypeOK, StoreSet, HandleSet, Messages
<1>4. \A q \in Procs : Cap(q)' = Cap(q)
  BY DEF Cap
<1> QED BY <1>2, <1>3, <1>4 DEF Typed

LEMMA ZeroedTyped ==
  ASSUME Slots \in Nat \ {0}
  PROVE  (\A n \in 0 .. Slots : Zeroed(n) \in StoreSet) /\ Gone \in StoreSet
<1>1. \A n \in 0 .. Slots : Zeroed(n) \in StoreSet
  BY DEF Zeroed, StoreSet, Free, None, Format
<1>2. Zeroed(0) \in StoreSet
  BY <1>1
<1> QED BY <1>1, <1>2 DEF Gone, StoreSet

LEMMA TypedInit == Init => Typed
<1> SUFFICES ASSUME Init PROVE Typed
  OBVIOUS
<1>1. /\ scenario \in Scenarios /\ scenario.left \in {"nothing", "unfinished", "older"}
      /\ scenario.sends \in Nat /\ Slots \in Nat \ {0}
  BY ScenariosAssumption DEF Init
<1>3. AtStart(scenario) \in StoreSet
  <2>1. Zeroed(0) \in StoreSet /\ Zeroed(Slots) \in StoreSet /\ Gone \in StoreSet
    BY <1>1, ZeroedTyped
  <2>2. [Zeroed(Slots) EXCEPT !.format = Format - 1, !.magic = Magic(FALSE)] \in StoreSet
    BY <2>1 DEF StoreSet, Magic
  <2> QED BY <1>1, <2>1, <2>2 DEF AtStart
<1>4. \A p \in Procs : handle[p] \in HandleSet /\ handle[p].pc = "idle"
  BY <1>1 DEF Init, HandleSet
<1>5. handle \in [Procs -> HandleSet]
  BY <1>4 DEF Init
<1> QED BY <1>1, <1>3, <1>4, <1>5 DEF Init, Typed, TypeOK, StoreSet, HandleSet, Messages

\* What p's record becomes: only its place in the protocol.
LEMMA PcChanged ==
  ASSUME Typed, NEW p \in Procs, NEW to \in {"size", "check", "recheck", "floor", "format", "magic", "wait", "ready", "failed"},
         Goto(p, to), scenario' = scenario, store' \in StoreSet, UNCHANGED <<sent, met>>
  PROVE  Typed'
<1> DEFINE r == [handle[p] EXCEPT !.pc = to]
<1>1. handle[p] \in HandleSet
  BY Facts
<1>2. r \in HandleSet /\ r.pc = to
  BY <1>1 DEF HandleSet, InUse, InOpen
<1>3. handle' = [handle EXCEPT ![p] = r]
  BY DEF Goto
<1> HIDE DEF r
<1> QED BY <1>2, <1>3, Facts, HandleChanged

LEMMA Started ==
  ASSUME Typed, NEW p \in Procs, NEW to \in {"resize", "size", "check", "recheck", "wait", "failed"},
         NEW created \in BOOLEAN, Start(p, to, created), scenario' = scenario,
         store' \in StoreSet, UNCHANGED sent, met' \subseteq {"truncated", "raced", "stillborn"}
  PROVE  Typed'
<1> DEFINE r == [handle[p] EXCEPT !.pc = to, !.held = TRUE, !.created = created,
                                  !.opens = handle[p].opens + 1, !.fresh = FALSE]
<1>1. handle[p] \in HandleSet /\ handle[p].opens + 1 \in Nat
  BY Facts DEF HandleSet
<1>2. r \in HandleSet /\ r.pc = to
  BY <1>1 DEF HandleSet, InUse, InOpen
<1>3. handle' = [handle EXCEPT ![p] = r]
  BY DEF Start
<1> HIDE DEF r
<1> QED BY <1>2, <1>3, Facts, HandleChanged

LEMMA LetGoTyped ==
  ASSUME Typed, NEW p \in Procs, LetGo(p)
  PROVE  store' \in StoreSet /\ sent' \subseteq (Idx \X Messages)
BY Facts, ZeroedTyped DEF LetGo

LEMMA Dropped ==
  ASSUME Typed, NEW p \in Procs, NEW to \in {"idle", "failed", "dead"},
         handle' = [handle EXCEPT ![p].pc = to, ![p].held = FALSE],
         scenario' = scenario, store' \in StoreSet, sent' \subseteq (Idx \X Messages),
         met' \subseteq {"truncated", "raced", "stillborn"}
  PROVE  Typed'
<1> DEFINE r == [handle[p] EXCEPT !.pc = to, !.held = FALSE]
<1>1. handle[p] \in HandleSet
  BY Facts
<1>2. r \in HandleSet /\ r.pc = to
  BY <1>1 DEF HandleSet
<1>3. handle' = [handle EXCEPT ![p] = r]
  OBVIOUS
<1> HIDE DEF r
<1> QED BY <1>2, <1>3, HandleChanged

LEMMA TypedOpening ==
  ASSUME Typed, NEW p \in Procs, Opening(p)
  PROVE  Typed'
<1>f. /\ Slots \in Nat \ {0} /\ Cap(p) \in 1 .. Slots /\ store \in StoreSet
      /\ handle[p] \in HandleSet /\ met \subseteq {"truncated", "raced", "stillborn"}
  BY Facts
<1>z. \A n \in 0 .. Slots : Zeroed(n) \in StoreSet
  BY <1>f, ZeroedTyped
<1>1. CASE CreateNew(p)
  <2>1. Zeroed(0) \in StoreSet
    BY <1>f, <1>z
  <2> QED BY <1>1, <1>f, <2>1, Started DEF CreateNew
<1>2. CASE OpenFile(p)
  BY <1>2, <1>f, Started DEF OpenFile
<1>3. CASE Truncate(p)
  <2>1. Zeroed(0) \in StoreSet
    BY <1>f, <1>z
  <2>2. met' \subseteq {"truncated", "raced", "stillborn"}
    BY <1>3, <1>f DEF Truncate
  <2> QED BY <1>3, <1>f, <2>1, <2>2, Started DEF Truncate
<1>4. CASE Resize(p)
  <2> DEFINE slot == [i \in Idx |-> IF i < Cap(p) THEN store.slot[i] ELSE Free]
  <2>1. store' = [store EXCEPT !.len = Cap(p), !.slot = slot]
    BY <1>4 DEF Resize
  <2>2. slot \in [Idx -> {Free} \cup Messages]
    BY <1>f DEF StoreSet
  <2> HIDE DEF slot
  <2>4. Cap(p) \in 0 .. Slots
    BY <1>f
  <2>3. store' \in StoreSet
    BY ONLY <1>f, <2>1, <2>2, <2>4 DEF StoreSet
  <2> QED BY <1>4, <2>3, PcChanged DEF Resize
<1>5. CASE WaitForFullSize(p)
  <2>1. Goto(p, "wait") \/ Goto(p, "check") \/ Goto(p, "failed")
    BY <1>5 DEF WaitForFullSize
  <2> QED BY <1>5, <1>f, <2>1, PcChanged DEF WaitForFullSize
<1>6. CASE MapSection(p)
  <2>1. Zeroed(Cap(p)) \in StoreSet
    BY <1>f, <1>z
  <2>2. CASE store' = store
    <3>1. \/ Goto(p, "failed")
          \/ \E to \in {"failed", "check", "recheck", "wait"}, created \in BOOLEAN : Start(p, to, created)
      <4>1. Op(p) \in {"create", "create_or_open", "open"}
        BY ScenariosAssumption, Facts DEF Op
      <4>2. Op(p) = "open" \/ (Op(p) # "open" /\ ~store.there) \/ store.there
        OBVIOUS
      <4>3. CASE \E created \in AlreadyExists(p) :
                   Start(p, CASE Op(p) = "create" -> "recheck"
                              [] Op(p) = "create_or_open" -> "check"
                              [] Op(p) = "open" -> "wait", created)
        <5>1. PICK created \in AlreadyExists(p) :
                   Start(p, CASE Op(p) = "create" -> "recheck"
                              [] Op(p) = "create_or_open" -> "check"
                              [] Op(p) = "open" -> "wait", created)
          BY <4>3
        <5>2. created \in BOOLEAN
          BY DEF AlreadyExists
        <5> QED BY <4>1, <5>1, <5>2
      <4> QED BY <1>6, <4>1, <4>3 DEF MapSection
    <3> QED BY <1>6, <1>f, <2>2, <3>1, PcChanged, Started DEF MapSection
  <2>3. CASE store' = Zeroed(Cap(p)) /\ Start(p, IF Op(p) = "create" THEN "recheck" ELSE "check", TRUE)
    BY <1>6, <1>f, <2>1, <2>3, Started DEF MapSection
  <2> QED BY <1>6, <2>2, <2>3 DEF MapSection
<1>7. CASE CheckMagic(p)
  BY <1>7, <1>f, PcChanged DEF CheckMagic
<1>8. CASE CheckAgain(p)
  <2> DEFINE to == IF NoMagic THEN "clear" ELSE "wait"
             r == [handle[p] EXCEPT !.pc = to, !.fresh = TRUE, !.i = 0, !.pos = 0]
  <2>1. to \in {"clear", "wait"}
    OBVIOUS
  <2>2. handle' = [handle EXCEPT ![p] = r]
    BY <1>8 DEF CheckAgain
  <2> HIDE DEF to
  <2>6. 0 \in 0 .. Slots
    BY <1>f
  <2>3. r \in HandleSet /\ r.pc = to /\ r.i = 0
    BY ONLY <1>f, <2>1, <2>6 DEF HandleSet, InOpen
  <2>4. met' \subseteq {"truncated", "raced", "stillborn"}
    BY <1>8, <1>f DEF CheckAgain
  <2>5. scenario' = scenario /\ store' \in StoreSet /\ sent' \subseteq (Idx \X Messages)
    BY <1>8, <1>f, Facts DEF CheckAgain
  <2> HIDE DEF r
  <2>7. r.i < Cap(p) /\ r.pc \notin {"sending", "filled"}
    BY <1>f, <2>1, <2>3
  <2> QED BY <2>2, <2>3, <2>4, <2>5, <2>7, HandleChanged
<1>9. CASE ClearSlot(p)
  <2> DEFINE to == IF LastSlot(p) THEN "floor" ELSE "clear"
             r == [handle[p] EXCEPT !.i = handle[p].i + 1, !.pc = to]
  <2>0. handle[p].pc = "clear" /\ handle[p].i < Cap(p) /\ handle[p].i \in 0 .. Slots
    BY <1>9, <1>f DEF ClearSlot, At, Typed, HandleSet
  <2>1. to \in {"clear", "floor"} /\ handle[p].i + 1 \in 0 .. Slots
        /\ (to = "clear" => handle[p].i + 1 < Cap(p)) /\ handle[p].i \in Idx
    BY <1>f, <2>0 DEF LastSlot, Idx
  <2>2. handle' = [handle EXCEPT ![p] = r]
    BY <1>9, <2>0 DEF ClearSlot
  <2> HIDE DEF to
  <2>3. r \in HandleSet /\ r.pc = to /\ r.i = handle[p].i + 1
    BY <1>f, <2>1 DEF HandleSet, InOpen
  <2> HIDE DEF r
  <2>4. store' \in StoreSet
    BY <1>9, <1>f, <2>1 DEF ClearSlot, StoreSet
  <2>5. scenario' = scenario /\ met' = met /\ sent' = sent
    BY <1>9 DEF ClearSlot
  <2> QED BY <1>f, <2>1, <2>2, <2>3, <2>4, <2>5, Facts, HandleChanged
<1>10. CASE StoreFloor(p)
  <2>1. store' \in StoreSet
    BY <1>10, <1>f DEF StoreFloor, StoreSet
  <2> QED BY <1>10, <2>1, PcChanged DEF StoreFloor
<1>11. CASE PublishMagic(p)
  <2>1. store' \in StoreSet
    BY <1>11, <1>f DEF PublishMagic, StoreSet, Mode, Magic
  <2> QED BY <1>11, <2>1, PcChanged DEF PublishMagic
<1>12. CASE WaitInitialized(p)
  <2>1. CASE Refuse(p)
    <3>1. store' \in StoreSet /\ sent' \subseteq (Idx \X Messages)
      BY <2>1, LetGoTyped DEF Refuse
    <3> QED BY <1>12, <1>f, <2>1, <3>1, Dropped DEF WaitInitialized, Refuse
  <2>2. CASE UNCHANGED <<store, sent>> /\ handle' = [handle EXCEPT ![p].pc = "ready",
                                    ![p].pos = IF handle[p].fresh THEN 0 ELSE store.head]
    <3> DEFINE pos == IF handle[p].fresh THEN 0 ELSE store.head
               r == [handle[p] EXCEPT !.pc = "ready", !.pos = pos]
    <3>1. pos \in 0 .. Slots
      BY <1>f DEF StoreSet
    <3>2. handle' = [handle EXCEPT ![p] = r]
      BY <2>2
    <3> HIDE DEF pos
    <3>3. r \in HandleSet /\ r.pc = "ready"
      BY <1>f, <3>1 DEF HandleSet, InUse
    <3> HIDE DEF r
    <3>4. scenario' = scenario /\ met' = met
      BY <1>12 DEF WaitInitialized
    <3> QED BY <1>f, <2>2, <3>2, <3>3, <3>4, Facts, HandleChanged
  <2> QED BY <1>12, <2>1, <2>2 DEF WaitInitialized
<1> QED BY <1>1, <1>2, <1>3, <1>4, <1>5, <1>6, <1>7, <1>8, <1>9, <1>10, <1>11, <1>12 DEF Opening

LEMMA TargetInside ==
  ASSUME Typed, NEW p \in Procs
  PROVE  Target(p) \in 0 .. Cap(p) - 1 /\ Target(p) \in Idx
<1>1. Cap(p) \in 1 .. Slots /\ Slots \in Nat \ {0} /\ Cap(p) \in Nat \ {0}
  BY Facts
<1>2. handle[p].seen \in Nat /\ handle[p].pos \in Nat
  BY Facts DEF HandleSet
<1>3. handle[p].seen % Cap(p) \in 0 .. Cap(p) - 1 /\ handle[p].pos % Cap(p) \in 0 .. Cap(p) - 1
  BY <1>1, <1>2, LapAndSlot
<1> QED BY <1>1, <1>3 DEF Target, Idx

\* The head moves on by a send.
LEMMA HeadTyped ==
  ASSUME Typed, NEW h \in 0 .. Slots
  PROVE  Advanced(h) \in StoreSet
BY Facts DEF Advanced, StoreSet

LEMMA TypedUsing ==
  ASSUME Typed, NEW p \in Procs, Using(p) \/ Die(p) \/ Fault(p)
  PROVE  Typed'
<1>f. /\ Slots \in Nat \ {0} /\ Cap(p) \in 1 .. Slots /\ store \in StoreSet
      /\ handle[p] \in HandleSet /\ met \subseteq {"truncated", "raced", "stillborn"}
      /\ sent \subseteq (Idx \X Messages) /\ scenario.sends \in Nat
      /\ handle[p].sends \in 0 .. scenario.sends /\ handle[p].seen \in 0 .. Slots
      /\ store.head \in 0 .. Slots
  BY Facts DEF HandleSet, StoreSet
<1>1. CASE BeginSend(p)
  <2> DEFINE n == handle[p].sends + 1
             h == store.head
             r == [handle[p] EXCEPT !.pc = "sending", !.seen = h, !.sends = n]
  <2>1. n \in 1 .. scenario.sends /\ n \in 0 .. scenario.sends /\ h < Cap(p) /\ h \in 0 .. Slots /\ h + 1 \in 0 .. Slots
    BY <1>1, <1>f DEF BeginSend
  <2>2. handle' = [handle EXCEPT ![p] = r]
    BY <1>1 DEF BeginSend, LoadHead
  <2>3. Advanced(LoadHead + 1) \in StoreSet
    BY <2>1, HeadTyped DEF LoadHead
  <2>4. scenario' = scenario /\ store' \in StoreSet /\ sent' = sent /\ met' = met
    BY <1>1, <1>f, <2>3 DEF BeginSend
  <2> HIDE DEF n, h
  <2>5. r \in HandleSet /\ r.pc = "sending" /\ r.seen = h /\ r.sends = n
    BY ONLY <1>f, <2>1 DEF HandleSet, InUse
  <2> HIDE DEF r
  <2> QED BY <1>f, <2>1, <2>2, <2>4, <2>5, HandleChanged
<1>2. CASE FillSlot(p)
  <2>1. handle[p].pc = "sending" /\ handle[p].sends \in 1 .. scenario.sends /\ handle[p].seen < Cap(p)
    BY <1>2 DEF FillSlot, At, Typed
  <2>2. Message(p, handle[p].sends) \in Messages /\ Target(p) \in Idx
    BY <2>1, TargetInside DEF Message, Messages
  <2>3. store' \in StoreSet
    BY <1>2, <1>f, <2>2 DEF FillSlot, StoreSet
  <2>4. scenario' = scenario /\ sent' = sent /\ met' = met
    BY <1>2 DEF FillSlot
  <2>5. CASE Goto(p, "ready")
    BY <1>2, <2>3, <2>4, <2>5, PcChanged DEF FillSlot
  <2>6. CASE Goto(p, "filled")
    <3> DEFINE r == [handle[p] EXCEPT !.pc = "filled"]
    <3>1. r \in HandleSet /\ r.pc = "filled" /\ r.sends = handle[p].sends /\ r.seen = handle[p].seen
      BY <1>f DEF HandleSet, InUse
    <3>2. handle' = [handle EXCEPT ![p] = r]
      BY <2>6 DEF Goto
    <3> HIDE DEF r
    <3> QED BY <1>f, <2>1, <2>3, <2>4, <3>1, <3>2, HandleChanged
  <2> QED BY <1>2, <2>5, <2>6 DEF FillSlot
<1>3. CASE EndSend(p)
  <2> DEFINE pos == Target(p) + 1
             r == [handle[p] EXCEPT !.pc = "ready", !.pos = pos]
  <2>1. handle[p].pc = "filled" /\ handle[p].sends \in 1 .. scenario.sends /\ handle[p].seen < Cap(p)
    BY <1>3 DEF EndSend, At, Typed
  <2>2. Target(p) \in Idx /\ pos \in 0 .. Slots /\ handle[p].seen + 1 \in 0 .. Slots
    BY <1>f, <2>1, TargetInside DEF Idx
  <2>3. <<Target(p), Message(p, handle[p].sends)>> \in Idx \X Messages
    BY <2>1, <2>2 DEF Message, Messages
  <2>4. scenario' = scenario /\ met' = met /\ sent' \subseteq (Idx \X Messages)
    BY <1>3, <1>f, <2>3 DEF EndSend, Messages
  <2>5. store' \in StoreSet
    BY <1>3, <1>f, <2>2, HeadTyped DEF EndSend
  <2>6. handle' = [handle EXCEPT ![p] = r]
    BY <1>3 DEF EndSend
  <2> HIDE DEF pos
  <2>7. r \in HandleSet /\ r.pc = "ready"
    BY <1>f, <2>2 DEF HandleSet, InUse
  <2> HIDE DEF r
  <2> QED BY <1>f, <2>4, <2>5, <2>6, <2>7, HandleChanged
<1>4. CASE Close(p)
  <2>1. store' \in StoreSet /\ sent' \subseteq (Idx \X Messages)
    BY <1>4, LetGoTyped DEF Close
  <2> QED BY <1>4, <1>f, <2>1, Dropped DEF Close
<1>5. CASE Die(p)
  <2>1. store' \in StoreSet /\ sent' \subseteq (Idx \X Messages)
    BY <1>5, LetGoTyped DEF Die
  <2>2. met' \subseteq {"truncated", "raced", "stillborn"}
    BY <1>5, <1>f DEF Die
  <2> QED BY <1>5, <2>1, <2>2, Dropped DEF Die
<1>6. CASE Fault(p)
  <2>1. met' \subseteq {"truncated", "raced", "stillborn"}
    BY <1>6, <1>f DEF Fault
  <2> QED BY <1>6, <1>f, <2>1, Dropped DEF Fault
<1> QED BY <1>1, <1>2, <1>3, <1>4, <1>5, <1>6 DEF Using

LEMMA TypedNext == Typed /\ [Next]_vars => Typed'
<1> SUFFICES ASSUME Typed, [Next]_vars PROVE Typed'
  OBVIOUS
<1>1. CASE UNCHANGED vars
  BY <1>1 DEF vars, Typed, TypeOK, Cap, Idx
<1>2. CASE Next
  BY <1>2, TypedOpening, TypedUsing DEF Next
<1> QED BY <1>1, <1>2

\* Every variable of the region keeps its type, whoever opens, sends, dies or
\* truncates: create_or_open, create and open, their waits, send and Drop.
THEOREM RegionTypeCorrect == Spec => []TypeOK
<1>1. Typed => TypeOK
  BY DEF Typed
<1> QED BY TypedInit, TypedNext, <1>1, PTL DEF Spec

-----------------------------------------------------------------------------
(* The invariant *)

Work == {"clear", "floor", "format", "magic"}
Opened == InOpen \cup InUse
Away == {"idle", "size", "failed", "dead"}

\* Whoever is opening or using the region keeps it alive.
HeldInv ==
  \A p \in Procs : handle[p].pc \in Opened => handle[p].held /\ store.there

\* Whoever is past the size has it all mapped, and nobody is while the creator
\* has still to set the length.
MapInv ==
  /\ \A p \in Procs : handle[p].pc \in Opened \ {"resize", "size"} => Mapped(p)
  /\ \A p \in Procs : handle[p].pc = "resize" =>
       /\ ~Section /\ store.len = 0 /\ store.magic = None
       /\ \A q \in Procs : q # p => handle[q].pc \in Away

\* The words are written in their order.
WordsInv ==
  /\ \A p \in Procs : handle[p].pc \in {"format", "magic"} => store.floor = None
  /\ \A p \in Procs : handle[p].pc = "magic" => store.format = Format
  /\ store.magic # None /\ store.format = Format => store.floor = None

\* One process initialises, before the magic is there; whoever uses the region
\* found its own magic.
SoleInv ==
  /\ \A p, q \in Procs : handle[p].pc \in Work /\ handle[q].pc \in Work => p = q
  /\ \A p \in Procs : handle[p].pc \in Work => store.magic = None
  /\ \A p \in Procs : handle[p].pc \in InUse => store.magic = Mode(p) /\ store.format = Format

\* Messages are in a region with a magic, each in its slot.
SentInv ==
  /\ sent # {} => store.there /\ store.magic # None
  /\ \A x \in sent : store.slot[x[1]] = x[2]
  /\ \A p \in Procs :
       handle[p].pc = "filled" => store.slot[Target(p)] = Message(p, handle[p].sends)

\* Where nobody calls create and the section's flag is right, there is never
\* more than one creator at work.
Clean == ~scenario.stale /\ \A p \in Procs : Op(p) # "create"
Creating(p) == handle[p].created = TRUE /\ handle[p].pc \in {"resize", "check", "recheck"} \cup Work
CreatorInv ==
  Clean =>
    /\ "truncated" \notin met /\ "raced" \notin met
    /\ \A p \in Procs : handle[p].pc \in {"recheck"} \cup Work => handle[p].created = TRUE
    /\ \A p \in Procs : handle[p].pc = "size" => handle[p].created = FALSE
    /\ \A p, q \in Procs : Creating(p) /\ Creating(q) => p = q

Whole == "truncated" \notin met
Single == Whole /\ "raced" \notin met

IInv ==
  /\ Typed /\ HeldInv
  /\ Whole => MapInv /\ WordsInv
  /\ Single => SoleInv /\ SentInv
  /\ CreatorInv

-----------------------------------------------------------------------------
(* What a step changes *)

Acts(p) == Opening(p) \/ Using(p) \/ Die(p) \/ Fault(p)

\* One process moves; what was met stays met.
LEMMA Frame ==
  ASSUME Typed, NEW p \in Procs, Acts(p)
  PROVE  /\ scenario' = scenario /\ met \subseteq met'
         /\ \A q \in Procs : q # p => handle'[q] = handle[q]
<1>f. handle \in [Procs -> HandleSet]
  BY Facts
<1>1. CASE Opening(p)
  BY <1>1, <1>f DEF Opening, CreateNew, OpenFile, Truncate, Resize, WaitForFullSize, MapSection,
     CheckMagic, CheckAgain, ClearSlot, StoreFloor, PublishMagic, WaitInitialized, Refuse, Start, Goto
<1>2. CASE Using(p) \/ Die(p) \/ Fault(p)
  BY <1>2, <1>f DEF Using, BeginSend, FillSlot, EndSend, Close, Die, Fault, Goto
<1> QED BY <1>1, <1>2 DEF Acts

LEMMA Went ==
  ASSUME Typed, NEW p \in Procs, NEW to, Goto(p, to)
  PROVE  handle'[p] = [handle[p] EXCEPT !.pc = to] /\ handle'[p].pc = to
         /\ handle'[p].held = handle[p].held /\ handle'[p].created = handle[p].created
<1>f. handle \in [Procs -> HandleSet] /\ handle[p] \in HandleSet
  BY Facts
<1>1. handle'[p] = [handle[p] EXCEPT !.pc = to]
  BY <1>f DEF Goto
<1> QED BY <1>1, <1>f DEF HandleSet

LEMMA WentTo ==
  ASSUME Typed, NEW p \in Procs, NEW S, \E to \in S : Goto(p, to)
  PROVE  handle'[p].pc \in S
         /\ handle'[p].held = handle[p].held /\ handle'[p].created = handle[p].created
<1>1. PICK to \in S : Goto(p, to)
  OBVIOUS
<1> QED BY <1>1, Went

LEMMA StartedAs ==
  ASSUME Typed, NEW p \in Procs, NEW to, NEW created, Start(p, to, created)
  PROVE  handle'[p].pc = to /\ handle'[p].held = TRUE /\ handle'[p].created = created
<1>f. handle \in [Procs -> HandleSet] /\ handle[p] \in HandleSet
  BY Facts
<1>1. handle'[p] = [handle[p] EXCEPT !.pc = to, !.held = TRUE, !.created = created,
                                     !.opens = handle[p].opens + 1, !.fresh = FALSE]
  BY <1>f DEF Start
<1> QED BY <1>1, <1>f DEF HandleSet

\* The creations.
LEMMA Made ==
  ASSUME Typed, NEW p \in Procs, CreateNew(p) \/ Truncate(p)
  PROVE  /\ handle[p].pc = "idle" /\ ~Section /\ store' = Zeroed(0) /\ sent' = sent
         /\ handle'[p].pc = "resize" /\ handle'[p].held = TRUE /\ handle'[p].created = TRUE
         /\ store.there => "truncated" \in met'
         /\ Op(p) # "create" => met' = met /\ ~store.there
BY StartedAs DEF CreateNew, Truncate, MayCall, At

\* The calls that find a store, or find none and fail.
LEMMA Found ==
  ASSUME Typed, NEW p \in Procs, OpenFile(p) \/ (MapSection(p) /\ store' = store)
  PROVE  /\ handle[p].pc = "idle" /\ store' = store /\ sent' = sent /\ met' = met
         /\ handle'[p].pc \in {"size", "failed", "recheck", "check", "wait"}
         /\ handle'[p].pc # "failed" => handle'[p].held = TRUE /\ store.there
         /\ handle'[p].pc \notin {"failed", "size"} => Mapped(p)
         /\ Clean /\ handle'[p].pc # "failed" => handle'[p].pc # "recheck" /\ handle'[p].created = FALSE
<1>1. CASE OpenFile(p)
  <2>0. handle[p].pc = "idle" /\ store' = store /\ sent' = sent /\ met' = met
    BY <1>1 DEF OpenFile, MayCall, At
  <2>1. (store.there /\ Start(p, "size", FALSE)) \/ Start(p, "failed", FALSE)
    BY <1>1 DEF OpenFile
  <2>2. CASE store.there /\ Start(p, "size", FALSE)
    <3>1. handle'[p].pc = "size" /\ handle'[p].held = TRUE /\ handle'[p].created = FALSE
      BY <2>2, StartedAs
    <3> QED BY <2>0, <2>2, <3>1
  <2>3. CASE Start(p, "failed", FALSE)
    <3>1. handle'[p].pc = "failed"
      BY <2>3, StartedAs
    <3> QED BY <2>0, <3>1
  <2> QED BY <2>1, <2>2, <2>3
<1>2. CASE MapSection(p) /\ store' = store
  <2>0. handle[p].pc = "idle" /\ sent' = sent /\ met' = met
    BY <1>2 DEF MapSection, MayCall, At
  <2>1. CASE Goto(p, "failed")
    BY <1>2, <2>0, <2>1, Went
  <2>2. CASE ~store.there /\ store' = Zeroed(Cap(p))
    BY <1>2, <2>2, Facts DEF Zeroed
  <2>3. CASE Start(p, "failed", FALSE)
    BY <1>2, <2>0, <2>3, StartedAs
  <2>4. CASE store.there /\ Mapped(p) /\ \E created \in AlreadyExists(p) :
             Start(p, CASE Op(p) = "create" -> "recheck"
                        [] Op(p) = "create_or_open" -> "check"
                        [] Op(p) = "open" -> "wait", created)
    <3> DEFINE to == CASE Op(p) = "create" -> "recheck"
                       [] Op(p) = "create_or_open" -> "check"
                       [] Op(p) = "open" -> "wait"
    <3>1. PICK created \in AlreadyExists(p) : Start(p, to, created)
      BY <2>4
    <3>2. Op(p) \in {"create", "create_or_open", "open"}
      BY ScenariosAssumption, Facts DEF Op
    <3>3. to \in {"recheck", "check", "wait"} /\ (Op(p) # "create" => to # "recheck")
      BY <3>2
    <3>4. Clean => created = FALSE /\ Op(p) # "create"
      BY DEF Clean, AlreadyExists
    <3> HIDE DEF to
    <3>5. handle'[p].pc = to /\ handle'[p].held = TRUE /\ handle'[p].created = created
      BY <3>1, StartedAs
    <3> QED BY <1>2, <2>0, <2>4, <3>3, <3>4, <3>5
  <2> QED BY <1>2, <2>1, <2>2, <2>3, <2>4 DEF MapSection
<1> QED BY <1>1, <1>2

LEMMA SectionMade ==
  ASSUME Typed, NEW p \in Procs, MapSection(p), store' # store
  PROVE  /\ handle[p].pc = "idle" /\ Section /\ ~store.there /\ store' = Zeroed(Cap(p))
         /\ sent' = sent /\ met' = met
         /\ handle'[p].pc \in {"check", "recheck"} /\ handle'[p].held = TRUE
         /\ Op(p) # "create" => handle'[p].pc = "check"
<1>1. /\ handle[p].pc = "idle" /\ Section /\ ~store.there /\ store' = Zeroed(Cap(p))
      /\ sent' = sent /\ met' = met
      /\ Start(p, IF Op(p) = "create" THEN "recheck" ELSE "check", TRUE)
  BY DEF MapSection, MayCall, At
<1>2. \/ Op(p) = "create" /\ Start(p, "recheck", TRUE)
      \/ Op(p) # "create" /\ Start(p, "check", TRUE)
  BY <1>1
<1>3. CASE Op(p) = "create" /\ Start(p, "recheck", TRUE)
  <2>1. handle'[p].pc = "recheck" /\ handle'[p].held = TRUE
    BY <1>3, StartedAs
  <2> QED BY <1>1, <1>3, <2>1
<1>4. CASE Op(p) # "create" /\ Start(p, "check", TRUE)
  <2>1. handle'[p].pc = "check" /\ handle'[p].held = TRUE
    BY <1>4, StartedAs
  <2> QED BY <1>1, <2>1
<1> QED BY <1>2, <1>3, <1>4

\* An open that fails, a Drop, a death: the handle is gone, and with the last
\* handle the section.
Refused(p) == WaitInitialized(p) /\ Refuse(p)
LEMMA Left ==
  ASSUME Typed, NEW p \in Procs, Refused(p) \/ Close(p) \/ Die(p) \/ Fault(p)
  PROVE  /\ handle'[p].pc \in {"idle", "failed", "dead"} /\ handle'[p].held = FALSE
         /\ \/ store' = store /\ sent' = sent
            \/ store' = Gone /\ sent' = {} /\ \A q \in Procs : q # p => ~handle[q].held
         /\ met' \subseteq met \cup {"stillborn"}
<1>f. handle \in [Procs -> HandleSet] /\ handle[p] \in HandleSet
  BY Facts
<1>1. PICK to \in {"idle", "failed", "dead"} : handle' = [handle EXCEPT ![p].pc = to, ![p].held = FALSE]
  BY DEF Refused, Refuse, Close, Die, Fault
<1>2. handle'[p] = [handle[p] EXCEPT !.pc = to, !.held = FALSE]
  BY <1>f, <1>1
<1>3. handle'[p].pc = to /\ handle'[p].held = FALSE
  BY <1>f, <1>2 DEF HandleSet
<1>4. \/ store' = store /\ sent' = sent
      \/ store' = Gone /\ sent' = {} /\ \A q \in Procs : q # p => ~handle[q].held
  BY DEF Refused, Refuse, Close, Die, Fault, LetGo
<1>5. met' \subseteq met \cup {"stillborn"}
  BY DEF Refused, WaitInitialized, Close, Die, Fault
<1> QED BY <1>1, <1>3, <1>4, <1>5

\* The steps that change more of p's record than its place.
LEMMA Rewritten ==
  ASSUME Typed, NEW p \in Procs,
         CheckAgain(p) \/ ClearSlot(p) \/ (WaitInitialized(p) /\ ~Refuse(p)) \/ BeginSend(p) \/ EndSend(p)
  PROVE  /\ handle'[p].held = handle[p].held /\ handle'[p].created = handle[p].created
         /\ CheckAgain(p) => handle'[p].pc = IF NoMagic THEN "clear" ELSE "wait"
         /\ ClearSlot(p) => handle'[p].pc = IF LastSlot(p) THEN "floor" ELSE "clear"
         /\ WaitInitialized(p) => handle'[p].pc = "ready"
         /\ BeginSend(p) => handle'[p].pc = "sending"
         /\ EndSend(p) => handle'[p].pc = "ready"
<1>f. handle \in [Procs -> HandleSet] /\ handle[p] \in HandleSet
  BY Facts
<1>p. /\ CheckAgain(p) => handle[p].pc = "recheck"
      /\ ClearSlot(p) => handle[p].pc = "clear"
      /\ WaitInitialized(p) => handle[p].pc = "wait"
      /\ BeginSend(p) => handle[p].pc = "ready"
      /\ EndSend(p) => handle[p].pc = "filled"
  BY DEF CheckAgain, ClearSlot, WaitInitialized, BeginSend, EndSend, At
<1>1. CASE CheckAgain(p)
  <2> DEFINE to == IF NoMagic THEN "clear" ELSE "wait"
  <2>1. handle'[p] = [handle[p] EXCEPT !.pc = to, !.fresh = TRUE, !.i = 0, !.pos = 0]
    BY <1>1, <1>f DEF CheckAgain
  <2> HIDE DEF to
  <2>2. handle'[p].pc = to /\ handle'[p].held = handle[p].held /\ handle'[p].created = handle[p].created
    BY <1>f, <2>1 DEF HandleSet
  <2> QED BY <1>1, <1>p, <2>2 DEF to
<1>2. CASE ClearSlot(p)
  <2> DEFINE to == IF LastSlot(p) THEN "floor" ELSE "clear"
  <2>1. handle'[p] = [handle[p] EXCEPT !.i = handle[p].i + 1, !.pc = to]
    BY <1>2, <1>f DEF ClearSlot
  <2> HIDE DEF to
  <2>2. handle'[p].pc = to /\ handle'[p].held = handle[p].held /\ handle'[p].created = handle[p].created
    BY <1>f, <2>1 DEF HandleSet
  <2> QED BY <1>2, <1>p, <2>2 DEF to
<1>3. CASE WaitInitialized(p) /\ ~Refuse(p)
  <2> DEFINE pos == IF handle[p].fresh THEN 0 ELSE store.head
  <2>1. handle'[p] = [handle[p] EXCEPT !.pc = "ready", !.pos = pos]
    BY <1>3, <1>f DEF WaitInitialized
  <2> HIDE DEF pos
  <2>2. handle'[p].pc = "ready" /\ handle'[p].held = handle[p].held /\ handle'[p].created = handle[p].created
    BY <1>f, <2>1 DEF HandleSet
  <2> QED BY <1>3, <1>p, <2>2
<1>4. CASE BeginSend(p)
  <2> DEFINE n == handle[p].sends + 1
  <2>1. handle'[p] = [handle[p] EXCEPT !.pc = "sending", !.seen = LoadHead, !.sends = n]
    BY <1>4, <1>f DEF BeginSend
  <2> HIDE DEF n
  <2>2. handle'[p].pc = "sending" /\ handle'[p].held = handle[p].held /\ handle'[p].created = handle[p].created
    BY <1>f, <2>1 DEF HandleSet
  <2> QED BY <1>4, <1>p, <2>2
<1>5. CASE EndSend(p)
  <2> DEFINE pos == Target(p) + 1
  <2>1. handle'[p] = [handle[p] EXCEPT !.pc = "ready", !.pos = pos]
    BY <1>5, <1>f DEF EndSend
  <2> HIDE DEF pos
  <2>2. handle'[p].pc = "ready" /\ handle'[p].held = handle[p].held /\ handle'[p].created = handle[p].created
    BY <1>f, <2>1 DEF HandleSet
  <2> QED BY <1>5, <1>p, <2>2
<1> QED BY <1>1, <1>2, <1>3, <1>4, <1>5

\* The steps that only change p's place, some of them with a word of the
\* region, seen from what the others rely on.
LEMMA Moved ==
  ASSUME Typed, NEW p \in Procs,
         \/ Resize(p) \/ WaitForFullSize(p) \/ CheckMagic(p) \/ CheckAgain(p) \/ ClearSlot(p)
         \/ StoreFloor(p) \/ PublishMagic(p) \/ (WaitInitialized(p) /\ ~Refuse(p))
         \/ BeginSend(p) \/ FillSlot(p) \/ EndSend(p)
  PROVE  /\ handle[p].pc \in Opened /\ handle'[p].pc \in Opened \cup {"failed"}
         /\ handle'[p].held = handle[p].held /\ handle'[p].created = handle[p].created
         /\ store'.there = store.there
         /\ handle'[p].pc \notin {"size", "resize"}
<1>f. /\ handle \in [Procs -> HandleSet] /\ handle[p] \in HandleSet /\ store \in StoreSet
  BY Facts
<1>1. CASE Resize(p)
  <2>1. \E to \in {"recheck", "check"} : Goto(p, to)
    BY <1>1 DEF Resize
  <2>2. /\ handle'[p].pc \in {"recheck", "check"}
        /\ handle'[p].held = handle[p].held /\ handle'[p].created = handle[p].created
    BY <2>1, WentTo
  <2>3. handle[p].pc \in Opened
    BY <1>1 DEF Resize, At, Opened, InOpen, InUse
  <2>4. store'.there = store.there
    BY <1>1, <1>f DEF Resize, StoreSet
  <2> QED BY <2>2, <2>3, <2>4 DEF Opened, InOpen, InUse
<1>2. CASE WaitForFullSize(p)
  <2>1. \E to \in {"wait", "check", "failed"} : Goto(p, to)
    BY <1>2 DEF WaitForFullSize
  <2>2. /\ handle'[p].pc \in {"wait", "check", "failed"}
        /\ handle'[p].held = handle[p].held /\ handle'[p].created = handle[p].created
    BY <2>1, WentTo
  <2>3. handle[p].pc \in Opened
    BY <1>2 DEF WaitForFullSize, At, Opened, InOpen, InUse
  <2>4. store'.there = store.there
    BY <1>2, <1>f DEF WaitForFullSize, StoreSet
  <2> QED BY <2>2, <2>3, <2>4 DEF Opened, InOpen, InUse
<1>3. CASE CheckMagic(p)
  <2>1. \E to \in {"wait", "recheck"} : Goto(p, to)
    BY <1>3 DEF CheckMagic
  <2>2. /\ handle'[p].pc \in {"wait", "recheck"}
        /\ handle'[p].held = handle[p].held /\ handle'[p].created = handle[p].created
    BY <2>1, WentTo
  <2>3. handle[p].pc \in Opened
    BY <1>3 DEF CheckMagic, At, Opened, InOpen, InUse
  <2>4. store'.there = store.there
    BY <1>3, <1>f DEF CheckMagic, StoreSet
  <2> QED BY <2>2, <2>3, <2>4 DEF Opened, InOpen, InUse
<1>4. CASE CheckAgain(p)
  <2>1. handle[p].pc = "recheck" /\ store' = store
    BY <1>4 DEF CheckAgain, At
  <2>2. /\ handle'[p].pc = "clear" \/ handle'[p].pc = "wait"
        /\ handle'[p].held = handle[p].held /\ handle'[p].created = handle[p].created
    BY <1>4, Rewritten
  <2> QED BY <2>1, <2>2 DEF Opened, InOpen
<1>5. CASE ClearSlot(p)
  <2>1. store'.there = store.there
    BY <1>5, <1>f DEF ClearSlot, StoreSet
  <2>2. handle[p].pc = "clear"
    BY <1>5 DEF ClearSlot, At
  <2>3. /\ handle'[p].pc = "clear" \/ handle'[p].pc = "floor"
        /\ handle'[p].held = handle[p].held /\ handle'[p].created = handle[p].created
    BY <1>5, Rewritten
  <2> QED BY <2>1, <2>2, <2>3 DEF Opened, InOpen
<1>6. CASE StoreFloor(p) \/ PublishMagic(p)
  <2>1. \E to \in {"format", "magic", "ready"} : Goto(p, to)
    BY <1>6 DEF StoreFloor, PublishMagic
  <2>2. /\ handle'[p].pc \in {"format", "magic", "ready"}
        /\ handle'[p].held = handle[p].held /\ handle'[p].created = handle[p].created
    BY <2>1, WentTo
  <2>3. handle[p].pc \in Opened
    BY <1>6 DEF StoreFloor, PublishMagic, At, Opened, InOpen, InUse
  <2>4. store'.there = store.there
    BY <1>6, <1>f DEF StoreFloor, PublishMagic, StoreSet
  <2> QED BY <2>2, <2>3, <2>4 DEF Opened, InOpen, InUse
<1>7. CASE WaitInitialized(p) /\ ~Refuse(p)
  BY <1>7, Rewritten DEF WaitInitialized, At, Opened, InOpen, InUse
<1>8. CASE BeginSend(p)
  <2>1. store' = store \/ store' = [store EXCEPT !.head = LoadHead + 1]
    BY <1>8 DEF BeginSend, Advanced
  <2>2. store'.there = store.there
    BY <1>f, <2>1 DEF StoreSet
  <2> QED BY <1>8, <2>2, Rewritten DEF BeginSend, At, Opened, InOpen, InUse
<1>9. CASE FillSlot(p)
  <2>1. \E to \in {"filled", "ready"} : Goto(p, to)
    BY <1>9 DEF FillSlot
  <2>2. /\ handle'[p].pc \in {"filled", "ready"}
        /\ handle'[p].held = handle[p].held /\ handle'[p].created = handle[p].created
    BY <2>1, WentTo
  <2>3. handle[p].pc \in Opened
    BY <1>9 DEF FillSlot, At, Opened, InOpen, InUse
  <2>4. store'.there = store.there
    BY <1>9, <1>f DEF FillSlot, StoreSet
  <2> QED BY <2>2, <2>3, <2>4 DEF Opened, InOpen, InUse
<1>10. CASE EndSend(p)
  <2>1. store' = store \/ store' = [store EXCEPT !.head = handle[p].seen + 1]
    BY <1>10 DEF EndSend, Advanced
  <2>2. store'.there = store.there
    BY <1>f, <2>1 DEF StoreSet
  <2> QED BY <1>10, <2>2, Rewritten DEF EndSend, At, Opened, InOpen, InUse
<1> QED BY <1>1, <1>2, <1>3, <1>4, <1>5, <1>6, <1>7, <1>8, <1>9, <1>10

Moves(p) ==
  \/ Resize(p) \/ WaitForFullSize(p) \/ CheckMagic(p) \/ CheckAgain(p) \/ ClearSlot(p)
  \/ StoreFloor(p) \/ PublishMagic(p) \/ (WaitInitialized(p) /\ ~Refuse(p))
  \/ BeginSend(p) \/ FillSlot(p) \/ EndSend(p)
Makes(p) == CreateNew(p) \/ Truncate(p)
Finds(p) == OpenFile(p) \/ (MapSection(p) /\ store' = store)
MakesSection(p) == MapSection(p) /\ store' # store
Leaves(p) == Refused(p) \/ Close(p) \/ Die(p) \/ Fault(p)

LEMMA Kinds ==
  ASSUME NEW p \in Procs, Acts(p)
  PROVE  Makes(p) \/ Finds(p) \/ MakesSection(p) \/ Leaves(p) \/ Moves(p)
BY DEF Acts, Opening, Using, Makes, Finds, MakesSection, Leaves, Moves, Refused

LEMMA HeldNext ==
  ASSUME Typed, HeldInv, NEW p \in Procs, Acts(p)
  PROVE  HeldInv'
<1> SUFFICES ASSUME NEW q \in Procs, handle'[q].pc \in Opened
             PROVE  handle'[q].held /\ store'.there
  BY DEF HeldInv, Opened, InOpen, InUse
<1>1. q # p => handle'[q] = handle[q] /\ handle[q].held /\ store.there
  BY Frame DEF HeldInv
<1>2. \A n : Zeroed(n).there = TRUE
  BY DEF Zeroed
<1>3. CASE Makes(p)
  BY <1>1, <1>2, <1>3, Made DEF Makes
<1>4. CASE Finds(p)
  BY <1>1, <1>4, Found DEF Finds, Opened, InOpen, InUse
<1>5. CASE MakesSection(p)
  BY <1>1, <1>2, <1>5, SectionMade DEF MakesSection
<1>6. CASE Leaves(p)
  <2>1. handle'[p].pc \notin Opened
    BY <1>6, Left DEF Leaves, Opened, InOpen, InUse
  <2>2. store' = store \/ \A r \in Procs : r # p => ~handle[r].held
    BY <1>6, Left DEF Leaves
  <2> QED BY <1>1, <2>1, <2>2
<1>7. CASE Moves(p)
  BY <1>1, <1>7, Moved DEF Moves, HeldInv
<1> QED BY <1>3, <1>4, <1>5, <1>6, <1>7, Kinds

\* A step that makes the store anew finds nobody at it, or truncates.
LEMMA AnewAlone ==
  ASSUME Typed, HeldInv, NEW p \in Procs, Makes(p) \/ MakesSection(p), "truncated" \notin met',
         NEW q \in Procs
  PROVE  handle[q].pc \notin Opened /\ ~store.there
<1>1. ~store.there
  BY Made, SectionMade DEF Makes, MakesSection
<1> QED BY <1>1 DEF HeldInv

\* A step that leaves makes no difference to those who stay.
LEMMA LeftBehind ==
  ASSUME Typed, HeldInv, NEW p \in Procs, Leaves(p), NEW q \in Procs, handle'[q].pc \in Opened
  PROVE  q # p /\ handle'[q] = handle[q] /\ store' = store /\ sent' = sent
<1>1. q # p
  BY Left DEF Leaves, Opened, InOpen, InUse
<1>2. handle'[q] = handle[q] /\ handle[q].held
  BY <1>1, Frame DEF Leaves, Refused, Acts, Opening, Using, HeldInv
<1> QED BY <1>1, <1>2, Left DEF Leaves

\* The way to the initialisation.
LEMMA MovedFrom ==
  ASSUME Typed, NEW p \in Procs, Moves(p)
  PROVE  /\ handle'[p].pc = "check" => handle[p].pc \in {"resize", "size"}
         /\ handle'[p].pc = "recheck" => \/ handle[p].pc = "resize" /\ Op(p) = "create"
                                         \/ handle[p].pc = "check" /\ handle[p].created = TRUE
         /\ handle'[p].pc \in Work => handle[p].pc \in {"recheck"} \cup Work
         /\ handle'[p].pc = "clear" /\ handle[p].pc = "recheck" => store.magic = None
         /\ \/ met' = met
            \/ /\ handle[p].pc = "recheck" /\ met' = met \cup {"raced"}
               /\ \E q \in Procs : q # p /\ handle[q].pc \in Work
<1>f. handle[p] \in HandleSet
  BY Facts
<1>1. CASE Resize(p)
  <2>1. \/ Op(p) = "create" /\ Goto(p, "recheck")
        \/ Op(p) # "create" /\ Goto(p, "check")
    BY <1>1 DEF Resize
  <2>2. \/ Op(p) = "create" /\ handle'[p].pc = "recheck"
        \/ Op(p) # "create" /\ handle'[p].pc = "check"
    BY <2>1, Went
  <2> QED BY <1>1, <2>2 DEF Resize, At, Work
<1>2. CASE WaitForFullSize(p)
  <2>1. \E to \in {"wait", "check", "failed"} : Goto(p, to)
    BY <1>2 DEF WaitForFullSize
  <2>2. handle'[p].pc \in {"wait", "check", "failed"}
    BY <2>1, WentTo
  <2> QED BY <1>2, <2>2 DEF WaitForFullSize, At, Work
<1>3. CASE CheckMagic(p)
  <2>1. \/ handle[p].created /\ Goto(p, "recheck")
        \/ Goto(p, "wait")
    BY <1>3 DEF CheckMagic, IsFresh
  <2>2. \/ handle[p].created /\ handle'[p].pc = "recheck"
        \/ handle'[p].pc = "wait"
    BY <2>1, Went
  <2>3. handle[p].created \in BOOLEAN
    BY <1>f DEF HandleSet
  <2> QED BY <1>3, <2>2, <2>3 DEF CheckMagic, At, Work
<1>4. CASE CheckAgain(p)
  <2>1. /\ handle[p].pc = "recheck"
        /\ met' = met \/ (met' = met \cup {"raced"} /\ \E q \in Procs : q # p /\ handle[q].pc \in Work)
    BY <1>4 DEF CheckAgain, At, Work
  <2>2. (handle'[p].pc = "clear" /\ store.magic = None) \/ handle'[p].pc = "wait"
    BY <1>4, Rewritten DEF NoMagic
  <2> QED BY <2>1, <2>2 DEF Work
<1>5. CASE ClearSlot(p)
  <2>1. handle[p].pc = "clear" /\ met' = met
    BY <1>5 DEF ClearSlot, At
  <2>2. handle'[p].pc = "clear" \/ handle'[p].pc = "floor"
    BY <1>5, Rewritten
  <2> QED BY <2>1, <2>2 DEF Work
<1>6. CASE StoreFloor(p)
  <2>1. handle[p].pc = "floor" /\ met' = met /\ Goto(p, "format")
    BY <1>6 DEF StoreFloor, At
  <2>2. handle'[p].pc = "format"
    BY <2>1, Went
  <2> QED BY <2>1, <2>2 DEF Work
<1>7. CASE PublishMagic(p)
  <2>1. \E to \in {"magic", "ready"} : Goto(p, to)
    BY <1>7 DEF PublishMagic
  <2>2. handle'[p].pc \in {"magic", "ready"}
    BY <2>1, WentTo
  <2> QED BY <1>7, <2>2 DEF PublishMagic, At, Work
<1>8. CASE (WaitInitialized(p) /\ ~Refuse(p)) \/ BeginSend(p) \/ EndSend(p)
  BY <1>8, Rewritten DEF WaitInitialized, BeginSend, EndSend, Work
<1>9. CASE FillSlot(p)
  <2>1. \E to \in {"filled", "ready"} : Goto(p, to)
    BY <1>9 DEF FillSlot
  <2>2. handle'[p].pc \in {"filled", "ready"}
    BY <2>1, WentTo
  <2> QED BY <1>9, <2>2 DEF FillSlot, Work
<1> QED BY <1>1, <1>2, <1>3, <1>4, <1>5, <1>6, <1>7, <1>8, <1>9 DEF Moves

LEMMA CreatorNext ==
  ASSUME Typed, HeldInv, CreatorInv, NEW p \in Procs, Acts(p)
  PROVE  CreatorInv'
<1>1. scenario' = scenario /\ \A q \in Procs : q # p => handle'[q] = handle[q]
  BY Frame
<1>2. (Clean' = Clean) /\ \A q \in Procs : Op(q)' = Op(q)
  BY <1>1 DEF Clean, Op
<1> SUFFICES ASSUME Clean
             PROVE  /\ "truncated" \notin met' /\ "raced" \notin met'
                    /\ \A q \in Procs : handle'[q].pc \in {"recheck"} \cup Work => handle'[q].created = TRUE
                    /\ \A q \in Procs : handle'[q].pc = "size" => handle'[q].created = FALSE
                    /\ \A q, r \in Procs : Creating(q)' /\ Creating(r)' => q = r
  BY <1>2 DEF CreatorInv
<1>3. /\ "truncated" \notin met /\ "raced" \notin met /\ Op(p) # "create"
      /\ \A q \in Procs : handle[q].pc \in {"recheck"} \cup Work => handle[q].created = TRUE
      /\ \A q \in Procs : handle[q].pc = "size" => handle[q].created = FALSE
      /\ \A q, r \in Procs : Creating(q) /\ Creating(r) => q = r
  BY DEF CreatorInv, Clean
<1>4. \A q \in Procs : q # p => (Creating(q)' <=> Creating(q))
  BY <1>1 DEF Creating
<1>5. \A q \in Procs : Creating(q) => handle[q].pc \in Opened
  BY DEF Creating, Opened, InOpen, Work
\* It is enough that p is no creator it was not before, unless it is alone.
<1>6. ASSUME met' \subseteq met \cup {"stillborn"},
             handle'[p].pc \in {"recheck"} \cup Work => handle'[p].created = TRUE,
             handle'[p].pc = "size" => handle'[p].created = FALSE,
             Creating(p)' => Creating(p) \/ \A q \in Procs : handle[q].pc \notin Opened
      PROVE  /\ "truncated" \notin met' /\ "raced" \notin met'
             /\ \A q \in Procs : handle'[q].pc \in {"recheck"} \cup Work => handle'[q].created = TRUE
             /\ \A q \in Procs : handle'[q].pc = "size" => handle'[q].created = FALSE
             /\ \A q, r \in Procs : Creating(q)' /\ Creating(r)' => q = r
  <2>1. "truncated" \notin met' /\ "raced" \notin met'
    BY <1>3, <1>6
  <2>2. \A q \in Procs : handle'[q].pc \in {"recheck"} \cup Work => handle'[q].created = TRUE
    BY <1>1, <1>3, <1>6
  <2>3. \A q \in Procs : handle'[q].pc = "size" => handle'[q].created = FALSE
    BY <1>1, <1>3, <1>6
  <2>4. \A q, r \in Procs : Creating(q)' /\ Creating(r)' => q = r
    BY <1>3, <1>4, <1>5, <1>6
  <2> QED BY <2>1, <2>2, <2>3, <2>4
<1>7. CASE Makes(p)
  <2>1. met' = met /\ ~store.there /\ handle'[p].pc = "resize"
    BY <1>3, <1>7, Made DEF Makes
  <2>2. \A q \in Procs : handle[q].pc \notin Opened
    BY <2>1 DEF HeldInv
  <2> QED BY <1>6, <2>1, <2>2 DEF Work
<1>8. CASE Finds(p)
  <2>1. met' = met
    BY <1>8, Found DEF Finds
  <2>2. handle'[p].pc \in {"size", "failed", "check", "wait"}
        /\ (handle'[p].pc # "failed" => handle'[p].created = FALSE)
    BY <1>8, Found DEF Finds
  <2>3. ~Creating(p)'
    BY <2>2 DEF Creating, Work
  <2> QED BY <1>6, <2>1, <2>2, <2>3 DEF Work
<1>9. CASE MakesSection(p)
  <2>1. met' = met /\ ~store.there /\ handle'[p].pc = "check"
    BY <1>3, <1>9, SectionMade DEF MakesSection
  <2>2. \A q \in Procs : handle[q].pc \notin Opened
    BY <2>1 DEF HeldInv
  <2> QED BY <1>6, <2>1, <2>2 DEF Work
<1>10. CASE Leaves(p)
  <2>1. met' \subseteq met \cup {"stillborn"} /\ handle'[p].pc \in {"idle", "failed", "dead"}
    BY <1>10, Left DEF Leaves
  <2>2. ~Creating(p)'
    BY <2>1 DEF Creating, Work
  <2> QED BY <1>6, <2>1, <2>2 DEF Work
<1>11. CASE Moves(p)
  <2>1. handle'[p].created = handle[p].created /\ handle'[p].pc \notin {"size", "resize"}
    BY <1>11, Moved DEF Moves
  <2>2. handle'[p].pc \in {"recheck"} \cup Work => handle'[p].created = TRUE
    BY <1>3, <1>11, <2>1, MovedFrom
  <2>3. Creating(p)' => Creating(p)
    <3>1. handle'[p].pc \in {"check", "recheck"} \cup Work /\ handle[p].created = TRUE =>
            handle[p].pc \in {"resize", "check", "recheck"} \cup Work
      BY <1>3, <1>11, MovedFrom
    <3> QED BY <2>1, <3>1 DEF Creating
  <2>4. met' = met
    <3>1. SUFFICES ASSUME handle[p].pc = "recheck", NEW q \in Procs, q # p, handle[q].pc \in Work
                   PROVE  FALSE
      BY <1>11, MovedFrom
    <3>2. Creating(p) /\ Creating(q)
      BY <1>3, <3>1 DEF Creating
    <3> QED BY <1>3, <3>1, <3>2
  <2> QED BY <1>6, <2>1, <2>2, <2>3, <2>4
<1> QED BY <1>7, <1>8, <1>9, <1>10, <1>11, Kinds

\* What a move writes, and where it leads.
LEMMA Written ==
  ASSUME Typed, NEW p \in Procs, Moves(p)
  PROVE  /\ store'.len = store.len \/ (handle[p].pc = "resize" /\ store'.len = Cap(p))
         /\ store'.floor = store.floor \/ (handle[p].pc = "floor" /\ store'.floor = None)
         /\ store'.format = store.format \/ (handle[p].pc = "format" /\ store'.format = Format)
         /\ store'.magic = store.magic \/ (handle[p].pc = "magic" /\ store'.magic = Mode(p)
                                           /\ handle'[p].pc = "ready")
         /\ handle[p].pc \notin {"resize", "clear", "sending"} => store'.slot = store.slot
         /\ handle[p].pc # "filled" => sent' = sent
         /\ handle'[p].pc = "format" => handle[p].pc = "floor" /\ store'.floor = None
         /\ handle'[p].pc = "magic" => handle[p].pc = "format" /\ store'.format = Format
         /\ handle'[p].pc \in InUse => \/ handle[p].pc = "magic" /\ store'.magic = Mode(p)
                                       \/ handle[p].pc = "wait" /\ Compatible(p)
                                       \/ handle[p].pc \in InUse
         /\ handle'[p].pc = "filled" => handle[p].pc = "sending"
         /\ handle[p].pc = "size" => store' = store
                                     /\ (handle'[p].pc # "failed" => Mapped(p))
<1>f. store \in StoreSet
  BY Facts
<1>1. CASE Resize(p)
  <2>1. \E to \in {"recheck", "check"} : Goto(p, to)
    BY <1>1 DEF Resize
  <2>2. handle'[p].pc \in {"recheck", "check"}
    BY <2>1, WentTo
  <2>3. handle[p].pc = "resize" /\ sent' = sent
    BY <1>1 DEF Resize, At
  <2>4. store'.len = Cap(p) /\ store'.floor = store.floor /\ store'.format = store.format
        /\ store'.magic = store.magic
    <3> DEFINE slot == [i \in Idx |-> IF i < Cap(p) THEN store.slot[i] ELSE Free]
    <3>1. store' = [store EXCEPT !.len = Cap(p), !.slot = slot]
      BY <1>1 DEF Resize
    <3> HIDE DEF slot
    <3> QED BY <1>f, <3>1 DEF StoreSet
  <2> QED BY <2>2, <2>3, <2>4 DEF InUse
<1>2. CASE WaitForFullSize(p)
  <2>1. \/ Mapped(p) /\ \E to \in {"wait", "check"} : Goto(p, to)
        \/ \E to \in {"failed"} : Goto(p, to)
    BY <1>2 DEF WaitForFullSize
  <2>2. (Mapped(p) /\ handle'[p].pc \in {"wait", "check"}) \/ handle'[p].pc \in {"failed"}
    BY <2>1, WentTo
  <2> QED BY <1>2, <2>2 DEF WaitForFullSize, At, InUse
<1>3. CASE CheckMagic(p)
  <2>1. \E to \in {"wait", "recheck"} : Goto(p, to)
    BY <1>3 DEF CheckMagic
  <2>2. handle'[p].pc \in {"wait", "recheck"}
    BY <2>1, WentTo
  <2> QED BY <1>3, <2>2 DEF CheckMagic, At, InUse
<1>4. CASE CheckAgain(p)
  <2>1. handle'[p].pc = "clear" \/ handle'[p].pc = "wait"
    BY <1>4, Rewritten
  <2> QED BY <1>4, <2>1 DEF CheckAgain, At, InUse
<1>5. CASE ClearSlot(p)
  <2>1. handle'[p].pc = "clear" \/ handle'[p].pc = "floor"
    BY <1>5, Rewritten
  <2>2. handle[p].pc = "clear" /\ sent' = sent
    BY <1>5 DEF ClearSlot, At
  <2>3. store'.len = store.len /\ store'.floor = store.floor /\ store'.format = store.format
        /\ store'.magic = store.magic
    BY <1>5, <1>f DEF ClearSlot, StoreSet
  <2> QED BY <2>1, <2>2, <2>3 DEF InUse
<1>6. CASE StoreFloor(p)
  <2>1. handle[p].pc = "floor" /\ sent' = sent /\ Goto(p, "format")
    BY <1>6 DEF StoreFloor, At
  <2>2. handle'[p].pc = "format"
    BY <2>1, Went
  <2>3. store'.len = store.len /\ store'.floor = None /\ store'.format = store.format
        /\ store'.magic = store.magic /\ store'.slot = store.slot
    BY <1>6, <1>f DEF StoreFloor, StoreSet
  <2> QED BY <2>1, <2>2, <2>3 DEF InUse
<1>7. CASE PublishMagic(p)
  <2>1. sent' = sent
    BY <1>7 DEF PublishMagic
  <2>2. CASE handle[p].pc = "format"
    <3>1. store' = [store EXCEPT !.format = Format] /\ Goto(p, "magic")
      BY <1>7, <2>2 DEF PublishMagic, At
    <3>2. handle'[p].pc = "magic"
      BY <3>1, Went
    <3>3. store'.len = store.len /\ store'.floor = store.floor /\ store'.format = Format
          /\ store'.magic = store.magic /\ store'.slot = store.slot
      BY <1>f, <3>1 DEF StoreSet
    <3> QED BY <2>1, <2>2, <3>2, <3>3 DEF InUse
  <2>3. CASE handle[p].pc = "magic"
    <3>1. store' = [store EXCEPT !.magic = Mode(p)] /\ Goto(p, "ready")
      BY <1>7, <2>3 DEF PublishMagic, At
    <3>2. handle'[p].pc = "ready"
      BY <3>1, Went
    <3>3. store'.len = store.len /\ store'.floor = store.floor /\ store'.format = store.format
          /\ store'.magic = Mode(p) /\ store'.slot = store.slot
      BY <1>f, <3>1 DEF StoreSet
    <3> QED BY <2>1, <2>3, <3>2, <3>3 DEF InUse
  <2> QED BY <1>7, <2>2, <2>3 DEF PublishMagic, At
<1>8. CASE WaitInitialized(p) /\ ~Refuse(p)
  <2>1. handle'[p].pc = "ready"
    BY <1>8, Rewritten
  <2> QED BY <1>8, <2>1 DEF WaitInitialized, At, InUse
<1>9. CASE BeginSend(p) \/ EndSend(p)
  <2>1. \/ handle[p].pc = "ready" /\ sent' = sent /\ handle'[p].pc = "sending"
        \/ handle[p].pc = "filled" /\ handle'[p].pc = "ready"
    BY <1>9, Rewritten DEF BeginSend, EndSend, At
  <2>2. store' = store \/ store' = [store EXCEPT !.head = LoadHead + 1]
        \/ store' = [store EXCEPT !.head = handle[p].seen + 1]
    BY <1>9 DEF BeginSend, EndSend, Advanced
  <2>3. store'.len = store.len /\ store'.floor = store.floor /\ store'.format = store.format
        /\ store'.magic = store.magic /\ store'.slot = store.slot
    BY <1>f, <2>2 DEF StoreSet
  <2> QED BY <2>1, <2>3 DEF InUse
<1>10. CASE FillSlot(p)
  <2>1. \E to \in {"filled", "ready"} : Goto(p, to)
    BY <1>10 DEF FillSlot
  <2>2. handle'[p].pc \in {"filled", "ready"}
    BY <2>1, WentTo
  <2>3. handle[p].pc = "sending" /\ sent' = sent
    BY <1>10 DEF FillSlot, At
  <2>4. store'.len = store.len /\ store'.floor = store.floor /\ store'.format = store.format
        /\ store'.magic = store.magic
    BY <1>10, <1>f DEF FillSlot, StoreSet
  <2> QED BY <2>2, <2>3, <2>4 DEF InUse
<1> QED BY <1>1, <1>2, <1>3, <1>4, <1>5, <1>6, <1>7, <1>8, <1>9, <1>10 DEF Moves

LEMMA MapNext ==
  ASSUME Typed, HeldInv, MapInv, Whole', NEW p \in Procs, Acts(p)
  PROVE  MapInv'
<1>f. /\ \A q \in Procs : Cap(q) \in 1 .. Slots /\ Cap(q)' = Cap(q)
      /\ \A q \in Procs : handle[q].pc \in Opened \cup {"idle", "failed", "dead"}
      /\ store.len \in 0 .. Slots /\ Slots \in Nat
      /\ Section' = Section
  BY Facts, Frame DEF HandleSet, StoreSet, Cap, Opened, Section
<1>o. \A q \in Procs : q # p => handle'[q] = handle[q]
  BY Frame
<1> SUFFICES
      /\ \A q \in Procs : handle'[q].pc \in Opened \ {"resize", "size"} => store'.len >= Cap(q)
      /\ \A q \in Procs : handle'[q].pc = "resize" =>
           /\ ~Section /\ store'.len = 0 /\ store'.magic = None
           /\ \A r \in Procs : r # q => handle'[r].pc \in Away
  BY <1>f DEF MapInv, Mapped, Opened, InOpen, InUse, Away
<1>m. /\ \A q \in Procs : handle[q].pc \in Opened \ {"resize", "size"} => store.len >= Cap(q)
      /\ \A q \in Procs : handle[q].pc = "resize" =>
           /\ ~Section /\ store.len = 0 /\ store.magic = None
           /\ \A r \in Procs : r # q => handle[r].pc \in Away
  BY DEF MapInv, Mapped
<1>z. \A n : Zeroed(n).len = n /\ Zeroed(n).magic = None
  BY DEF Zeroed
<1>1. CASE Makes(p)
  <2>1. \A q \in Procs : handle[q].pc \in {"idle", "failed", "dead"}
    BY <1>1, <1>f, AnewAlone DEF Whole
  <2>2. handle'[p].pc = "resize" /\ store'.len = 0 /\ store'.magic = None /\ ~Section
    BY <1>1, <1>z, Made DEF Makes
  <2> QED BY <1>o, <2>1, <2>2 DEF Away, Opened, InOpen, InUse
<1>2. CASE Finds(p)
  <2>1. /\ store' = store /\ handle[p].pc = "idle"
        /\ handle'[p].pc \in {"size", "failed", "recheck", "check", "wait"}
        /\ handle'[p].pc \notin {"failed", "size"} => store.len >= Cap(p)
    BY <1>2, Found DEF Finds, Mapped
  <2>2. store.len = 0 => handle'[p].pc \in {"failed", "size"}
    BY <1>f, <2>1
  <2>3. ASSUME NEW q \in Procs, handle'[q].pc \in Opened \ {"resize", "size"}
        PROVE  store'.len >= Cap(q)
    <3>1. CASE q = p
      BY <2>1, <2>3, <3>1 DEF Opened, InOpen, InUse
    <3>2. CASE q # p
      BY <1>o, <1>m, <2>1, <2>3, <3>2
    <3> QED BY <3>1, <3>2
  <2>4. ASSUME NEW q \in Procs, handle'[q].pc = "resize"
        PROVE  /\ ~Section /\ store'.len = 0 /\ store'.magic = None
               /\ \A r \in Procs : r # q => handle'[r].pc \in Away
    <3>1. q # p /\ handle[q].pc = "resize"
      BY <1>o, <2>1, <2>4
    <3>2. /\ ~Section /\ store.len = 0 /\ store.magic = None
          /\ \A r \in Procs : r # q => handle[r].pc \in Away
      BY <1>m, <3>1
    <3>3. handle'[p].pc \in Away
      BY <2>2, <3>2 DEF Away
    <3> QED BY <1>o, <2>1, <3>2, <3>3
  <2> QED BY <2>3, <2>4
<1>3. CASE MakesSection(p)
  <2>1. \A q \in Procs : handle[q].pc \in {"idle", "failed", "dead"}
    BY <1>3, <1>f, AnewAlone DEF Whole
  <2>2. handle'[p].pc \in {"check", "recheck"} /\ store'.len = Cap(p)
    BY <1>3, <1>z, SectionMade DEF MakesSection
  <2>3. store'.len >= Cap(p)
    BY <1>f, <2>2
  <2> QED BY <1>o, <2>1, <2>2, <2>3 DEF Opened, InOpen, InUse
<1>4. CASE Leaves(p)
  <2>1. handle'[p].pc \in {"idle", "failed", "dead"}
    BY <1>4, Left DEF Leaves
  <2>2. \A q \in Procs : handle'[q].pc \in Opened =>
          q # p /\ handle'[q] = handle[q] /\ store' = store
    BY <1>4, LeftBehind
  <2> QED BY <1>o, <1>m, <2>1, <2>2 DEF Away, Opened, InOpen, InUse
<1>5. CASE Moves(p)
  <2>1. /\ handle[p].pc \in Opened /\ handle'[p].pc \in Opened \cup {"failed"}
        /\ handle'[p].pc \notin {"size", "resize"}
    BY <1>5, Moved DEF Moves
  <2>2. CASE handle[p].pc = "resize"
    <3>1. \A q \in Procs : q # p => handle'[q].pc \in Away
      BY <1>o, <1>m, <2>2
    <3>2. store'.len = store.len \/ store'.len = Cap(p)
      BY <1>5, Written
    <3>3. Resize(p)
      BY <1>5, <2>2 DEF Moves, WaitForFullSize, CheckMagic, CheckAgain, ClearSlot, StoreFloor,
         PublishMagic, WaitInitialized, BeginSend, FillSlot, EndSend, At
    <3>4. store' = [store EXCEPT !.len = Cap(p),
                            !.slot = [i \in Idx |-> IF i < Cap(p) THEN @[i] ELSE Free]]
      BY <3>3 DEF Resize
    <3>5. store'.len >= Cap(p)
      <4> DEFINE slot == [i \in Idx |-> IF i < Cap(p) THEN store.slot[i] ELSE Free]
      <4>1. store' = [store EXCEPT !.len = Cap(p), !.slot = slot] /\ store \in StoreSet
        BY <3>4, Facts
      <4> HIDE DEF slot
      <4> QED BY <1>f, <4>1 DEF StoreSet
    <3> QED BY <2>1, <3>1, <3>5 DEF Away, Opened, InOpen, InUse
  <2>3. CASE handle[p].pc # "resize"
    <3>1. store'.len = store.len
      BY <1>5, <2>3, Written
    <3>2. handle'[p].pc \in Opened \ {"resize", "size"} => store.len >= Cap(p)
      <4>1. CASE handle[p].pc = "size"
        BY <1>5, <4>1, Written DEF Mapped, Opened, InOpen, InUse
      <4>2. CASE handle[p].pc # "size"
        BY <1>m, <2>1, <2>3, <4>2
      <4> QED BY <4>1, <4>2
    <3>3. ASSUME NEW q \in Procs, handle[q].pc = "resize"
          PROVE  handle'[p].pc = "failed" /\ store' = store
      <4>1. q # p /\ handle[p].pc = "size"
        BY <1>m, <2>1, <2>3, <3>3 DEF Away, Opened, InOpen, InUse
      <4>2. store' = store /\ (handle'[p].pc # "failed" => store.len >= Cap(p))
        BY <1>5, <4>1, Written DEF Mapped
      <4> QED BY <1>f, <1>m, <3>3, <4>2
    <3> QED BY <1>o, <1>m, <2>1, <3>1, <3>2, <3>3 DEF Away
  <2> QED BY <2>2, <2>3
<1> QED BY <1>1, <1>2, <1>3, <1>4, <1>5, Kinds

LEMMA WordsNext ==
  ASSUME Typed, HeldInv, WordsInv, Whole', NEW p \in Procs, Acts(p)
  PROVE  WordsInv'
<1>o. \A q \in Procs : q # p => handle'[q] = handle[q]
  BY Frame
<1>w. /\ \A q \in Procs : handle[q].pc \in {"format", "magic"} => store.floor = None
      /\ \A q \in Procs : handle[q].pc = "magic" => store.format = Format
      /\ store.magic # None /\ store.format = Format => store.floor = None
  BY DEF WordsInv
<1> SUFFICES
      /\ \A q \in Procs : handle'[q].pc \in {"format", "magic"} => store'.floor = None
      /\ \A q \in Procs : handle'[q].pc = "magic" => store'.format = Format
      /\ store'.magic # None /\ store'.format = Format => store'.floor = None
  BY DEF WordsInv
<1>z. (\A n : Zeroed(n).magic = None) /\ Gone.magic = None
  BY DEF Zeroed, Gone
<1>1. CASE Makes(p) \/ MakesSection(p)
  <2>1. \A q \in Procs : handle[q].pc \notin {"format", "magic"}
    BY <1>1, AnewAlone DEF Whole, Opened, InOpen
  <2>2. handle'[p].pc \in {"resize", "check", "recheck"} /\ store'.magic = None
    BY <1>1, <1>z, Made, SectionMade DEF Makes, MakesSection
  <2> QED BY <1>o, <2>1, <2>2
<1>2. CASE Finds(p)
  <2>1. store' = store /\ handle'[p].pc \in {"size", "failed", "recheck", "check", "wait"}
    BY <1>2, Found DEF Finds
  <2> QED BY <1>o, <1>w, <2>1
<1>3. CASE Leaves(p)
  <2>1. \A q \in Procs : handle'[q].pc \in {"format", "magic"} =>
          handle'[q] = handle[q] /\ store' = store
    BY <1>3, LeftBehind DEF Opened, InOpen
  <2>2. store' = store \/ store'.magic = None
    BY <1>3, <1>z, Left DEF Leaves
  <2> QED BY <1>w, <2>1, <2>2
<1>4. CASE Moves(p)
  <2>1. /\ store'.floor = store.floor \/ store'.floor = None
        /\ store'.format = store.format \/ (handle[p].pc = "format" /\ store'.format = Format)
        /\ store'.magic = store.magic \/ handle[p].pc = "magic"
        /\ handle'[p].pc = "format" => store'.floor = None
        /\ handle'[p].pc = "magic" => handle[p].pc = "format" /\ store'.format = Format
    BY <1>4, Written
  <2> QED BY <1>o, <1>w, <2>1
<1> QED BY <1>1, <1>2, <1>3, <1>4, Kinds

LEMMA ModeIsMagic ==
  ASSUME Typed, NEW p \in Procs
  PROVE  Mode(p) # None
BY DEF Mode, Magic, None

LEMMA SoleNext ==
  ASSUME Typed, HeldInv, WordsInv, SoleInv, Single', NEW p \in Procs, Acts(p)
  PROVE  SoleInv'
<1>o. /\ \A q \in Procs : q # p => handle'[q] = handle[q]
      /\ \A q \in Procs : Mode(q)' = Mode(q)
  BY Frame DEF Mode
<1>s. /\ \A q, r \in Procs : handle[q].pc \in Work /\ handle[r].pc \in Work => q = r
      /\ \A q \in Procs : handle[q].pc \in Work => store.magic = None
      /\ \A q \in Procs : handle[q].pc \in InUse => store.magic = Mode(q) /\ store.format = Format
  BY DEF SoleInv
<1> SUFFICES
      /\ \A q, r \in Procs : handle'[q].pc \in Work /\ handle'[r].pc \in Work => q = r
      /\ \A q \in Procs : handle'[q].pc \in Work => store'.magic = None
      /\ \A q \in Procs : handle'[q].pc \in InUse => store'.magic = Mode(q) /\ store'.format = Format
  BY <1>o DEF SoleInv
<1>1. CASE Makes(p) \/ MakesSection(p)
  <2>1. \A q \in Procs : handle[q].pc \notin Work \cup InUse
    BY <1>1, AnewAlone DEF Single, Whole, Opened, InOpen, Work
  <2>2. handle'[p].pc \in {"resize", "check", "recheck"}
    BY <1>1, Made, SectionMade DEF Makes, MakesSection
  <2> QED BY <1>o, <2>1, <2>2 DEF Work, InUse
<1>2. CASE Finds(p)
  <2>1. store' = store /\ handle'[p].pc \in {"size", "failed", "recheck", "check", "wait"}
    BY <1>2, Found DEF Finds
  <2> QED BY <1>o, <1>s, <2>1 DEF Work, InUse
<1>3. CASE Leaves(p)
  <2>1. \A q \in Procs : handle'[q].pc \in Work \cup InUse =>
          handle'[q] = handle[q] /\ store' = store
    BY <1>3, LeftBehind DEF Opened, InOpen, Work
  <2> QED BY <1>s, <2>1
<1>4. CASE Moves(p)
  <2>1. /\ store'.format = store.format \/ store'.format = Format
        /\ \/ store'.magic = store.magic
           \/ handle[p].pc = "magic" /\ store'.magic = Mode(p) /\ handle'[p].pc = "ready"
        /\ handle'[p].pc \in InUse => \/ handle[p].pc = "magic" /\ store'.magic = Mode(p)
                                      \/ handle[p].pc = "wait" /\ Compatible(p)
                                      \/ handle[p].pc \in InUse
    BY <1>4, Written
  \* Only one process is on its way to the magic.
  <2>2. handle'[p].pc \in Work =>
          store.magic = None /\ \A q \in Procs : q # p => handle[q].pc \notin Work
    <3>1. CASE handle[p].pc \in Work
      BY <1>s, <3>1
    <3>2. CASE handle[p].pc \notin Work /\ handle'[p].pc \in Work
      <4>1. handle[p].pc = "recheck" /\ CheckAgain(p)
        <5>1. handle[p].pc = "recheck"
          BY <1>4, <3>2, MovedFrom
        <5> QED BY <1>4, <5>1 DEF Moves, Resize, WaitForFullSize, CheckMagic, ClearSlot, StoreFloor,
            PublishMagic, WaitInitialized, BeginSend, FillSlot, EndSend, At
      <4>2. NoMagic
        BY <3>2, <4>1, Rewritten DEF Work
      <4>3. ~\E q \in Procs \ {p} : handle[q].pc \in {"clear", "floor", "format", "magic"}
        BY <4>1 DEF CheckAgain, Single
      <4> QED BY <4>2, <4>3 DEF NoMagic, Work
    <3> QED BY <3>1, <3>2
  \* The magic appears once.
  <2>3. CASE store'.magic = store.magic
    <3>1. \A q, r \in Procs : handle'[q].pc \in Work /\ handle'[r].pc \in Work => q = r
      BY <1>o, <1>s, <2>2
    <3>2. \A q \in Procs : handle'[q].pc \in Work => store'.magic = None
      BY <1>o, <1>s, <2>2, <2>3
    <3>3. ASSUME NEW q \in Procs, handle'[q].pc \in InUse
          PROVE  store'.magic = Mode(q) /\ store'.format = Format
      <4>1. CASE handle[q].pc \in InUse
        BY <1>s, <2>1, <2>3, <4>1
      <4>2. CASE handle[q].pc \notin InUse
        <5>1. q = p
          BY <1>o, <3>3, <4>2
        <5>2. CASE handle[p].pc = "magic" /\ store'.magic = Mode(p)
          <6>1. store.magic = None
            BY <1>s, <5>2 DEF Work
          <6> QED BY <2>3, <5>2, <6>1, ModeIsMagic
        <5>3. CASE handle[p].pc = "wait" /\ Compatible(p)
          BY <2>1, <2>3, <5>1, <5>3 DEF Compatible
        <5> QED BY <2>1, <3>3, <4>2, <5>1, <5>2, <5>3
      <4> QED BY <4>1, <4>2
    <3> QED BY <3>1, <3>2, <3>3
  <2>4. CASE handle[p].pc = "magic" /\ store'.magic = Mode(p) /\ handle'[p].pc = "ready"
    <3>1. store.magic = None /\ store.format = Format
      BY <1>s, <2>4 DEF Work, WordsInv
    <3>2. \A q \in Procs : q # p => handle[q].pc \notin Work /\ handle[q].pc \notin InUse
      BY <1>s, <2>4, <3>1, ModeIsMagic DEF Work
    <3>3. \A q \in Procs : handle'[q].pc \in Work \cup InUse => q = p /\ handle'[q].pc \notin Work
      BY <1>o, <2>4, <3>2 DEF Work
    <3> QED BY <2>1, <2>4, <3>1, <3>3
  <2> QED BY <2>1, <2>3, <2>4
<1> QED BY <1>1, <1>2, <1>3, <1>4, Kinds

LEMMA MessageNotFree ==
  ASSUME NEW m \in Messages
  PROVE  m # Free
BY DEF Messages, Free

\* The slot p fills is its own matter.
LEMMA TargetKept ==
  ASSUME Typed, scenario' = scenario, NEW q \in Procs, handle'[q] = handle[q]
  PROVE  Target(q)' = Target(q)
BY DEF Target, Cap

LEMMA SentNext ==
  ASSUME Typed, HeldInv, MapInv, SoleInv, SentInv, Single', NEW p \in Procs, Acts(p)
  PROVE  SentInv'
<1>o. /\ \A q \in Procs : q # p => handle'[q] = handle[q]
      /\ \A q \in Procs : handle'[q] = handle[q] => Target(q)' = Target(q)
      /\ scenario' = scenario
  BY Frame, TargetKept
<1>f. sent \subseteq (Idx \X Messages) /\ store \in StoreSet /\ handle \in [Procs -> HandleSet]
  BY Facts
<1>s. /\ sent # {} => store.there /\ store.magic # None
      /\ \A x \in sent : store.slot[x[1]] = x[2]
      /\ \A q \in Procs : handle[q].pc = "filled" =>
           store.slot[Target(q)] = Message(q, handle[q].sends)
  BY DEF SentInv
<1>u. \A q \in Procs : handle[q].pc \in InUse => store.magic # None
  BY ModeIsMagic DEF SoleInv
<1> SUFFICES
      /\ sent' # {} => store'.there /\ store'.magic # None
      /\ \A x \in sent' : store'.slot[x[1]] = x[2]
      /\ \A q \in Procs : handle'[q].pc = "filled" =>
           store'.slot[Target(q)'] = Message(q, handle'[q].sends)
  BY DEF SentInv, Message
<1>1. CASE Makes(p) \/ MakesSection(p)
  <2>1. ~store.there /\ sent' = sent /\ \A q \in Procs : handle[q].pc \notin Opened
    BY <1>1, AnewAlone, Made, SectionMade DEF Makes, MakesSection, Single, Whole
  <2>2. handle'[p].pc \in {"resize", "check", "recheck"}
    BY <1>1, Made, SectionMade DEF Makes, MakesSection
  <2>3. \A q \in Procs : handle'[q].pc # "filled"
    BY <1>o, <2>1, <2>2 DEF Opened, InUse
  <2> QED BY <1>s, <2>1, <2>3
<1>2. CASE Finds(p)
  <2>1. /\ store' = store /\ sent' = sent
        /\ handle'[p].pc \in {"size", "failed", "recheck", "check", "wait"}
    BY <1>2, Found DEF Finds
  <2>2. ASSUME NEW q \in Procs, handle'[q].pc = "filled"
        PROVE  handle'[q] = handle[q] /\ Target(q)' = Target(q)
    BY <1>o, <2>1, <2>2
  <2> QED BY <1>s, <2>1, <2>2
<1>3. CASE Leaves(p)
  <2>1. (store' = store /\ sent' = sent) \/ sent' = {}
    BY <1>3, Left DEF Leaves
  <2>2. ASSUME NEW q \in Procs, handle'[q].pc = "filled"
        PROVE  handle'[q] = handle[q] /\ Target(q)' = Target(q) /\ store' = store
    <3>1. handle'[q].pc \in Opened
      BY <2>2 DEF Opened, InUse
    <3> QED BY <1>3, <1>o, <3>1, LeftBehind
  <2> QED BY <1>s, <2>1, <2>2
<1>4. CASE Moves(p)
  <2>1. /\ store'.there = store.there
        /\ store'.magic = store.magic \/ store'.magic = Mode(p)
        /\ handle[p].pc \notin {"resize", "clear", "sending"} => store'.slot = store.slot
        /\ handle[p].pc # "filled" => sent' = sent
        /\ handle'[p].pc = "filled" => handle[p].pc = "sending"
    BY <1>4, Moved, Written DEF Moves
  <2>2. CASE handle[p].pc \in {"resize", "clear"}
    <3>1. store.magic = None
      BY <2>2 DEF MapInv, SoleInv, Work
    <3>2. sent' = {}
      BY <1>s, <2>1, <2>2, <3>1
    <3>3. \A q \in Procs : handle[q].pc # "filled"
      BY <1>u, <3>1 DEF InUse
    <3>4. \A q \in Procs : handle'[q].pc # "filled"
      BY <1>o, <2>1, <2>2, <3>3
    <3> QED BY <3>2, <3>4
  <2>3. CASE handle[p].pc = "sending"
    <3>1. FillSlot(p)
      BY <1>4, <2>3 DEF Moves, Resize, WaitForFullSize, CheckMagic, CheckAgain, ClearSlot, StoreFloor,
         PublishMagic, WaitInitialized, BeginSend, EndSend, At
    <3>2. sent' = sent /\ store'.magic # None
      BY <1>u, <2>1, <2>3, ModeIsMagic DEF InUse
    <3>3. CASE store.slot[Target(p)] = Free
      <4> DEFINE m == Message(p, handle[p].sends)
                 i == Target(p)
      <4>1. store' = [store EXCEPT !.slot[i] = m] /\ Goto(p, "filled")
        BY <3>1, <3>3 DEF FillSlot
      <4>2. /\ m \in Messages /\ i \in Idx
        <5>1. handle[p].sends \in 1 .. scenario.sends
          BY <2>3 DEF Typed
        <5> QED BY <5>1, TargetInside DEF Message, Messages
      <4>3. i = Target(p) /\ m = Message(p, handle[p].sends)
        OBVIOUS
      <4> HIDE DEF m, i
      <4>4. store'.slot[i] = m /\ \A j \in Idx : j # i => store'.slot[j] = store.slot[j]
        BY <1>f, <4>1, <4>2 DEF StoreSet
      <4>5. handle'[p] = [handle[p] EXCEPT !.pc = "filled"]
        BY <4>1, Went
      <4>6. /\ handle'[p].sends = handle[p].sends /\ handle'[p].seen = handle[p].seen
            /\ handle'[p].pos = handle[p].pos
        BY <1>f, <4>5 DEF HandleSet
      <4>7. Target(p)' = i
        BY <1>o, <4>3, <4>6 DEF Target, Cap
      <4>8. \A x \in sent : x[1] # i
        <5> SUFFICES ASSUME NEW x \in sent, x[1] = i PROVE FALSE
          OBVIOUS
        <5>1. x[2] \in Messages /\ store.slot[i] = x[2]
          BY <1>f, <1>s
        <5> QED BY <3>3, <4>3, <5>1, MessageNotFree
      <4>9. \A x \in sent' : store'.slot[x[1]] = x[2]
        BY <1>f, <1>s, <3>2, <4>4, <4>8
      <4>10. ASSUME NEW q \in Procs, handle'[q].pc = "filled"
             PROVE  store'.slot[Target(q)'] = Message(q, handle'[q].sends)
        <5>1. CASE q = p
          BY <4>3, <4>4, <4>6, <4>7, <5>1 DEF Message
        <5>2. CASE q # p
          <6>1. handle'[q] = handle[q] /\ Target(q)' = Target(q) /\ handle[q].pc = "filled"
            BY <1>o, <4>10, <5>2
          <6>2. store.slot[Target(q)] = Message(q, handle[q].sends)
            BY <1>s, <6>1
          <6>3. Message(q, handle[q].sends) \in Messages /\ Target(q) \in Idx
            <7>1. handle[q].sends \in 1 .. scenario.sends
              BY <6>1 DEF Typed
            <7> QED BY <7>1, TargetInside DEF Message, Messages
          <6>4. Target(q) # i
            BY <3>3, <4>3, <6>2, <6>3, MessageNotFree
          <6> QED BY <4>4, <6>1, <6>2, <6>3, <6>4
        <5> QED BY <5>1, <5>2
      <4> QED BY <1>s, <2>1, <3>2, <4>9, <4>10
    <3>4. CASE store.slot[Target(p)] # Free
      <4>1. store' = store /\ Goto(p, "ready")
        BY <3>1, <3>4 DEF FillSlot
      <4>2. handle'[p].pc = "ready"
        BY <4>1, Went
      <4>3. ASSUME NEW q \in Procs, handle'[q].pc = "filled"
            PROVE  handle'[q] = handle[q] /\ Target(q)' = Target(q)
        BY <1>o, <4>2, <4>3
      <4> QED BY <1>s, <3>2, <4>1, <4>3
    <3> QED BY <3>3, <3>4
  <2>4. CASE handle[p].pc \notin {"resize", "clear", "sending"}
    <3>1. store'.slot = store.slot /\ handle'[p].pc # "filled"
      BY <2>1, <2>4
    <3>2. \A q \in Procs : handle'[q].pc = "filled" =>
            store'.slot[Target(q)'] = Message(q, handle'[q].sends)
      BY <1>o, <1>s, <3>1
    <3>3. CASE handle[p].pc = "filled"
      <4>1. EndSend(p)
        BY <1>4, <3>3 DEF Moves, Resize, WaitForFullSize, CheckMagic, CheckAgain, ClearSlot, StoreFloor,
           PublishMagic, WaitInitialized, BeginSend, FillSlot, At
      <4>2. sent' = sent \cup {<<Target(p), Message(p, handle[p].sends)>>}
        BY <4>1 DEF EndSend
      <4>3. store.slot[Target(p)] = Message(p, handle[p].sends)
        BY <1>s, <3>3
      <4>4. store.there /\ store'.magic # None
        BY <1>u, <2>1, <3>3, ModeIsMagic DEF InUse, HeldInv, Opened
      <4> QED BY <1>s, <2>1, <3>1, <3>2, <4>2, <4>3, <4>4
    <3>4. CASE handle[p].pc # "filled"
      <4>1. sent' = sent
        BY <2>1, <3>4
      <4>2. store.magic # None => store'.magic # None
        BY <2>1, ModeIsMagic
      <4> QED BY <1>s, <2>1, <3>1, <3>2, <4>1, <4>2
    <3> QED BY <3>3, <3>4
  <2> QED BY <2>2, <2>3, <2>4
<1> QED BY <1>1, <1>2, <1>3, <1>4, Kinds

-----------------------------------------------------------------------------
(* The theorems *)

LEMMA InvInit == Init => IInv
<1> SUFFICES ASSUME Init PROVE IInv
  OBVIOUS
<1>1. \A p \in Procs : handle[p].pc = "idle"
  BY DEF Init
<1>2. sent = {} /\ met = {} /\ store = AtStart(scenario) /\ scenario \in Scenarios
  BY DEF Init
<1>3. scenario.left \in {"nothing", "unfinished", "older"}
  BY <1>2, ScenariosAssumption
<1>4. store.magic = None \/ store.format # Format
  <2>1. CASE scenario.left = "older"
    <3>1. store = [Zeroed(Slots) EXCEPT !.format = Format - 1, !.magic = Magic(FALSE)]
      BY <1>2, <2>1 DEF AtStart
    <3>2. store.format = Format - 1
      BY <3>1 DEF Zeroed
    <3> QED BY <3>2 DEF Format
  <2>2. CASE scenario.left # "older"
    <3>1. store = Gone \/ store = Zeroed(Slots)
      BY <1>2, <1>3, <2>2 DEF AtStart
    <3> QED BY <3>1 DEF Gone, Zeroed
  <2> QED BY <2>1, <2>2
<1>5. HeldInv /\ MapInv /\ WordsInv /\ SoleInv /\ SentInv /\ CreatorInv
  BY <1>1, <1>2, <1>4 DEF HeldInv, MapInv, WordsInv, SoleInv, SentInv, CreatorInv, Creating,
     Opened, InOpen, InUse, Work
<1> QED BY <1>5, TypedInit DEF IInv

LEMMA InvNext == IInv /\ [Next]_vars => IInv'
<1> SUFFICES ASSUME IInv, [Next]_vars PROVE IInv'
  OBVIOUS
<1>1. CASE UNCHANGED vars
  BY <1>1, TypedNext DEF IInv, vars, HeldInv, MapInv, WordsInv, SoleInv, SentInv, CreatorInv, Creating,
     Clean, Whole, Single, Mapped, Section, Mode, Target, Cap, Op
<1>2. CASE Next
  <2>1. PICK p \in Procs : Acts(p)
    BY <1>2 DEF Next, Acts
  <2>2. Typed /\ HeldInv /\ CreatorInv
    BY DEF IInv
  <2>3. met \subseteq met'
    BY <2>1, <2>2, Frame
  <2>4. (Whole' => Whole) /\ (Single' => Single) /\ (Single' => Whole')
    BY <2>3 DEF Single, Whole
  <2>5. Typed'
    BY <1>2, <2>2, TypedNext
  <2>6. HeldInv' /\ CreatorInv'
    BY <2>1, <2>2, HeldNext, CreatorNext
  <2>7. Whole' => MapInv' /\ WordsInv'
    BY <2>1, <2>2, <2>4, MapNext, WordsNext DEF IInv
  <2>8. Single' => SoleInv' /\ SentInv'
    BY <2>1, <2>2, <2>4, SoleNext, SentNext DEF IInv
  <2> QED BY <2>5, <2>6, <2>7, <2>8 DEF IInv
<1> QED BY <1>1, <1>2

LEMMA Invariance == Spec => []IInv
BY InvInit, InvNext, PTL DEF Spec

\* What the properties excuse is all that can break the invariant.
LEMMA NotExcused ==
  ASSUME IInv, ~Excused
  PROVE  MapInv /\ WordsInv /\ SoleInv /\ SentInv
<1>1. Whole /\ ("raced" \in met => ~scenario.stale /\ \A p \in Procs : Op(p) # "create")
  BY DEF Excused, Whole
<1>2. Single
  BY <1>1 DEF IInv, CreatorInv, Clean, Single
<1> QED BY <1>1, <1>2 DEF IInv

\* Opening a region never wipes a message that was sent through it
\* (initialize_region, create_or_open): for any number of processes, whatever
\* they call, on a file or on a section, killed or not.
THEOREM SentMessagesSurvive == Spec => []MessagesSurvive
<1>1. IInv => MessagesSurvive
  BY NotExcused DEF MessagesSurvive, SentInv
<1> QED BY <1>1, Invariance, PTL

\* A handle in use has a whole region of its own mode and layout
\* (wait_initialized, check_format, initialize_region).
THEOREM HandlesHaveARegion == Spec => []ReadyIsInitialised
<1>1. IInv => ReadyIsInitialised
  <2> SUFFICES ASSUME IInv, ~Excused, NEW p \in Procs, handle[p].pc \in InUse
               PROVE  /\ Mapped(p) /\ store.magic = Mode(p) /\ store.format = Format
                      /\ store.floor = None
    BY DEF ReadyIsInitialised
  <2>1. store.magic = Mode(p) /\ store.format = Format
    BY NotExcused DEF SoleInv
  <2>2. Mapped(p)
    BY NotExcused DEF MapInv, Opened, InUse
  <2>3. store.floor = None
    BY <2>1, NotExcused, ModeIsMagic DEF WordsInv, IInv
  <2> QED BY <2>1, <2>2, <2>3
<1> QED BY <1>1, Invariance, PTL

-----------------------------------------------------------------------------
(* The producer's position *)

\* A ring in single-producer mode has one sender.
OneProducer ==
  \A p, q \in scenario.senders : ~scenario.multi[p] /\ ~scenario.multi[q] => p = q
Producer(p) == p \in scenario.senders /\ ~scenario.multi[p] /\ Op(p) # "create"

HeadInv == store.head # 0 => store.magic # None
SendersInv == \A p \in Procs : handle[p].pc \in {"sending", "filled"} => p \in scenario.senders

\* A producer that found no magic will begin at 0, and so does the ring it finds
\* then, or it will find a ring of the other mode and be refused.  One that has
\* not looked yet will recover its position.
Afresh(p) == handle[p].pc \in Work \/ (handle[p].pc = "wait" /\ handle[p].fresh = TRUE)
PlaceInv(p) ==
  /\ handle[p].pc \in InUse => handle[p].pos = store.head
  /\ handle[p].pc \in {"sending", "filled"} => handle[p].seen = store.head
  /\ handle[p].pc = "recheck" \/ Afresh(p) => store.head = 0 \/ store.magic # Mode(p)
  /\ Afresh(p) => handle[p].pos = 0
  /\ handle[p].pc \in {"resize", "size", "check"} => handle[p].fresh = FALSE

PosInv == HeadInv /\ SendersInv /\ \A p \in Procs : Producer(p) => PlaceInv(p)

\* What a step does to the head.
LEMMA HeadMoved ==
  ASSUME Typed, NEW p \in Procs, Moves(p)
  PROVE  \/ store'.head = store.head
         \/ BeginSend(p) /\ scenario.multi[p]
         \/ EndSend(p) /\ ~scenario.multi[p] /\ store'.head = handle[p].seen + 1
<1>f. store \in StoreSet
  BY Facts
<1>1. CASE Resize(p)
  BY <1>1, <1>f DEF Resize, StoreSet
<1>2. CASE ClearSlot(p)
  BY <1>2, <1>f DEF ClearSlot, StoreSet
<1>3. CASE StoreFloor(p)
  BY <1>3, <1>f DEF StoreFloor, StoreSet
<1>4. CASE PublishMagic(p)
  BY <1>4, <1>f DEF PublishMagic, StoreSet
<1>5. CASE BeginSend(p)
  BY <1>5 DEF BeginSend
<1>6. CASE FillSlot(p)
  BY <1>6, <1>f DEF FillSlot, StoreSet
<1>7. CASE EndSend(p)
  <2>1. CASE scenario.multi[p]
    BY <1>7, <2>1 DEF EndSend
  <2>2. CASE ~scenario.multi[p]
    <3>1. store' = [store EXCEPT !.head = handle[p].seen + 1]
      BY <1>7, <2>2 DEF EndSend, Advanced
    <3> QED BY <1>7, <1>f, <2>2, <3>1 DEF StoreSet
  <2> QED BY <2>1, <2>2
<1>8. CASE WaitForFullSize(p) \/ CheckMagic(p) \/ CheckAgain(p) \/ (WaitInitialized(p) /\ ~Refuse(p))
  BY <1>8 DEF WaitForFullSize, CheckMagic, CheckAgain, WaitInitialized
<1> QED BY <1>1, <1>2, <1>3, <1>4, <1>5, <1>6, <1>7, <1>8 DEF Moves

\* What a step does to the position of the one who makes it.
LEMMA PlaceMoved ==
  ASSUME Typed, NEW p \in Procs, Moves(p)
  PROVE  \/ /\ handle'[p].pos = handle[p].pos /\ handle'[p].fresh = handle[p].fresh
            /\ \/ handle'[p].seen = handle[p].seen
               \/ BeginSend(p) /\ handle'[p].seen = store.head
         \/ /\ CheckAgain(p) /\ handle'[p].pos = 0
         \/ /\ WaitInitialized(p) /\ Compatible(p) /\ handle[p].pc = "wait"
            /\ handle'[p].pc = "ready"
            /\ handle'[p].pos = IF handle[p].fresh THEN 0 ELSE store.head
         \/ EndSend(p) /\ handle'[p].pos = Target(p) + 1 /\ handle'[p].pc = "ready"
<1>f. /\ handle \in [Procs -> HandleSet] /\ handle[p] \in HandleSet
  BY Facts
<1>1. CASE \E to : Goto(p, to)
  <2>1. PICK to : Goto(p, to)
    BY <1>1
  <2>2. handle'[p] = [handle[p] EXCEPT !.pc = to]
    BY <2>1, Went
  <2> QED BY <1>f, <2>2 DEF HandleSet
<1>2. CASE CheckAgain(p)
  <2> DEFINE to == IF NoMagic THEN "clear" ELSE "wait"
  <2>1. handle'[p] = [handle[p] EXCEPT !.pc = to, !.fresh = TRUE, !.i = 0, !.pos = 0]
    BY <1>2, <1>f DEF CheckAgain
  <2> HIDE DEF to
  <2>2. handle'[p].pos = 0
    BY <1>f, <2>1 DEF HandleSet
  <2> QED BY <1>2, <2>2
<1>3. CASE ClearSlot(p)
  <2> DEFINE to == IF LastSlot(p) THEN "floor" ELSE "clear"
  <2>1. handle'[p] = [handle[p] EXCEPT !.i = handle[p].i + 1, !.pc = to]
    BY <1>3, <1>f DEF ClearSlot
  <2> HIDE DEF to
  <2> QED BY <1>f, <2>1 DEF HandleSet
<1>4. CASE WaitInitialized(p) /\ ~Refuse(p)
  <2> DEFINE pos == IF handle[p].fresh THEN 0 ELSE store.head
  <2>1. /\ handle'[p] = [handle[p] EXCEPT !.pc = "ready", !.pos = pos]
        /\ Compatible(p) /\ handle[p].pc = "wait"
    BY <1>4, <1>f DEF WaitInitialized, At
  <2>2. pos = IF handle[p].fresh THEN 0 ELSE store.head
    OBVIOUS
  <2> HIDE DEF pos
  <2>3. handle'[p].pos = pos /\ handle'[p].pc = "ready"
    BY <1>f, <2>1 DEF HandleSet
  <2> QED BY <1>4, <2>1, <2>2, <2>3
<1>5. CASE BeginSend(p)
  <2> DEFINE n == handle[p].sends + 1
  <2>1. handle'[p] = [handle[p] EXCEPT !.pc = "sending", !.seen = store.head, !.sends = n]
    BY <1>5, <1>f DEF BeginSend, LoadHead
  <2> HIDE DEF n
  <2>2. /\ handle'[p].pos = handle[p].pos /\ handle'[p].fresh = handle[p].fresh
        /\ handle'[p].seen = store.head
    BY <1>f, <2>1 DEF HandleSet
  <2> QED BY <1>5, <2>2
<1>6. CASE EndSend(p)
  <2> DEFINE pos == Target(p) + 1
  <2>1. handle'[p] = [handle[p] EXCEPT !.pc = "ready", !.pos = pos]
    BY <1>6, <1>f DEF EndSend
  <2>2. pos = Target(p) + 1
    OBVIOUS
  <2> HIDE DEF pos
  <2>3. handle'[p].pos = pos /\ handle'[p].pc = "ready"
    BY <1>f, <2>1 DEF HandleSet
  <2> QED BY <1>6, <2>2, <2>3
<1>7. CASE Resize(p) \/ CheckMagic(p) \/ StoreFloor(p)
  BY <1>1, <1>7 DEF Resize, CheckMagic, StoreFloor
<1>8. CASE WaitForFullSize(p)
  BY <1>1, <1>8 DEF WaitForFullSize
<1>9. CASE PublishMagic(p)
  BY <1>1, <1>9 DEF PublishMagic
<1>10. CASE FillSlot(p)
  BY <1>1, <1>10 DEF FillSlot
<1> QED BY <1>2, <1>3, <1>4, <1>5, <1>6, <1>7, <1>8, <1>9, <1>10 DEF Moves


LEMMA StartedFresh ==
  ASSUME Typed, NEW p \in Procs, NEW to, NEW created, Start(p, to, created)
  PROVE  handle'[p].fresh = FALSE
<1>f. handle \in [Procs -> HandleSet] /\ handle[p] \in HandleSet
  BY Facts
<1> DEFINE n == handle[p].opens + 1
<1>1. handle'[p] = [handle[p] EXCEPT !.pc = to, !.held = TRUE, !.created = created,
                                     !.opens = n, !.fresh = FALSE]
  BY <1>f DEF Start
<1> HIDE DEF n
<1> QED BY <1>1, <1>f DEF HandleSet

\* A producer that begins an open is no initialiser yet.
LEMMA BegunFresh ==
  ASSUME Typed, NEW p \in Procs, Op(p) # "create", Makes(p) \/ Finds(p) \/ MakesSection(p)
  PROVE  /\ handle'[p].pc \in {"resize", "size", "check", "wait", "failed"}
         /\ handle'[p].pc # "failed" => handle'[p].fresh = FALSE
<1>1. CASE Makes(p)
  <2>1. handle'[p].pc = "resize"
    BY <1>1, Made DEF Makes
  <2>2. Start(p, "resize", TRUE)
    BY <1>1 DEF Makes, CreateNew, Truncate
  <2> QED BY <2>1, <2>2, StartedFresh
<1>2. CASE OpenFile(p)
  <2>1. handle'[p].pc \in {"size", "failed", "recheck", "check", "wait"}
    BY <1>2, Found
  <2>2. \E to \in {"size", "failed"} : Start(p, to, FALSE)
    BY <1>2 DEF OpenFile
  <2>3. PICK to \in {"size", "failed"} : Start(p, to, FALSE)
    BY <2>2
  <2>4. handle'[p].pc = to
    BY <2>3, StartedAs
  <2> QED BY <2>3, <2>4, StartedFresh
<1>3. CASE MapSection(p)
  <2>1. Op(p) \in {"create_or_open", "open"}
    BY ScenariosAssumption, Facts DEF Op
  <2>2. \/ Goto(p, "failed")
        \/ \E to \in {"failed", "check", "wait"}, created \in BOOLEAN : Start(p, to, created)
    <3>1. CASE \E created \in AlreadyExists(p) :
                 Start(p, CASE Op(p) = "create" -> "recheck"
                            [] Op(p) = "create_or_open" -> "check"
                            [] Op(p) = "open" -> "wait", created)
      <4>1. PICK created \in AlreadyExists(p) :
                 Start(p, CASE Op(p) = "create" -> "recheck"
                            [] Op(p) = "create_or_open" -> "check"
                            [] Op(p) = "open" -> "wait", created)
        BY <3>1
      <4>2. created \in BOOLEAN
        BY DEF AlreadyExists
      <4> QED BY <2>1, <4>1, <4>2
    <3> QED BY <1>3, <2>1, <3>1 DEF MapSection
  <2>3. CASE Goto(p, "failed")
    BY <2>3, Went
  <2>4. CASE \E to \in {"failed", "check", "wait"}, created \in BOOLEAN : Start(p, to, created)
    <3>1. PICK to \in {"failed", "check", "wait"}, created \in BOOLEAN : Start(p, to, created)
      BY <2>4
    <3>2. handle'[p].pc = to
      BY <3>1, StartedAs
    <3> QED BY <3>1, <3>2, StartedFresh
  <2> QED BY <2>2, <2>3, <2>4
<1> QED BY <1>1, <1>2, <1>3 DEF Finds, MakesSection

\* Only a sender sends.
LEMMA SendingMoved ==
  ASSUME Typed, NEW p \in Procs, Moves(p), handle'[p].pc = "sending"
  PROVE  BeginSend(p)
<1>1. CASE \E to \in {"size", "check", "recheck", "wait", "floor", "format", "magic", "ready", "filled", "failed"} :
             Goto(p, to)
  <2>1. PICK to \in {"size", "check", "recheck", "wait", "floor", "format", "magic", "ready", "filled", "failed"} :
             Goto(p, to)
    BY <1>1
  <2> QED BY <2>1, Went
<1>2. CASE CheckAgain(p) \/ ClearSlot(p) \/ (WaitInitialized(p) /\ ~Refuse(p)) \/ EndSend(p)
  BY <1>2, Rewritten
<1>3. CASE Resize(p) \/ CheckMagic(p) \/ StoreFloor(p)
  BY <1>1, <1>3 DEF Resize, CheckMagic, StoreFloor
<1>4. CASE WaitForFullSize(p)
  BY <1>1, <1>4 DEF WaitForFullSize
<1>5. CASE PublishMagic(p)
  BY <1>1, <1>5 DEF PublishMagic
<1>6. CASE FillSlot(p)
  BY <1>1, <1>6 DEF FillSlot
<1> QED BY <1>2, <1>3, <1>4, <1>5, <1>6 DEF Moves

\* The head moves under a magic, and with a magic.
LEMMA HeadNext ==
  ASSUME Typed, HeldInv, SoleInv, HeadInv, NEW p \in Procs, Acts(p), Single'
  PROVE  HeadInv'
<1>1. CASE Makes(p) \/ MakesSection(p)
  <2>1. store' = Zeroed(0) \/ store' = Zeroed(Cap(p))
    BY <1>1, Made, SectionMade DEF Makes, MakesSection
  <2> QED BY <2>1 DEF HeadInv, Zeroed
<1>2. CASE Finds(p)
  BY <1>2, Found DEF Finds, HeadInv
<1>3. CASE Leaves(p)
  <2>1. store' = store \/ store' = Gone
    BY <1>3, Left DEF Leaves
  <2> QED BY <2>1 DEF HeadInv, Gone, Zeroed
<1>4. CASE Moves(p)
  <2>1. store'.magic = store.magic \/ store'.magic = Mode(p)
    BY <1>4, Written
  <2>2. CASE store'.head = store.head
    BY <2>1, <2>2, ModeIsMagic DEF HeadInv
  <2>3. CASE BeginSend(p) \/ EndSend(p)
    <3>1. handle[p].pc \in InUse
      BY <2>3 DEF BeginSend, EndSend, At, InUse
    <3>2. store.magic = Mode(p)
      BY <3>1 DEF SoleInv
    <3> QED BY <2>1, <3>2, ModeIsMagic DEF HeadInv
  <2> QED BY <1>4, <2>2, <2>3, HeadMoved
<1> QED BY <1>1, <1>2, <1>3, <1>4, Kinds

LEMMA SendersNext ==
  ASSUME Typed, HeldInv, SendersInv, NEW p \in Procs, Acts(p)
  PROVE  SendersInv'
<1>1. scenario' = scenario /\ \A q \in Procs : q # p => handle'[q] = handle[q]
  BY Frame
<1>2. CASE Makes(p) \/ MakesSection(p) \/ Finds(p)
  <2>1. handle'[p].pc \in {"resize", "check", "recheck", "size", "failed", "wait"}
    BY <1>2, Made, SectionMade, Found DEF Makes, MakesSection, Finds
  <2> QED BY <1>1, <2>1 DEF SendersInv
<1>3. CASE Leaves(p)
  <2>1. handle'[p].pc \in {"idle", "failed", "dead"}
    BY <1>3, Left DEF Leaves
  <2> QED BY <1>1, <2>1 DEF SendersInv
<1>4. CASE Moves(p)
  <2>1. handle'[p].pc = "filled" => handle[p].pc = "sending"
    BY <1>4, Written
  <2>2. handle'[p].pc = "sending" => p \in scenario.senders
    BY <1>4, SendingMoved DEF BeginSend
  <2> QED BY <1>1, <2>1, <2>2 DEF SendersInv
<1> QED BY <1>2, <1>3, <1>4, Kinds


\* The others' steps leave a producer's position what it is.
LEMMA PlaceOther ==
  ASSUME Typed, HeldInv, SoleInv, OneProducer, PosInv, NEW p \in Procs, Acts(p), Single',
         NEW q \in Procs, q # p, Producer(q)
  PROVE  PlaceInv(q)'
<1>1. /\ scenario' = scenario /\ handle'[q] = handle[q] /\ PlaceInv(q) /\ Mode(q)' = Mode(q)
  BY Frame DEF PosInv, Mode
<1>2. ASSUME handle[q].pc \in Opened => /\ store'.head = store.head
                                        /\ store'.magic = store.magic \/ store'.head = 0
      PROVE  PlaceInv(q)'
  <2>1. handle[q].pc \notin Opened => PlaceInv(q)'
    BY <1>1 DEF PlaceInv, Afresh, Opened, InOpen, InUse, Work
  <2> QED BY <1>1, <1>2, <2>1 DEF PlaceInv, Afresh
<1>3. CASE Makes(p) \/ MakesSection(p)
  <2>1. handle[q].pc \notin Opened
    BY <1>3, AnewAlone DEF Single, Whole
  <2> QED BY <1>2, <2>1
<1>4. CASE Finds(p)
  BY <1>2, <1>4, Found DEF Finds
<1>5. CASE Leaves(p)
  BY <1>1, <1>2, <1>5, LeftBehind
<1>6. CASE Moves(p)
  <2>1. CASE store'.head = store.head
    <3>1. CASE handle[p].pc = "magic"
      <4>1. store.head = 0
        BY <3>1 DEF SoleInv, Work, PosInv, HeadInv
      <4> QED BY <1>2, <2>1, <4>1
    <3>2. CASE handle[p].pc # "magic"
      BY <1>2, <1>6, <2>1, <3>2, Written
    <3> QED BY <3>1, <3>2
  <2>2. CASE BeginSend(p) /\ scenario.multi[p]
    <3>1. handle[p].pc = "ready"
      BY <2>2 DEF BeginSend, At
    <3>2. store.magic = Mode(p) /\ store'.magic = store.magic
      BY <1>6, <3>1, Written DEF SoleInv, InUse
    <3>3. Mode(p) # Mode(q)
      BY <2>2 DEF Mode, Magic, Producer
    <3>4. handle[q].pc \notin InUse
      BY <3>2, <3>3 DEF SoleInv
    <3>5. handle[q].pc \notin {"sending", "filled"}
      BY <3>4 DEF InUse
    <3> QED BY <1>1, <3>2, <3>3, <3>4, <3>5 DEF PlaceInv, Afresh
  <2>3. CASE EndSend(p) /\ ~scenario.multi[p]
    <3>1. p \in scenario.senders
      BY <2>3 DEF EndSend, At, PosInv, SendersInv
    <3> QED BY <2>3, <3>1 DEF OneProducer, Producer
  <2> QED BY <1>6, <2>1, <2>2, <2>3, HeadMoved
<1> QED BY <1>3, <1>4, <1>5, <1>6, Kinds

\* The producer's own steps: it takes the ring's position when it finds the ring,
\* and moves on with the head.
LEMMA PlaceOwn ==
  ASSUME Typed, HeldInv, SoleInv, PosInv, NEW p \in Procs, Acts(p), Single', Producer(p)
  PROVE  PlaceInv(p)'
<1>f. /\ handle[p] \in HandleSet /\ store \in StoreSet /\ Cap(p) \in 1 .. Slots /\ Slots \in Nat
  BY Facts
<1>1. scenario' = scenario /\ PlaceInv(p) /\ Mode(p)' = Mode(p) /\ Op(p) # "create" /\ HeadInv
      /\ ~scenario.multi[p]
  BY Frame DEF PosInv, Mode, Producer
<1>2. CASE Makes(p) \/ MakesSection(p) \/ Finds(p)
  <2>1. /\ handle'[p].pc \in {"resize", "size", "check", "wait", "failed"}
        /\ handle'[p].pc # "failed" => handle'[p].fresh = FALSE
    BY <1>1, <1>2, BegunFresh
  <2> QED BY <2>1 DEF PlaceInv, Afresh, InUse, Work
<1>3. CASE Leaves(p)
  <2>1. handle'[p].pc \in {"idle", "failed", "dead"}
    BY <1>3, Left DEF Leaves
  <2> QED BY <2>1 DEF PlaceInv, Afresh, InUse, Work
<1>4. CASE Moves(p)
  <2>0. handle[p].pc \in Work => store.magic = None /\ store.head = 0
    BY <1>1 DEF SoleInv, HeadInv
  <2>m. \/ store'.head = store.head
        \/ EndSend(p) /\ store'.head = handle[p].seen + 1
    BY <1>1, <1>4, HeadMoved
  <2>1. CASE Resize(p)
    <3>1. Goto(p, "check") /\ handle[p].pc = "resize"
      BY <1>1, <2>1 DEF Resize, At
    <3>2. handle'[p].pc = "check" /\ handle'[p].fresh = handle[p].fresh
      BY <1>f, <3>1, Went DEF HandleSet
    <3> QED BY <1>1, <3>1, <3>2 DEF PlaceInv, Afresh, InUse, Work
  <2>2. CASE WaitForFullSize(p)
    <3>1. \E to \in {"wait", "check", "failed"} : Goto(p, to)
      BY <2>2 DEF WaitForFullSize
    <3>2. PICK to \in {"wait", "check", "failed"} : Goto(p, to)
      BY <3>1
    <3>3. handle'[p].pc = to /\ handle'[p].fresh = handle[p].fresh
      BY <1>f, <3>2, Went DEF HandleSet
    <3>4. handle[p].fresh = FALSE
      BY <1>1, <2>2 DEF WaitForFullSize, At, PlaceInv
    <3> QED BY <3>3, <3>4 DEF PlaceInv, Afresh, InUse, Work
  <2>3. CASE CheckMagic(p)
    <3>1. /\ handle[p].pc = "check" /\ store' = store
          /\ \/ store.magic = None /\ Goto(p, "recheck")
             \/ Goto(p, "wait")
      BY <2>3 DEF CheckMagic, At, IsFresh
    <3>2. \/ handle'[p].pc = "recheck" /\ store.magic = None
          \/ handle'[p].pc = "wait" /\ handle'[p].fresh = handle[p].fresh
      <4>1. CASE Goto(p, "wait")
        BY <1>f, <4>1, Went DEF HandleSet
      <4> QED BY <3>1, <4>1, Went
    <3>3. handle[p].fresh = FALSE
      BY <1>1, <3>1 DEF PlaceInv
    <3>4. store.magic = None => store.head = 0
      BY <1>1 DEF HeadInv
    <3> QED BY <3>1, <3>2, <3>3, <3>4 DEF PlaceInv, Afresh, InUse, Work
  <2>4. CASE CheckAgain(p)
    <3>1. /\ handle[p].pc = "recheck" /\ store' = store
          /\ handle'[p].pc \in {"clear", "wait"}
      BY <2>4, Rewritten DEF CheckAgain, At
    <3>2. handle'[p].pos = 0
      <4>2. handle' = [handle EXCEPT ![p] =
              [@ EXCEPT !.pc = IF NoMagic THEN "clear" ELSE "wait", !.fresh = TRUE, !.i = 0, !.pos = 0]]
        BY <2>4 DEF CheckAgain
      <4> DEFINE to == IF NoMagic THEN "clear" ELSE "wait"
      <4>3. handle'[p] = [handle[p] EXCEPT !.pc = to, !.fresh = TRUE, !.i = 0, !.pos = 0]
        BY <4>2, Facts
      <4> HIDE DEF to
      <4> QED BY <1>f, <4>3 DEF HandleSet
    <3>3. store.head = 0 \/ store.magic # Mode(p)
      BY <1>1, <3>1 DEF PlaceInv
    <3> QED BY <1>1, <3>1, <3>2, <3>3 DEF PlaceInv, Afresh, InUse
  <2>5. CASE ClearSlot(p) \/ StoreFloor(p) \/ PublishMagic(p)
    <3>1. handle[p].pc \in Work
      BY <2>5 DEF ClearSlot, StoreFloor, PublishMagic, At, Work
    <3>2. handle'[p].pc \in {"clear", "floor", "format", "magic", "ready"}
      <4>1. CASE ClearSlot(p)
        BY <4>1, Rewritten
      <4>2. CASE StoreFloor(p)
        BY <4>2, Went DEF StoreFloor
      <4>3. CASE PublishMagic(p)
        BY <4>3, Went DEF PublishMagic
      <4> QED BY <2>5, <4>1, <4>2, <4>3
    <3>3. ~EndSend(p) /\ ~CheckAgain(p) /\ ~WaitInitialized(p)
      BY <3>1 DEF EndSend, CheckAgain, WaitInitialized, At, Work
    <3>4. handle'[p].pos = handle[p].pos /\ handle[p].pos = 0
      BY <1>1, <1>4, <3>1, <3>3, PlaceMoved DEF PlaceInv, Afresh
    <3>5. store'.head = 0
      BY <2>0, <2>m, <3>1, <3>3
    <3> QED BY <3>2, <3>4, <3>5 DEF PlaceInv, Afresh, InUse, Work
  <2>6. CASE WaitInitialized(p) /\ ~Refuse(p)
    <3>1. handle[p].pc = "wait" /\ Compatible(p) /\ store' = store /\ handle'[p].pc = "ready"
      BY <2>6, Rewritten DEF WaitInitialized, At
    <3>2. handle'[p].pos = IF handle[p].fresh THEN 0 ELSE store.head
      <4>1. ~EndSend(p) /\ ~CheckAgain(p)
        BY <3>1 DEF EndSend, CheckAgain, At
      <4>2. handle' = [handle EXCEPT ![p].pc = "ready",
                                     ![p].pos = IF handle[p].fresh THEN 0 ELSE store.head]
        BY <2>6, <3>1 DEF WaitInitialized
      <4> DEFINE pos == IF handle[p].fresh THEN 0 ELSE store.head
      <4>3. handle'[p] = [handle[p] EXCEPT !.pc = "ready", !.pos = pos]
        BY <4>2, Facts
      <4>4. pos = IF handle[p].fresh THEN 0 ELSE store.head
        OBVIOUS
      <4> HIDE DEF pos
      <4> QED BY <1>f, <4>3, <4>4 DEF HandleSet
    <3>3. handle[p].fresh = TRUE => store.head = 0
      BY <1>1, <3>1 DEF PlaceInv, Afresh, Compatible
    <3>4. handle'[p].pos = store'.head
      BY <1>f, <3>1, <3>2, <3>3 DEF HandleSet
    <3> QED BY <3>1, <3>4 DEF PlaceInv, Afresh, InUse, Work
  <2>7. CASE BeginSend(p)
    <3>1. handle[p].pc = "ready" /\ handle'[p].pc = "sending" /\ store' = store
      BY <1>1, <2>7, Rewritten DEF BeginSend, At
    <3>2. handle'[p].pos = handle[p].pos /\ handle'[p].seen = store.head
      <4> DEFINE n == handle[p].sends + 1
      <4>1. handle'[p] = [handle[p] EXCEPT !.pc = "sending", !.seen = store.head, !.sends = n]
        BY <2>7, Facts DEF BeginSend, LoadHead
      <4> HIDE DEF n
      <4> QED BY <1>f, <4>1 DEF HandleSet
    <3>3. handle[p].pos = store.head
      BY <1>1, <3>1 DEF PlaceInv, InUse
    <3> QED BY <3>1, <3>2, <3>3 DEF PlaceInv, Afresh, InUse, Work
  <2>8. CASE FillSlot(p)
    <3>1. handle[p].pc = "sending" /\ \E to \in {"filled", "ready"} : Goto(p, to)
      BY <2>8 DEF FillSlot, At
    <3>2. PICK to \in {"filled", "ready"} : Goto(p, to)
      BY <3>1
    <3>3. /\ handle'[p].pc = to /\ handle'[p].pos = handle[p].pos /\ handle'[p].seen = handle[p].seen
      BY <1>f, <3>2, Went DEF HandleSet
    <3>4. handle[p].pos = store.head /\ handle[p].seen = store.head
      BY <1>1, <3>1 DEF PlaceInv, InUse
    <3>5. store'.head = store.head
      BY <2>m, <3>1 DEF EndSend, At
    <3> QED BY <3>3, <3>4, <3>5 DEF PlaceInv, Afresh, InUse, Work
  <2>9. CASE EndSend(p)
    <3>1. handle[p].pc = "filled" /\ handle'[p].pc = "ready"
      BY <2>9, Rewritten DEF EndSend, At
    <3>2. handle[p].pos = store.head /\ handle[p].seen = store.head /\ handle[p].seen < Cap(p)
      BY <1>1, <3>1 DEF PlaceInv, InUse, Typed
    <3>3. Target(p) = store.head
      <4>1. store.head \in Nat /\ Cap(p) \in Nat \ {0} /\ store.head < Cap(p)
        BY <1>f, <3>2 DEF StoreSet
      <4> QED BY <1>1, <3>2, <4>1 DEF Target
    <3>4. handle'[p].pos = Target(p) + 1
      <4> DEFINE pos == Target(p) + 1
      <4>1. handle'[p] = [handle[p] EXCEPT !.pc = "ready", !.pos = pos]
        BY <2>9, Facts DEF EndSend
      <4>2. pos = Target(p) + 1
        OBVIOUS
      <4> HIDE DEF pos
      <4> QED BY <1>f, <4>1, <4>2 DEF HandleSet
    <3>5. store'.head = handle[p].seen + 1
      <4>1. store' = [store EXCEPT !.head = handle[p].seen + 1]
        BY <1>1, <2>9 DEF EndSend, Advanced
      <4> QED BY <1>f, <4>1 DEF StoreSet
    <3>6. handle'[p].pos = store'.head
      BY <3>2, <3>3, <3>4, <3>5
    <3> QED BY <3>1, <3>6 DEF PlaceInv, Afresh, InUse, Work
  <2> QED BY <1>4, <2>1, <2>2, <2>3, <2>4, <2>5, <2>6, <2>7, <2>8, <2>9 DEF Moves
<1> QED BY <1>2, <1>3, <1>4, Kinds

\* The positions, as long as nobody truncates the region or initialises it twice.
PlacedInv == OneProducer /\ Single => PosInv

LEMMA PlacedInit == Init => PlacedInv
<1> SUFFICES ASSUME Init PROVE PosInv
  BY DEF PlacedInv
<1>1. \A p \in Procs : handle[p].pc = "idle"
  BY DEF Init
<1>2. store.head = 0
  <2>1. scenario.left \in {"nothing", "unfinished", "older"} /\ store = AtStart(scenario)
    BY ScenariosAssumption DEF Init
  <2> QED BY <2>1 DEF AtStart, Gone, Zeroed
<1>3. HeadInv /\ SendersInv
  BY <1>1, <1>2 DEF HeadInv, SendersInv
<1>4. \A p \in Procs : PlaceInv(p)
  BY <1>1 DEF PlaceInv, Afresh, InUse, Work
<1> QED BY <1>3, <1>4 DEF PosInv

LEMMA PlacedNext == IInv /\ PlacedInv /\ [Next]_vars => PlacedInv'
<1> SUFFICES ASSUME IInv, PlacedInv, [Next]_vars, OneProducer', Single' PROVE PosInv'
  BY DEF PlacedInv
<1>1. CASE UNCHANGED vars
  BY <1>1 DEF vars, PlacedInv, OneProducer, Single, Whole, PosInv, HeadInv, SendersInv, PlaceInv,
     Afresh, Producer, Mode, Op
<1>2. CASE Next
  <2>1. PICK p \in Procs : Acts(p)
    BY <1>2 DEF Next, Acts
  <2>2. scenario' = scenario /\ met \subseteq met'
    BY <2>1, Frame DEF IInv
  <2>3. OneProducer /\ Single /\ Typed /\ HeldInv /\ SoleInv
    BY <2>2 DEF OneProducer, Single, Whole, IInv
  <2>4. PosInv
    BY <2>3 DEF PlacedInv
  <2>5. HeadInv' /\ SendersInv'
    BY <2>1, <2>3, <2>4, HeadNext, SendersNext DEF PosInv
  <2>6. ASSUME NEW q \in Procs, Producer(q)'
        PROVE  PlaceInv(q)'
    <3>1. Producer(q)
      BY <2>2, <2>6 DEF Producer, Op
    <3> QED BY <2>1, <2>3, <2>4, <3>1, PlaceOther, PlaceOwn
  <2> QED BY <2>5, <2>6 DEF PosInv
<1> QED BY <1>1, <1>2

\* The single producer's position is the ring's whenever it may send
\* (wait_initialized, recover_from_storage, send): created, found, found in the
\* middle of its creation, or come back to.
THEOREM ProducerFindsItsPlace == Spec => [](OneProducer => PositionRecovered)
<1>1. IInv /\ PlacedInv => (OneProducer => PositionRecovered)
  <2> SUFFICES ASSUME IInv, PlacedInv, OneProducer, ~Excused, NEW p \in scenario.senders,
                      At(p, "ready"), ~scenario.multi[p], Op(p) # "create"
               PROVE  handle[p].pos = store.head
    BY DEF PositionRecovered
  <2>1. Single
    BY DEF Excused, IInv, CreatorInv, Clean, Single, Whole
  <2>2. p \in Procs
    BY ScenariosAssumption DEF IInv, Typed, TypeOK
  <2>3. PlaceInv(p)
    BY <2>1, <2>2 DEF PlacedInv, PosInv, Producer
  <2> QED BY <2>3 DEF PlaceInv, At, InUse
<1>2. Spec => []PlacedInv
  BY PlacedInit, PlacedNext, Invariance, PTL DEF Spec
<1> QED BY <1>1, <1>2, Invariance, PTL
============================================================================
