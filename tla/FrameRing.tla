------------------------------ MODULE FrameRing ------------------------------
(***************************************************************************)
(* The in-process rings: ShmSpscChannel over a FixedSlotRegion, and the    *)
(* prototype SpscBytesRing, which "establishes the public state-machine    *)
(* behavior" and here makes every call the other one makes.                *)
(*                                                                         *)
(* A message is its position in accepted, which gives its length; a frame  *)
(* holds the bytes of one from an offset to another.  A message longer     *)
(* than SlotSize goes into as many chunks as it needs, each with MetaLen   *)
(* bytes less of payload.  The storage may spoil a stored frame: its payload,    *)
(* which the checksum shows, or its header, which then does not decode.    *)
(* One handle makes one call at a time, so Block can only wait in vain and *)
(* is Raise.  Sequence numbers are modulo Width.                           *)
(***************************************************************************)
EXTENDS Integers, Sequences, FiniteSets, FiniteSetsExt

CONSTANTS
  Slots,     \* capacity
  SlotSize,  \* bytes of payload in a slot
  MetaLen,   \* bytes of a chunk's metadata
  Lengths,   \* lengths of the messages sent
  Width,     \* sequence numbers are 0 .. Width - 1
  MaxSends,  \* accepted messages (bound)
  Faults     \* spoiled frames (bound)

VARIABLES
  policy,  \* the backpressure
  ring,    \* the ShmSpscChannel
  proto,   \* the SpscBytesRing
  accepted, \* the lengths of the messages the ring accepted
  gone,    \* what became of those that left it, in that order
  result,  \* of the last call: the ring's and the prototype's
  spoiled  \* <<message, what is bad>> of the spoiled frames

ringVars == <<policy, ring, proto, accepted, gone, result, spoiled>>

ASSUME RingAssumption ==
  /\ {Slots, SlotSize, Width} \subseteq Nat \ {0} /\ {MetaLen, MaxSends, Faults} \subseteq Nat
  /\ Lengths \subseteq Nat

Index == 0 .. Slots - 1
Next1(i) == (i + 1) % Slots
NextSeq(n) == (n + 1) % Width

\* FrameKind::Bytes with the chunk's metadata; bad is the storage's doing.
Frame(m, index, total, from, to) ==
  [m |-> m, index |-> index, total |-> total, from |-> from, to |-> to, bad |-> "no"]
NoFrame == Frame(0, 0, 0, 0, 0)
Free == [state |-> "FREE", seq |-> 0, frame |-> NoFrame]
Chunked(frame) == frame.total > 1
\* decode_frame succeeds; and so does validate_bytes_frame.
Decodes(frame) == frame.bad # "header"
Valid(frame) == frame.bad = "no"

RingInit ==
  /\ policy \in {"Raise", "DropNewest", "DropOldest"}
  /\ ring = [slot |-> [i \in Index |-> Free], head |-> 0, tail |-> 0, len |-> 0,
             next |-> 0, expected |-> 0, closed |-> FALSE]
  /\ proto = [queue |-> <<>>, next |-> 0, closed |-> FALSE]
  /\ accepted = <<>> /\ gone = <<>> /\ result = <<"none", "none">> /\ spoiled = {}

-----------------------------------------------------------------------------
(* Chunks *)

ChunkSize == IF SlotSize > MetaLen THEN SlotSize - MetaLen ELSE 0
MaxMessageSize == Max({Slots * ChunkSize, SlotSize})

Rounded(n) == (n + ChunkSize - 1) \div ChunkSize

\* send_plan: the slots a message of n bytes needs, 0 if it is too large.
Needed(n) ==
  IF n <= SlotSize THEN 1
  ELSE IF ChunkSize = 0 THEN 0
  ELSE IF Rounded(n) > Slots \/ n > Slots * ChunkSize THEN 0 ELSE Rounded(n)

\* encode_message_frames, of message m.
Frames(m, n) ==
  IF Needed(n) = 1 THEN <<Frame(m, 0, 1, 0, n)>>
  ELSE [i \in 1 .. Needed(n) |->
          Frame(m, i - 1, Needed(n), (i - 1) * ChunkSize, Min({i * ChunkSize, n}))]

-----------------------------------------------------------------------------
(* The region: every step of a call gives [r, err, out], err = "" for Ok,  *)
(* out being what the messages that left became.                           *)

Step(r, err, out) == [r |-> r, err |-> err, out |-> out]
\* The first error ends the loop it is in.
While(at, Do(_)) ==
  IF at.err # "" THEN at
  ELSE LET s == Do(at.r) IN Step(s.r, s.err, at.out \o s.out)
Loop(n, r, Do(_, _)) ==
  LET at[i \in 0 .. n] ==
        IF i = 0 THEN Step(r, "", <<>>) ELSE While(at[i - 1], LAMBDA x : Do(x, i))
  IN at[n]

Tail1(r) == r.slot[r.tail]
Released(r) == [r EXCEPT !.slot[r.tail] = Free]
Pinned(r) == [r EXCEPT !.slot[r.tail].state = "PINNED"]
\* advance_tail_after_read
Advanced(r) == [Released(r) EXCEPT !.tail = Next1(@), !.len = @ - 1]
\* Mutant: a message leaves and the next one expected is still it.
StillExpected(r) == r
Skipped(r) == [r EXCEPT !.expected = NextSeq(@)]

\* write_committed, and the head past it.
WriteFrame(r, seq, frame) ==
  IF r.slot[r.head].state # "FREE" THEN Step(r, "full", <<>>)
  ELSE Step([r EXCEPT !.slot[r.head] = [state |-> "COMMITTED", seq |-> seq, frame |-> frame],
                      !.head = Next1(@), !.len = @ + 1], "", <<>>)

\* drop_oldest_message
DropOldest(r) ==
  LET s == Tail1(r)
      n == IF Chunked(s.frame) THEN s.frame.total ELSE 1
      Release(x, i) == IF Tail1(x).state # "COMMITTED" THEN Step(x, "not committed", <<>>)
                       ELSE Step(Advanced(x), "", <<>>)
      dropped == Loop(n, r, Release)
  IN CASE r.len = 0 -> Step(r, "", <<>>)
       [] r.len # 0 /\ s.state # "COMMITTED" -> Step(r, "empty", <<>>)
       [] r.len # 0 /\ s.state = "COMMITTED" /\ (~Decodes(s.frame) \/ s.frame.index # 0) ->
            Step(r, "corrupted", <<>>)
       [] OTHER -> IF dropped.err # "" THEN dropped
                   ELSE Step(Skipped(dropped.r), "", <<<<s.frame.m, "dropped">>>>)

\* prepare_send_slots; "skip" is DropNewest's Ok.
Prepare(r, n) ==
  LET Room(x) == Slots - x.len >= n
  IN CASE Room(r) -> Step(r, "", <<>>)
       [] ~Room(r) /\ policy = "Raise" -> Step(r, "full", <<>>)
       [] ~Room(r) /\ policy = "DropNewest" -> Step(r, "skip", <<>>)
       [] OTHER -> Loop(Slots, r, LAMBDA x, i : IF Room(x) THEN Step(x, "", <<>>) ELSE DropOldest(x))

RingSend(n) ==
  LET room == Prepare(ring, Needed(n))
      frames == Frames(Len(accepted) + 1, n)
      Write(r) == Loop(Len(frames), [r EXCEPT !.next = NextSeq(@)],
                       LAMBDA x, i : WriteFrame(x, r.next, frames[i]))
  IN IF ring.closed THEN Step(ring, "closed", <<>>)
     ELSE IF Needed(n) = 0 THEN Step(ring, "too large", <<>>)
     ELSE While(room, Write)

-----------------------------------------------------------------------------
(* recv_with_seq *)

\* The chunk the tail must hold: read_committed, decode_frame, validate_chunk.
\* On failure it is released and the tail stays where it is.
NextChunk(r, first, i) ==
  LET s == Tail1(r)
  IN CASE s.state # "COMMITTED" -> Step(r, "empty", <<>>)
       [] s.state = "COMMITTED" /\ s.seq # first.seq -> Step(Released(r), "mismatch", <<>>)
       [] s.state = "COMMITTED" /\ s.seq = first.seq
          /\ (~Valid(s.frame) \/ s.frame.index # i \/ s.frame.total # first.frame.total) ->
            Step(Released(r), "corrupted", <<>>)
       [] OTHER -> Step(Advanced(r), "", <<s.frame>>)

\* recv_chunked_message, the first chunk being pinned at the tail.
Reassembled(r, first) ==
  IF first.frame.index # 0 THEN Step(Released(r), "corrupted", <<>>)
  ELSE LET rest == Loop(first.frame.total - 1, Advanced(r), LAMBDA x, i : NextChunk(x, first, i))
       IN [rest EXCEPT !.out = <<first.frame>> \o @]

\* The bytes of the frames are the message's.
Whole(frames, m) ==
  /\ frames[1].from = 0 /\ frames[Len(frames)].to = accepted[m]
  /\ \A i \in DOMAIN frames : frames[i].m = m /\ (i > 1 => frames[i].from = frames[i - 1].to)

RingRecv ==
  LET s == Tail1(ring)
      r == Pinned(ring)
      whole == IF Chunked(s.frame) THEN Reassembled(r, s) ELSE Step(Advanced(r), "", <<s.frame>>)
      readable == ring.len > 0 /\ s.state = "COMMITTED"
  IN CASE ring.len = 0 -> Step(ring, IF ring.closed THEN "closed" ELSE "empty", <<>>)
       [] ring.len > 0 /\ s.state # "COMMITTED" -> Step(ring, "empty", <<>>)
       [] readable /\ s.seq # ring.expected -> Step(r, "mismatch", <<>>)
       [] readable /\ s.seq = ring.expected /\ ~Valid(s.frame) ->
            Step(Skipped(Advanced(r)), "corrupted", <<<<s.frame.m, "lost">>>>)
       [] OTHER ->
            IF whole.err # "" THEN Step(whole.r, whole.err, <<>>)
            ELSE Step(Skipped(whole.r), "",
                      <<<<s.frame.m, IF Whole(whole.out, s.frame.m) THEN "received" ELSE "torn">>>>)

-----------------------------------------------------------------------------
(* The prototype: its queue holds [seq, bad] *)

ProtoSend(n) ==
  LET full == Len(proto.queue) = Slots
      kept == IF full THEN Tail(proto.queue) ELSE proto.queue
  IN CASE proto.closed -> Step(proto, "closed", <<>>)
       [] ~proto.closed /\ n > SlotSize -> Step(proto, "too large", <<>>)
       [] ~proto.closed /\ n <= SlotSize /\ full /\ policy = "Raise" -> Step(proto, "full", <<>>)
       [] ~proto.closed /\ n <= SlotSize /\ full /\ policy = "DropNewest" -> Step(proto, "skip", <<>>)
       [] OTHER -> Step([proto EXCEPT !.queue = Append(kept, [seq |-> proto.next, bad |-> "no"]),
                                      !.next = NextSeq(@)], "", <<>>)

ProtoRecv ==
  IF proto.queue = <<>> THEN Step(proto, IF proto.closed THEN "closed" ELSE "empty", <<>>)
  ELSE Step([proto EXCEPT !.queue = Tail(@)],
            IF Head(proto.queue).bad # "no" THEN "corrupted" ELSE "", <<>>)

-----------------------------------------------------------------------------
(* Calls *)

Called(mine, its) ==
  /\ ring' = mine.r /\ proto' = its.r
  /\ gone' = gone \o mine.out /\ result' = <<mine.err, its.err>>

Send(n) ==
  /\ Len(accepted) < MaxSends
  /\ LET mine == RingSend(n)
     IN Called(mine, ProtoSend(n)) /\ accepted' = IF mine.err = "" THEN Append(accepted, n) ELSE accepted
  /\ UNCHANGED <<policy, spoiled>>

Recv == Called(RingRecv, ProtoRecv) /\ UNCHANGED <<policy, accepted, spoiled>>

CloseRing ==
  /\ ring' = [ring EXCEPT !.closed = TRUE] /\ proto' = [proto EXCEPT !.closed = TRUE]
  /\ result' = <<"", "">>
  /\ UNCHANGED <<policy, accepted, gone, spoiled>>

\* The frame at a distance d from the tail is spoiled, in both rings.
Spoil(d, what) ==
  LET i == (ring.tail + d) % Slots
  IN /\ Cardinality(spoiled) < Faults
     /\ d < ring.len /\ ring.slot[i].state = "COMMITTED" /\ ring.slot[i].frame.bad = "no"
     /\ ring' = [ring EXCEPT !.slot[i].frame.bad = what]
     /\ proto' = IF d + 1 \in DOMAIN proto.queue THEN [proto EXCEPT !.queue[d + 1].bad = what]
                 ELSE proto
     /\ spoiled' = spoiled \cup {<<ring.slot[i].frame.m, what>>}
     /\ UNCHANGED <<policy, accepted, gone, result>>

RingNext ==
  \/ \E n \in Lengths : Send(n)
  \/ Recv \/ CloseRing
  \/ \E d \in Index, what \in {"payload", "header"} : Spoil(d, what)
RingSpec == RingInit /\ [][RingNext]_ringVars

-----------------------------------------------------------------------------
(* Properties *)

\* Messages leave in the order they were sent, each once, a received one whole,
\* and lost only if it was spoiled; the slots from the tail hold the frames of
\* the others, chunk by chunk, and every other slot is free; the numbers agree.
WindowHoldsTheRest ==
  LET n == Len(gone)
      At(k) == ring.slot[(ring.tail + k) % Slots]
      Place(k) == <<At(k).frame.m, At(k).frame.index>>
      EndsIt(k) == At(k).frame.index + 1 = At(k).frame.total
  IN /\ \A i \in 1 .. n : gone[i][1] = i /\ gone[i][2] # "torn"
     /\ \A i \in 1 .. n : gone[i][2] = "lost" => \E f \in spoiled : f[1] = i
     /\ ring.head = (ring.tail + ring.len) % Slots
     /\ IF ring.len = 0 THEN n = Len(accepted)
        ELSE Place(0) = <<n + 1, 0>> /\ At(ring.len - 1).frame.m = Len(accepted) /\ EndsIt(ring.len - 1)
     /\ \A k \in 1 .. ring.len - 1 :
          Place(k) = IF EndsIt(k - 1) THEN <<Place(k - 1)[1] + 1, 0>>
                     ELSE <<Place(k - 1)[1], Place(k - 1)[2] + 1>>
     /\ \A k \in 0 .. Slots - 1 :
          IF k < ring.len
          THEN /\ At(k).state = "COMMITTED" /\ At(k).seq = (At(k).frame.m - 1) % Width
               /\ [At(k).frame EXCEPT !.bad = "no"]
                    = Frames(At(k).frame.m, accepted[At(k).frame.m])[At(k).frame.index + 1]
          ELSE At(k) = Free
     /\ ring.expected = n % Width /\ ring.next = Len(accepted) % Width

\* As long as every message fits a slot and every header is sound, the ring
\* answers every call as the prototype does, and holds the same messages.
AnswersAsPrototype ==
  /\ result[1] = result[2]
  /\ [k \in 1 .. ring.len |-> ring.slot[(ring.tail + k - 1) % Slots].seq]
       = [k \in DOMAIN proto.queue |-> proto.queue[k].seq]

\* The two, and the limit message_size_limits reports is the one send_plan
\* applies.  A spoiled chunk is the exception: the error paths of
\* recv_chunked_message leave a slot that no later call gets past.
RingHoldsTheRest ==
  /\ (\A f \in spoiled : Needed(accepted[f[1]]) = 1) => WindowHoldsTheRest
  /\ (\A i \in DOMAIN accepted : Needed(accepted[i]) = 1) /\ (\A f \in spoiled : f[2] = "payload")
     /\ result[1] # "too large" /\ result[2] # "too large" => AnswersAsPrototype
  /\ \A n \in Lengths : (Needed(n) # 0) = (n <= MaxMessageSize)
=============================================================================
