--------------------------- MODULE MCMpscChannel ---------------------------
(***************************************************************************)
(* Small instances of MpscChannel for TLC: the scenarios a run explores.   *)
(***************************************************************************)
EXTENDS MpscChannel

CONSTANT Victim  \* the producer that may be killed

Scenario(strategy, sizes, sends, victims) ==
  [strategy |-> strategy, sizes |-> sizes, sends |-> sends, victims |-> victims]

\* Chunked messages between live processes, one-slot messages with a killed
\* producer (waiting for space, and dropping), and what drops and kills do to
\* messages that fill the ring.
Mixed ==
  {Scenario("Raise", {1, Cap}, 3, {}), Scenario("BlockTimed", {1}, 3, {Victim}),
   Scenario("DropOldest", {1}, 3, {Victim}), Scenario("DropOldest", {Cap}, 2, {}),
   Scenario("Raise", {Cap}, 2, {Victim})}

\* Two live senders of two-slot messages on a full ring.
ChunkedDrops == {Scenario("DropOldest", {2}, 2, {})}

\* More one-slot sends than the ring has slots, dropping: one drop that pauses
\* between its tail exchange and its release lets two reservations meet.
LongDrops == {Scenario("DropOldest", {1}, 5, {})}

\* A killed sender of a two-slot message beside a live sender.
KilledChunked == {Scenario("Raise", {1, 2}, 2, {Victim})}
============================================================================
