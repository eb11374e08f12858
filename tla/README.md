# A TLA+ model of dsline

dsline moves messages between processes through rings of fixed-size slots in
shared memory. This directory holds the specifications of its protocols, the
TLC configurations that check them on small instances, and TLAPS proofs of what
matters most for every instance. Paths below are relative to the repository;
`lib.rs` is `crates/dsline-shm/src/lib.rs`.

Check a run with `tlc -config SpscHealthy.cfg MCSpscChannel`, a proof with
`tlapm RegionProofs.tla`. `PROJECT.json` lists every run, names the lines each
definition stands for, and lists the hazards with the properties that watch
them.

## The system

| Component | State | Operations | Talks to |
|---|---|---|---|
| Region and storage (`lib.rs`, 391-1440, 1816-2600) | magic, head, tail and pin-floor words; per slot a header (state, sequence, writer identity) and a payload | load, store, fetch-max, compare-and-exchange of a word; read and write of bytes | every handle of every process |
| Single-producer channel (`PersistentShmChannel`, 2933-4580) | per handle: write index, mirrored cursors, recovery bias, next and expected sequence, closed flag | send, recv, try_recv, close | the region only: handles never message each other |
| Crash recovery (2467-2538, 3935-4310, `process.rs`) | writer identities in WRITING and PINNED headers, recovery bias, resync flag | recovery at open, reclaim at the tail, reclaim_stale | the operating system's process table |
| Zero-copy (2718-2912, 3456-3700) | leases, views, the pin floor | alloc, publish, abort, recv_view, release | the send guard |
| Multi-producer mode (3169-3295, 4141-4212, 4479-4552) | the head cursor as reservation counter | reservation, drop by tail exchange, reclaim of a dead reservation | other producers |
| Region creation (3014-3125, 2222-2300, 4561) | the magic word, published last | create, open, create_or_open | a racing creator |
| In-process rings (`spsc.rs`, `ShmSpscChannel` 4584-4892) | a queue of frames behind one `&mut` | send, recv, try_recv | nobody |
| Frames (`frame.rs`, `checksum.rs`, 83-280 of `lib.rs`) | none | encode, decode, chunk plan | all channels |
| Pipeline, expressions (`dsline-pipeline`, `dsline-ops`) | batches in a pipeline | compose, map, filter, batch, parse | channels as sources and sinks |
| Python binding (`dsline-python`) | the GIL, a mutex and a borrow per handle | send, recv, send_to, receive_from, collect | one channel per handle |
| URLs, sharded fan-out (`dsline-transport`, `python/dsline/sharded.py`) | round-robin counters | parsing, routing, recv_any | one channel per shard |

What is hard here is the shared region. There is no lock: two handles meet
through two cursors and the slot headers, each header write is blind, the
payload is copied between two header accesses, and a process may die between
any two accesses. The properties that make each part correct:

* channel: bounded FIFO, no slot overwritten before it is released, no read
  disturbed, every accepted message received;
* recovery: what a dead process left is reclaimed, what a live one owns is not,
  and the ring never wedges;
* zero-copy: the bytes under a live view or lease are not rewritten, and the
  guard sees every pin;
* multi-producer: reservations are disjoint and messages are taken once;
* creation: nobody uses a region whose slots are not initialised, and nobody
  initialises one that is in use;
* Python: a blocked send does not keep other threads from receiving;
* in-process rings, pipelines, expressions: they do what a simpler definition
  of them does.

## Modules

| Module | Models | Composed in |
|---|---|---|
| `MessageFifo` | the abstract promise: a queue of at most `Depth` messages | refined by `SpscChannel` |
| `SpscChannel` | one sending and one receiving handle, all strategies, chunks, close | `MCSpscChannel` |
| `SpscRecovery` | the same two sides with deaths, reopening and reclaims | `MCSpscRecovery` |
| `ZeroCopy` | leases, views, the pin floor, dead consumers | `MCZeroCopy` |
| `MpscChannel` | several senders, reservation by exchange, drops and reclaims | `MCMpscChannel` |
| `RegionInit` | creating and opening a region on a file or a section | `MCRegionInit` |
| `Expressions` | expr-lite: tokens, parser, Display, evaluation, and the grammar | `Pipelines` |
| `Pipelines` | operators over items, the Rust run and the Python collect | `PyPrograms` |
| `PyThreads` | threads of one Python program, the GIL, mutexes and borrows, over a channel | `PyPrograms` |
| `PyPrograms` | the program: it writes expressions, builds a pipeline, opens the channel and runs its threads | `MCDataflow` |
| `FrameRing` | `ShmSpscChannel` beside its prototype `SpscBytesRing`, with spoiled frames | `MCDataflow` |
| `RingArithmetic` | lemmas about `%`: positions less than a lap apart never share a slot | the proof modules |
| `SpscProofs`, `MpscProofs`, `RegionProofs`, `ZeroCopyProofs`, `SpscRecoveryProofs`, `PyThreadsProofs`, `FrameRingProofs` | the proofs | |

The channel modules are separate because each adds one difficulty (deaths,
pins, several senders) to the same ring, and each leaves out what another
one has. What they share, a slot header and its life cycle, is written the same
way in each: `WriteHeader`, `PublishIdentity`, `ReleaseHeader`. A step is always one
access to the region together with the private computation up to the handle's
next access, because that is the grain at which two processes interleave.

Every module except the single-producer ones takes a constant `Scenarios`: a
set of records that say what an instance explores (sizes of messages, number
of sends, who may be killed and where). `Init` picks one; so one run covers
several small instances, and the theorems hold for every such set.

### SpscChannel

`ppc` and `cpc` say where each handle stands in its call.

| Variables | Code |
|---|---|
| `head`, `tail`, `slots` | the region's cursors and slots (`WriteHeader`, `WritePayload`, `ReleaseHeader` are its three slot writes) |
| `headIdx`, `pTail`, `nextSeq` | the sender's `self.head`, `self.tail_cursor`, `self.next_seq` |
| `need`, `done`, `dropping` | `plan.needed_slots`, the loop in `send`, the loop in `drop_oldest_message` |
| `cTail`, `expected`, `hdrSeq`, `frame`, `total`, `part` | the receiver's `tail_cursor`, `expected_recv_seq`, the header, copy and chunk counters inside `recv_with_seq` and `recv_chunked_message` |
| `pres`, `cres` | how the last call ended: `Ok` or the error |
| `strategy`, `timed` | `config.backpressure` and `config.timeout`, chosen in `Init`, never changed |
| `sent`, `got` | history: committed and received messages |

`send` is `SendBegin`, then for a full ring `WaitPoll`/`WaitExpire` or the drop
steps `DropPeek`, `DropLook`, `DropFree`, `DropTail`, then per slot `CheckFree`,
`MarkWriting`, `FillSlot`, `CommitSlot`, and `PublishHead`. `recv` is
`RecvBegin`, then per slot `Gate` or `GateFails`, `CopyPayload`, `PinSlot`,
`CheckPinned`, `FreeTail`, `AdvanceTail`. `try_recv` is `TryBegin`, one look
`TryProbe`, and `recv` when there is something to read. `Verdict` collects the
checks the code makes on the copied frame: `stop` returns with the slot still
PINNED, `skip` consumes the slot with an error, `unpin` frees it without moving
the tail, and `take` accepts it.

Abstracted, here and in the other channel modules, and why it is sound:

* A message is its sequence number, a frame is that number with its place among
  the chunks. Checksums and TLV bytes only decide whether a copy is whole; a
  cleared payload is the frame no decoder accepts.
* Clearing a payload and writing its FREE header is one step, and so is the
  several-word header write. A reader that saw COMMITTED before either copies
  the old frame or a torn one, and both are covered by the copy being a later
  step than the gate.
* Memory is sequentially consistent. The code puts a release fence before every
  header that publishes a payload and an acquire fence after the gate.
* The head cursor of a single producer is written by it alone, so the loads in
  `refresh_cursors` on its side are one step, the load of the tail. On the
  receiver's side the head only feeds the closed-and-empty decision.
* Cursors and sequence numbers are naturals; the code uses wrapping `u64`.
  `FrameRing` wraps its numbers at a small width.

`GraceEnds` says whether the 256-yield poll for a later chunk may run out while
its writer lives. `FALSE` is the code's own assumption, `TRUE` what a busy
machine can do.

### SpscRecovery

A process is killed between two accesses (`Die`, `ConsDie`, at the places the
scenario allows) and another one opens the region (`Open`, `ConsOpen`). Opening is
`recover_from_storage` step by step: reclaim of dead WRITING slots, the scan of
the headers, the cursors, the inferred write position; cursors more than a lap
apart end it with `InvalidConfig` (`Inconsistent`). A chunk after the first must
agree with it in number and total, and have the next place (`WrongPart`). `StampSlot` publishes a
writer's identity after its fields, so a slot marked by a writer killed in
between names nobody (`Nameless`). The consumer that meets a dead writer's slot
at the tail goes through `Verify`, `FreeDead` and `SecondLook`. An identity is
the number of an opening, so process ids are never reused; the code compares
start times for that. Left out: strategies other than Raise and `close`
(`SpscChannel`), pins (`ZeroCopy`).

### ZeroCopy

`LeaseSlot` ends `alloc`, `Publish` and `Abort` end the lease; `KeepPinned` ends
`recv_view` after `PinSlot`, `StampSlot`, `LoadFloor` and `LowerFloor` (the loop of
`floor_min`, which gives up after `FloorTries` lost exchanges and goes on with the
floor it finds). `Release` frees the slot and starts `unpin_floor`: `UnpinEntry`
loads the floor, `UnpinScan` looks for the lowest pin, `UnpinRaise` is the one
compare-and-exchange. `ReclaimStale` and `ConsOpen`/`ConsRescan` find the pins
of dead consumers. Leases and views are for one-slot messages only and refuse
DropOldest, as in the code.

### MpscChannel

`LoadHead`, `LoadTail`, `Reserve` are the reservation loop, with the torn pair of
loads explored (`Inconsistent`). `DropGate` .. `DropReclaimTail` are
`drop_oldest_message_mpsc` with `try_reclaim_at_tail_mpsc` inside, `Verify`,
`ReclaimFree`, `ReclaimTail` the same reclaim on the receiving side. `Die` kills a
producer at any step. `Outstanding(p)` is what a handle has reserved and
not committed.

### RegionInit

One record per process says how far its open has come. `CreateNew`, `OpenFile`,
`Truncate`, `Resize`, `WaitForFullSize` are the mapped file, `MapSection` the named
section; `CheckMagic`, `CheckAgain`, `ClearSlot`, `StoreFloor`, `PublishMagic`
initialise, `WaitInitialized` waits, refuses or recovers the position. Sending
is kept to what the properties need (`BeginSend`, `FillSlot`, `EndSend`); nothing is
received, so a message stays until something wipes it. `LetGo` ends a section
with its last handle. `met` notes the three situations the code cannot cope
with: a file truncated while mapped, two initialisers at work, and a creator
killed before the magic.

### The data path above the ring

`Expressions` has the recursive-descent parser as recursive operators and, apart
from it, the grammar of the crate's documentation as a relation (`Derives`).
Numbers are exact fractions with two infinities and one NaN in place of `f64`; the
words `f64` parses are among the tokens (`NumberWords`). `Pipelines` has
the Rust `run` and the Python `collect` item by item, and `StageByStage` as the
reference. `PyThreads` has the calls of several threads with the GIL
(`HoldsGil`), the mutex of each handle and the exclusive borrow of `send_to`
and `receive_from`. Its ring is one that does not defend itself: a send reads the
head (`Claim`) and writes slot and head in a later step (`Push`), a receive reads the
tail (`Look`) and takes the slot and moves the tail later (`Take`), so two sends or two
receives that overlapped would lose or repeat a message; nothing but GIL, mutexes and
borrows keeps them apart. Each `collect` of a `from_transport` pipeline opens a handle
of its own (`Own`), which no mutex protects from another `collect`. What a pipeline
makes of a source or of drained messages is a constant operator (`Outgoing`,
`Incoming`), any function of them. `PyPrograms` gives both their meaning: `SentAs`
and `MadeOf` run
`Pipelines` and convert numbers and texts as `send_to` and `receive_from`
do. `FrameRing` runs the in-process
ring and its prototype on the same calls, with at most `Faults` spoiled frames.
These five are one run because they are one program's data path; the ring
shares no state with the rest, so the composition interleaves nothing between
them (`MCDataflow`).

## Runs

| Run | Question | Bounds |
|---|---|---|
| `spsc_healthy` | Is the channel a bounded FIFO that delivers, when nothing is dropped? | 3 slots, 4 sends of 1 or 3 slots (4 is too large), three strategies with and without timeout |
| `spsc_racing` | What survives when the grace poll ends early, or when the sender force-drops? | 2 slots, 4 sends, all four strategies |
| `spsc_restarts` | Do the two sides find their way back after deaths at any step? | 3 slots; 4 one-slot sends with two restarts of the producer, 4 chunked sends with one, 3 sends with a restart of each side |
| `mpsc_shared` | Are reservations disjoint, messages taken once, and does every send return? | 2 producers, 2 slots, 2 or 3 sends; with chunks, a killed producer, timed waits, drops |
| `zero_copy` | Are held slots stable, and does the guard see every pin? | 3 slots, 4 or 5 messages, 2 leases, one abort, one killed consumer, a releasing thread |
| `region_init` | Does opening never wipe and never hand out half a region, and does everybody connect? | 3 processes, 3 slots, 2 openings and 2 messages each, all three calls, file and section |
| `dataflow` | Do threads, pipelines, expressions and the in-process ring do what they should? | 3 threads, 4 calls, a channel of 2 slots; expressions of 5 tokens, pipelines of 3 stages; a 3-slot ring with one spoiled frame |
| `spsc_drop_oldest_sends` | Does a DropOldest send always succeed? No. | 2 slots, one-slot messages |
| `spsc_drop_oldest_recvs` | Does its consumer see the newest message? No. | the same |
| `spsc_chunks_together` | Are all chunks visible once the first is? No. | 3 slots, 3 sends |
| `mpsc_reclaim_crosses` | Does a reclaim stay inside its window? No. | 3 slots, 2 sends, one killed |
| `spsc_handover` | Do numbers agree after a change of producers? No. | 2 slots, 2 sends |

Are the bounds enough? Every run takes its ring through more than one lap, with
a message that crosses the end of the ring where messages are chunked; both
cursor regimes (head ahead, tail ahead) occur. A death is possible at every
access of a call, and one death with one restart meets every state a second one
could start from, except that numbers restart twice, for which the first
scenario of `spsc_restarts` has two. Two producers are what one reservation
needs to collide with; `ReservationsDisjoint`, `WriterUndisturbed`, and the safety of
the single-producer ring and of region creation are proved without bounds
(below). Deeper instances of `mpsc_shared` (5 one-slot sends with drops or with
a killed producer, 4 chunked sends; up to 20 million states) were explored and
hold as well. `Calls`, `MaxText`, `MaxStages`, `MaxSends`, `Faults` and the `sends`,
`opens`, `leases`, `aborts`, `copens` of the scenarios are bounds of the
instances and no limits of the code. `FloorTries` is 32 in the code and 2 in `zero_copy`:
one exchange of a pin is lost at most there, so 2 and 3 tries explore the same
states and giving up is out of the instance's reach; the theorems hold for every
number of tries. `dataflow` uses the symmetry of
its threads, which no liveness property is checked under.

`CHECK_DEADLOCK FALSE` stands where the program stops: when the bound on calls
or sends is reached, and, in `zero_copy` and `region_init`, when every process is
dead or refused.

### Properties

* `spsc_healthy`, `spsc_racing`: `ClaimFindsFree`, `CursorsConsistent`,
  `CountedIsReadable`, `ReaderUndisturbed`, `RecvNeverFaults`, `ReceivedWasSent` are
  invariants, `SlotLifecycle` an action property, `BlockedSendEnds` and
  `AcceptedIsReceived` liveness. `FifoImplemented` is the refinement of
  `MessageFifo`: it maps a commit of a message's last slot to `Enqueue` and the tail
  advance past it to `Dequeue`; all other steps stutter. So a message is
  *accepted* at its last COMMITTED header, before the head cursor is stored.
* `spsc_restarts`: after any deaths, nothing is received twice, out of order or
  torn (`ReceivedInOrder`), what the guard admits is FREE (`ClaimFindsFree`), the
  inferred write position agrees with the cursors (`PositionRecovered`), a live
  writer's slot is left alone (`WriterUndisturbed`), and what was committed is
  received (`CommittedIsReceived`). The exemptions are in the formulas: an
  opening while the other side is in the middle of a call (`quiet`; the race of a
  reclaim with a slot stamped anew is explored in `mpsc_shared`), and, noted in
  `met` by the opening, a consumer that has read past the published head
  ("tailAhead"), a drained ring whose numbers start over ("drained") and a partly
  written message ("partial"); for `CommittedIsReceived` also a slot that names
  nobody.
* `mpsc_shared`: `ReservationsDisjoint`, `ReceivedOnceInOrder`, `CommittedKept`,
  `WriterUndisturbed`, `CommittedIsReceived`, `SendReturns`. Most are stated for
  channels that drop nothing and either use one-slot messages or lose no
  process; see below for what happens otherwise. There the consumer is the only one
  to reclaim. Two handles that reclaim the same reservation need DropOldest; a
  scenario has that with a killed producer, but of it is checked only that the
  cursors stay within a lap, that nothing is received twice and that sends return.
* `zero_copy`: `HeldSlotsStable` says that only the holder changes a slot under
  a view or a lease, whatever the floor says. `FloorIsLowestPin`, `ClaimFindsFree`,
  `ReceivedInOrder`, `AllIsReceived` are about the guard. Excepted are the
  situations in which the code's accounting does break: a lease fills slots the
  cursors do not count (`leases # {}`, "spent"), `reclaim_stale` counts pins
  and leases as leftovers ("overcounted"), and a release in another thread
  takes away the floor under a new pin (`threads`).
* `region_init`: `MessagesSurvive`, `ReadyIsInitialised`, `PositionRecovered`,
  `EveryoneConnects`.
* `dataflow`: `StarvedOnlyByGil` (a blocked send starves nobody, but for the
  calls that hold the GIL), `MessagesTransferred` (what is sent is still in its slot
  or was drained by one call, in order: sends and receives of different threads,
  each several steps long, never cross), `StagesCompose` (the pipelines, alone and on what
  the calls drained), `ExpressionsMeetGrammar`, `RingHoldsTheRest`.

### Fairness

Weak fairness of a process's own steps says that a call once begun keeps
running, which a live thread does; the receiver's fairness includes the call
itself: the application keeps calling `recv`. Nothing says that a sender's
application sends or that anybody closes, except in `zero_copy`, where the
application sends up to its bound. Deadlines are not fair in `SpscChannel`, so
`BlockedSendEnds` cannot rest on them. In `MpscChannel`, `DropExpires` is the
deadline of the wait for an in-flight reservation (a clock that runs whatever the
handle does): strong fairness, since the wait polls in between. In
`ZeroCopy`, `LeaseEnds` and `ReleaseStep` are strongly fair: the application
ends a lease and releases a view some time, though other steps may keep
switching these off. `RegionInit` asks that an open once begun goes on.

### What the violations show

* `DropOldestSucceeds`: `drop_oldest_message` refuses a tail slot that the
  receiver has just pinned or released (`lib.rs:4430`), so `send` returns
  `BufferEmpty`. `docs/README.md:65` promises that it "returns successfully".
  The multi-producer variant waits in the same place.
* `NewestIsReceived`: a drop moves the *sender's* expected sequence number
  (`lib.rs:4462`). A receiver in another handle still expects the dropped
  message, reports `SequenceMismatch` and leaves the slot PINNED, where every
  later `recv` finds it. `docs/README.md:67` presents gaps as something
  `recv_with_seq` lets a consumer detect. The repository's tests send and
  receive through one handle, where the two numbers are the same variable.
* `ChunksVisibleTogether`: the comment at `lib.rs:4378` says that later chunks
  are COMMITTED once chunk 0 is visible. They are not, for each is committed by
  its own header; the bounded poll is what saves a healthy run. This is why the
  FIFO properties need `GraceEnds = FALSE`.
* `ReservationsInWindow`: a dead writer's extent is as long as its message, also
  when the consumer has taken its first chunk. The reclaim then frees and passes
  a slot beyond it, which a live producer has reserved.
* `NumbersAgree`: a producer that opens a drained ring numbers from 0 again
  (`lib.rs:4003`); a consumer that stayed open refuses its first message.

### Seen while modelling, not runs of their own

* Multi-producer DropOldest. A drop moves the tail before it frees the slot
  (`lib.rs:4534`, 4542). If it pauses in between for a lap, the consumer finds
  the dropped message COMMITTED at its new tail, takes it, and moves the
  tail past a slot a live producer has still to write, which the next
  reservation may then share. Five one-slot sends on two slots reach this
  (scenario `LongDrops` of `MCMpscChannel`, with `ReservationsDisjoint` stated
  without `Lossless`). The comment at `lib.rs:3168` says two producers "can never
  over-commit the ring". `ChunkedDrops` does the same with a chunked message
  whose later chunks are still being written.
* Recovery of a single-producer ring. After an opening that found the ring
  drained, the consumer refuses the restarted numbers and leaves the refused
  slot PINNED (`lib.rs:3387`). The next opening counts pins only behind the
  head, so with one more leftover its guard admits a send into a full ring,
  against "so the send guard never over-commits a physically full ring"; the
  claim's FREE check then ends the send. Two slots, one-slot messages and
  two restarts reach this, which is why `ClaimFindsFree` exempts every noted opening.
* `refresh_cursors` in multi-producer mode may load a head and a tail that are
  more than a lap apart and report an inconsistent ring (`lib.rs:3855`).
* Region creation. `create` truncates a file others have mapped, against the
  SAFETY comment at `lib.rs:862`; touching the mapping before it is resized
  kills the process. `create` on a live section leaves the handle at position 0.
  A section that is too small to be mapped leaks its handle. A creator that dies
  before the magic leaves a file nobody can initialise again. The wait for
  the magic is by wall clock and may end although the creator is at work.
* Python. `send_to` holds the GIL and the handle while it waits for space, against
  the comment in `dsline-python/src/lib.rs:401` ("a blocking send must not hold
  the GIL"), and any other method on a handle whose send is blocked waits for
  the mutex with the GIL. A receiver in another thread then waits for the
  timeout. An exclusive borrow panics while another thread is inside `send`.
  `receive_from` and `collect` drain first, so what fails afterwards loses the
  drained messages.
* In-process ring. A chunk that does not decode wedges the ring: the first chunk
  advances the tail and leaves the rest, a later one is freed without a tail
  advance. The comment at `lib.rs:4816` means the tail to advance on a retry.
* Expressions. Column names are lowered, so a row's capitalised key is never
  found; a column named `inf`, `infinity` or `nan` is taken for a number (`Named`
  says where the tree so differs from the grammar's; `infinity` is left out, as
  another spelling of `inf`); `- - x` and keywords as columns are
  accepted beyond the grammar (`Beyond`).

## Proofs

All theorems hold for every value of the constants allowed by the modules'
assumptions.

`SpscProofs`:

* `Typing`: the type invariant, strengthened by "a message in hand has a number";
* `RingSafe`: the inductive invariant `RingInv`, as long as the strategy is not
  DropOldest;
* `SendFindsFree`, `CursorsAgree`, `ReaderAlone`, `SlotsCycle`: the run
  properties `ClaimFindsFree`, `CursorsConsistent`, `ReaderUndisturbed` and
  `SlotLifecycle`, from `RingInv`.

None of the four is inductive. `ClaimFindsFree` speaks of one slot at one
moment; to know that slot is free one must know that *every* slot from the next
one to be written up to a lap past the tail is free (`FreeInv`), that a send in
hand was granted its slots against a tail no newer than the real one
(`CursorInv`), and what the receiver may still write (`ReaderInv`).
`RingInv` is their conjunction. `RingArithmetic` carries the one non-linear
argument: positions of one window fall on different slots, and `tail + Cap`
falls on the slot of `tail`, which is how the slot the receiver releases
becomes the last free one of the next window.

The second part of `SpscProofs`, when no strategy is DropOldest and `GraceEnds` is
`FALSE`:

* `HealthySafe`: the inductive invariant `HealthyInv`, on top of `RingInv`;
* `GateSound`, `RecvSound`, `ReceivedSound`: the run properties
  `CountedIsReadable`, `RecvNeverFaults`, `ReceivedWasSent`;
* `FifoRefined`: `FifoImplemented`, every behaviour of the channel is a
  behaviour of `MessageFifo` under the mapping above.

`RingInv` says which slots are occupied, not what is in them. `HealthyInv` does:
the window from the tail to the next slot to be written holds consecutive
messages, each in consecutive chunks (`ChainInv`); it starts at the chunk the
receiver wants (`ReadEndInv`) and ends at the chunk the sender wrote last
(`WriteEndInv`), and when it is empty the two agree directly (`EmptyInv`). It
follows that every check the receiver makes on a copied frame passes (lemma
`Taken`). `ChainInv` also bounds how fast sequence numbers grow along the window,
which gives the queue its bound of `Cap` messages. Both hypotheses are needed:
the violations above are what happens without them. `GraceEnds = FALSE` enters
in one place, `GateFailsEarly`: a gate never gives up inside a message.

`MpscProofs`, for any number of producers:

* `TypeCorrect`: the type invariant;
* `NeverOvercommitted`: `ReservationsDisjoint`;
* `LiveWriterUndisturbed`: `WriterUndisturbed`.

Two reservations can meet on a slot only if they overlap or are a lap apart.
They never overlap, because each was granted by an exchange on the head it was
computed from (`Reserved`). They are never a lap apart, because the head is never
more than a lap ahead of the tail and the tail never passes a position a live
handle has still to write (`Window`). That last part is where the protocol could
fail: the tail moves past a slot the consumer saw COMMITTED, or one whose writer
it knew to be dead, and for either to be somebody's outstanding slot, the
header the consumer read would have to be older than the position it read it
for (`Quiet`, `Orderly`). With a drop or with a dead writer's chunks that is
possible, hence the hypotheses `Lossless` and `Calm`.

The second part of `MpscProofs`, on top of those invariants:

* `ReceivedOnce`: `ReceivedOnceInOrder`;
* `NothingLost`: `CommittedKept`.

Without drops the window between the cursors is a queue, though its slots are
written in any order. `Content` says what a position of the window stands for: as
long as a handle has still to commit its slot, the chunk that handle will write
there; afterwards the chunk stored in the slot. No step changes the content of a
position. A won exchange adds the chunks of a whole message at the head, numbered
above everything of its producer, and the receiver takes chunks off at the tail; so
the window is always a sequence of whole messages, each producer's in the order of
their numbers (`Line`). `Layout` says what the slots show of it, `Receiving` that
the receiver's copy is the content of the tail and its first chunk that of the
same message: every check recv makes on a frame passes (lemma `VerdictIsTake`), and
inside a message the poll cannot run out, because the next chunk is there or its
sender is at it (`NextChunkComes`). `Taken` and `Kept` relate the window to the
histories. A killed producer's positions keep their content until the reclaim
passes them; since they are never committed nothing sent is lost with them.

With drops the tail leaves the slots of a dropped message behind it, and positions
say nothing any more. What is left for one-slot messages is `Once`: a message is in
one slot, in the receiver's hands or with the application, and in one of them only,
but for the copy made before the slot is released; a handle writes a message
that is nowhere yet.

`RegionProofs`, for any number of processes, any capacities and modes, kills,
early timeouts, leftovers, a file or a section:

* `RegionTypeCorrect`: the type invariant;
* `SentMessagesSurvive`: `MessagesSurvive`;
* `HandlesHaveARegion`: `ReadyIsInitialised`;
* `ProducerFindsItsPlace`: `PositionRecovered`, where `OneProducer`: of the
  processes that open the region in single-producer mode at most one sends, which
  is what that mode is for. Several processes may open it, and any number send in
  multi-producer mode.

The invariant `IInv` follows the order of the code. Whoever is opening or using
the region keeps it there (`HeldInv`), so a store is made only when nobody is at
it, or truncated; until the creator has set the length nobody gets past the
size (`MapInv`); the words are written in their order (`WordsInv`); one process
at a time initialises, before the magic is there (`SoleInv`); messages exist only
under a magic (`SentInv`). `CreatorInv` is what makes the last two unconditional
where nobody calls `create` and the section's flag is right: among the
processes that believe themselves creators there is at most one, so two never
reach `CheckAgain` together.

The position (`PlacedInv`, as long as nothing was truncated or initialised twice)
is two facts. A producer in use moves its position and the head by the same
step of a send, and nobody else moves the head of a single-producer ring. A
producer that is opening either has not looked yet, and will take the head it
finds; or it found no magic and will begin at 0 (`Afresh`): then the head is still 0,
or the region has become one of the other mode, and the producer will be refused.

`ZeroCopyProofs`, for any capacity and scenario, threads of the consumer's
process releasing views or not, the consumer killed wherever the scenario says:

* `ZeroCopyTypeCorrect`: the type invariant;
* `HeldSlotsAreTheHolders`: `HeldSlotsStable`;
* `GuardFindsRoom`: `ClaimFindsFree`;
* `GuardSeesViews`: the first half of `FloorIsLowestPin`, no view below the floor,
  numbers spent or not;
* `ReceivedInTurn`: `ReceivedInOrder`, and `FloorExactly`: `FloorIsLowestPin`, both
  where `ReadsComplete`: the consumer is not killed from its PINNED header to the
  tail (`stamp` to `advance`; the scenarios of `zero_copy` kill it at `idle` and
  `gate`). The hypothesis is needed: such a kill leaves a slot that names nobody, or
  a FREE one at the tail, which the code does not repair, and TLC finds
  either property violated then.

What the producer holds is FREE, then WRITING; what the consumer holds is
COMMITTED, then PINNED (`LeaseInv`, `ViewInv`); and nothing is held twice: a
lease marks a slot it saw FREE, a view pins one by an exchange on COMMITTED. So
the state of the slot itself keeps each side off what the other holds. Neither the
pin floor nor the send guard enters the proof of `HeldSlotsStable`: they decide
whether a send may go on, not whether it is safe where it goes.

The others need to know where the cursors put the slots. `Top` is the cursor value
after the last reserved slot, leases and the slot being committed included; the
producer's index is its slot (`Placed`). A slot behind the consumer is FREE or
PINNED and one ahead of `Top` that was never used is FREE (`Behind`). `PinsSeen` says
of the pins behind the consumer that none is below the floor; it is kept by a
release because the floor the release found is below every pin that is left, and
nobody pins while one thread releases (`Unpinning`). So a thread by itself loses no
exchange on the floor (`Floored`), and gives up lowering it only where another
releases. A send that the guard admits
without leases is within a lap of the tail and of the floor it counts from, so its
slot is none of those pinned and none of those ahead: `GuardFindsRoom`. Cursor
values must stay below the value that stands for "no floor" (`NoneAssumption`, the
code's `u64::MAX`).

`Keeps` relates what waits between the cursors to the histories: the slots from
the oldest one not received up to `Top` are reserved, their sequence numbers grow
and stay below the next one to be given out, and `sent` is what has been received
followed by the written ones among them, by their numbers. A lease that is
published late puts its message at the place of its number (`Spliced`, about the
insertion into a sequence), an abort takes the last one away, a receive the first.
A cleanup frees only pins with an owner, and nothing that waits has one (`Owners`).

`Exact` gives the second half of `FloorIsLowestPin`. As long as no number is
spent the numbers are the cursor values, so the consumer never refuses what is at
the tail (`Expecting`) and never leaves a pin without a view behind (`Known`); then
the floor is the cursor of a view, of the release under way, or of the view being
made (`Marked`), and a scan finds a view or nothing.

`SpscRecoveryProofs`, for any capacity and scenario:

* `RecoveryTypeCorrect`: the type invariant. It needs that a recovery scan
  counts no slot twice and that no message has more chunks than the ring has slots;
* `RecoveryLeavesWritersAlone`: `WriterUndisturbed`;
* `RecoveryDeliversInOrder`: `ReceivedInOrder`, `RecoveredGuardFindsRoom`:
  `ClaimFindsFree`, and `RecoveredPositionAgrees`: `PositionRecovered`, all three
  where `SingleSlot`: messages take one slot, handles open beside a side that makes
  no call, and the consumer is not killed from its PINNED header to the tail
  (`release`, `advance`). The producer may be killed anywhere, also while it
  opens. The first and the last scenario of `spsc_restarts` are such.

The slot a live producer is at is WRITING, nameless until it is stamped and then
under the identity of that very incarnation (`WriterInv`); what the consumer is
about to free or to release was COMMITTED, or was left by an incarnation that is gone,
and is still so when it writes (`ReaderInv`). The second part fails when a
producer reopens between the consumer's look and its write, which is why the
theorem, like the property, speaks of handles that open beside a side that
makes no call.

For one-slot messages the ring is one line (`Line`): from the tail, or from one past
it while the consumer has released the slot and not yet moved on (`Front`), the
slots that are not FREE are consecutive. A send marks the slot after the last one;
a receive frees the first; a slot that names a dead writer can only be the last, since
every opening reclaims before it sends (`Names`), so whoever reclaims it shortens the line
at that end. The search for the write position walks to the end of the line.
Messages in it rise in the order they were begun and all are above what was
received (`InTurn`), which gives `ReceivedInOrder`; it holds whatever the sequence
numbers do. `Numbered` adds what the guard and the position need: the numbers in the
line follow one another, the number the consumer expects is that of the first,
the producer's next number is the one after the last, and the end of the line is
head plus bias. A recovery scan of a line of m slots counts m (`CoversSlots`,
`Occupies`) and finds the number after the last (`ScanNumber`), so an opening
re-establishes it, unless it found the ring drained while the consumer expects a
later number, or the tail past the head. From then on only `Line` and `InTurn`
are kept; a message can be refused for its number, and its slot stays at the
tail, PINNED, with nobody ever writing it (`Stuck`). The kill between the PINNED
header and the tail is left out because it breaks the line itself: it leaves a pin
that names nobody, or a FREE slot at the tail.

`PyThreadsProofs`, for any number of threads and calls, any capacity, and whatever
the pipeline makes of the messages:

* `OnlyTheGilStarves`: `StarvedOnlyByGil`;
* `EveryMessageHasOneTaker`: `MessagesTransferred`.

They are theorems of `ThreadsSpec`; `PyPrograms` adds steps before the channel
is opened that leave the threads alone, and its `Thread` steps are those of
`PyThreads`, so they hold of its behaviours as well.

The first needs who holds what (`GInv`). A mutex is held by the one call at work
on its handle (`MutexInv`), the GIL by a call that waits or works, unless that is a
`send` (`GilInv`); a bulk call takes the mutex without waiting for it, which is safe
because whoever works on a handle while the GIL is free is inside `send`, and then
the borrow fails (`FreeUnlessBorrowed`). If nobody can move, a receiver waits for
the GIL or has it, so a call with the GIL is waiting for a mutex, and the only call
at work that cannot move is a sender, on `tx`. The second rests
on the same facts: two threads are never at work on sending, or on receiving, at
once (`OneAtATime`), because two sends need the mutex of `tx`, two receives on one handle its mutex, and two `collect`s, each on a handle of its
own, the GIL. So what a thread found stays as it found it until it uses it: the head
and the room, or the tail and the message (`FoundInv`). Then the slots from tail to
head hold what was sent, each position its own (`QueueInv`); every position before
the tail is in what exactly one call drained, returned or still draining
(`DrainedInv`), and only a call that drains has anything in hand (`DrainingInv`). If
`collect` let go of the GIL while it drains, TLC finds two that take the same message.

`FrameRingProofs`, for any capacity, slot size, length of a chunk's metadata,
lengths of messages, width of the sequence numbers and number of faults:

* `RingKeepsItsPromise`: `RingHoldsTheRest`.

It is a theorem of `RingSpec`; in `dataflow` the ring shares no variable with the
other components, so the ring's part of each of its behaviours is one of
`RingSpec`. Slots and numbers must be at least one and lengths natural numbers
(`RingAssumption`); the chunk arithmetic, with a slot size below, at or above the
metadata, follows from that.

A call is a loop over slots, so the proof first says of a loop that the recursive
function it is written as has its values (`LoopRuns`) and that what its start
establishes and every step keeps holds at its end (`LoopKeeps`, by the least
counterexample). It then goes through the loops of the calls with a
description of the ring in the middle of one: `Linked` says that the slots from the
tail are COMMITTED and hold consecutive chunks from one place (message, chunk) to
another, each the frame `Frames` gives for its place up to what the storage spoiled, and
that every other slot is free. Writing the chunks of a message moves the far end
chunk by chunk (`RestArrives` for reassembly, the near end), and to drop a message
moves the near end by as many slots as its first chunk says, which is why a sound
header suffices for it.

`RingInv` is the inductive invariant. Its first part, `Sound`, is that a chunk of a
longer message was spoiled at some time (`Spoilt`, which no later call takes
back), or the window is `Linked` from message `Len(gone) + 1` to
`Len(accepted) + 1`, with the counters those of these two (`Kept`). That the
exception is in the invariant and not only in the property matters: after such a
fault nothing is left to be said of the window. The second part is about the
prototype, as long as every message fits a slot and every header is sound
(`Plain`, and what is plain after a step was plain before it): its queue has an
item for each slot in use, with the number and the fault of that slot's message
(`Twins`). Then both rings are full, and both empty, at the same time
(`SameLength`); DropOldest, which loops in the one and drops once in the other,
drops just one message (`DropsJustOne`); and a spoiled payload is reported by the
same call in both.

Only model-checked: liveness and fairness (`BlockedSendEnds`, `AcceptedIsReceived`,
both `CommittedIsReceived`, `SendReturns`, `AllIsReceived`, `EveryoneConnects`), which
are out of the prover's reach; what `spsc_restarts` says of chunked messages and of
cursors (`ReceivedInOrder`, `ClaimFindsFree`, `PositionRecovered`): in instances larger
than the run's these three hold as long as the consumer lives, and TLC finds them
violated where it is killed in the middle of a chunked message; `StagesCompose` and
`ExpressionsMeetGrammar` of `dataflow`, about recursive operators.

## Not modelled

* URLs (`dsline-transport`): a string is parsed into a configuration once.
* The plain file store (`FileSlotStorage`, `lib.rs:550-780`): no code path opens a
  channel on it. Its `compare_exchange_u64` is the non-atomic default of the trait
  (`lib.rs:491`), meant for one process, and its `validate_range` leaves out the
  region header (`lib.rs:639`).
* Bytes of a frame and the checksum: a spoiled frame is one that does not
  decode or whose checksum fails.
* Page sizes of sections, paths and names of regions (a channel's file is
  named by a 32-bit checksum of its name), permissions, flushing to disk.
* Reading the process table (`process.rs`): a process is alive or gone; "unknown"
  is treated by the code as alive, which the models cover by not killing.
* Views and buffers of the Python binding, conversion of arguments, names and
  timeouts of its constructors.
* Sharded fan-out: each call goes to one of several independent channels; a
  broadcast that fails on one shard has reached the earlier ones.
* Command line and benchmarks.
