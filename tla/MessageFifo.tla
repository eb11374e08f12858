---------------------------- MODULE MessageFifo ----------------------------
(***************************************************************************)
(* What every dsline channel promises whoever uses it: a message enters    *)
(* the queue once, in the order the sends complete, the queue never holds  *)
(* more than Depth messages, and a receive takes the oldest one.           *)
(*                                                                         *)
(* The rings of the repository are shown to implement this module through  *)
(* INSTANCE MessageFifo WITH a mapping of their slots and cursors.         *)
(***************************************************************************)
EXTENDS Naturals, Sequences

CONSTANTS
  Messages,  \* the messages that may be sent
  Depth      \* the most messages the channel holds at once

VARIABLES
  queue,     \* accepted and not yet received, oldest first
  delivered  \* received, in the order they were received

vars == <<queue, delivered>>

Init ==
  /\ queue = <<>>
  /\ delivered = <<>>

Enqueue(m) ==
  /\ Len(queue) < Depth
  /\ queue' = Append(queue, m)
  /\ UNCHANGED delivered

Dequeue ==
  /\ queue # <<>>
  /\ delivered' = Append(delivered, Head(queue))
  /\ queue' = Tail(queue)

Next == Dequeue \/ \E m \in Messages : Enqueue(m)

Spec == Init /\ [][Next]_vars

\* The same promise with progress: what was accepted is received in the end.
LiveSpec == Spec /\ WF_vars(Dequeue)
============================================================================
