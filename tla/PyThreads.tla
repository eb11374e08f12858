------------------------------ MODULE PyThreads ------------------------------
(***************************************************************************)
(* Threads of one Python program that share a channel.                     *)
(*                                                                         *)
(* The threads send and receive, one message at a time or through the      *)
(* program's pipeline.  A call needs the GIL to begin and to return.  Every*)
(* method of ShmChannel takes the mutex of its handle; send alone releases *)
(* the GIL first and waits without it, while send_to and receive_from      *)
(* borrow the handle exclusively, hold the GIL from beginning to end, and  *)
(* panic where another thread is inside send on the handle.  collect of a  *)
(* pipeline from_transport opens a handle of its own, whose mutex keeps    *)
(* nobody out.                                                             *)
(*                                                                         *)
(* The ring is for one producer and one consumer, and does not defend      *)
(* itself: a send finds a slot and writes it later, a receive finds a      *)
(* message and takes it later, and of two that cross one is lost.  That    *)
(* they do not cross is for GIL, mutexes and borrows to see to.  What else *)
(* happens in the ring is SpscChannel's business; here a message fills a   *)
(* slot.  What the pipeline makes of messages is that of Pipelines, and    *)
(* here any function of them.                                              *)
(***************************************************************************)
EXTENDS Integers, Sequences, FiniteSets

CONSTANTS
  Threads,    \* the threads
  Cap,        \* capacity of the channel
  Calls,      \* calls the threads make between them (bound)
  Messages,   \* what send is called with: numbers and texts, as objects
  Sources,    \* what send_to is called with
  Programs,   \* the pipelines the threads are run with (bound)
  Outgoing(_, _), \* what a pipeline makes of a source, as the texts to be sent
  Incoming(_, _)  \* what it makes of a sequence of received messages

VARIABLES
  program, \* the pipeline, once the channel is open
  via,     \* how messages are received, once the channel is open
  gil,     \* who holds it
  lock,    \* handle -> who holds its mutex
  closed,  \* handle -> closed
  call,    \* thread -> the call it is in
  left,    \* calls still to be made
  slot,    \* the ring: position in sent of what was last written to a slot
  head,    \* where the next message goes
  tail,    \* where the next one to be received is
  cursor,  \* thread -> <<the position it found and has still to write or take>>
  sent,    \* every message written to the ring
  calls    \* every receive that returned: what it drained and what came of it

setup == <<program, via>>
region == <<slot, head, tail, cursor, sent>>
threadVars == <<setup, gil, lock, closed, call, left, region, calls>>

Handles == {"tx", "rx"}
\* The handle that one call of collect opens and drops.
Own == "own"
Nobody == "nobody"
Unopened == "unopened"
Idle == [op |-> "none", pc |-> "idle", on |-> "tx", todo |-> <<>>, got |-> <<>>]

ASSUME ThreadsAssumption == Nobody \notin Threads /\ Calls \in Nat /\ Cap \in Nat \ {0}

ThreadsInit ==
  /\ program = <<>> /\ via = Unopened
  /\ gil = Nobody /\ lock = [h \in Handles |-> Nobody] /\ closed = [h \in Handles |-> FALSE]
  /\ call = [t \in Threads |-> Idle] /\ left = Calls
  /\ slot = [i \in 0 .. Cap - 1 |-> 0] /\ head = 0 /\ tail = 0
  /\ cursor = [t \in Threads |-> <<>>] /\ sent = <<>> /\ calls = <<>>

-----------------------------------------------------------------------------
(* Calls *)

\* ShmChannel.new, with Block backpressure: sends go through tx, and one handle
\* receives, the same one, another on the same name, or that of a pipeline
\* from_transport, which opens its own for each collect.
Open ==
  /\ via = Unopened
  /\ program' \in Programs /\ via' \in Handles \cup {"url"}
  /\ UNCHANGED <<gil, lock, closed, call, left, region, calls>>

\* Mutant: send waits with the GIL.
KeepsGil(op) == TRUE
\* Mutant: collect drains without it.
DrainsWithoutGil(op) == op \notin {"send", "collect"}
\* allow_threads is used by send only.
HoldsGil(op) == op # "send"

Receives(t) == call[t].op \in {"recv", "receive_from", "collect"}
Sends(t) == call[t].op \in {"send", "send_to"}
Handle(t) == call[t].on
Full == head - tail >= Cap
\* A borrow of the handle that lasts while the GIL is free.
Borrowed(h) ==
  \E u \in Threads : call[u].op = "send" /\ call[u].on = h /\ call[u].pc \in {"lock", "work", "return"}

\* The Python code decides on its next call.
Choose(t) ==
  /\ via # Unopened
  /\ call[t].pc = "idle" /\ left > 0
  /\ left' = left - 1
  /\ LET Make(op, h, todo) ==
           call' = [call EXCEPT ![t] = [Idle EXCEPT !.op = op, !.pc = "want", !.on = h, !.todo = todo]]
     IN \/ \E m \in Messages : Make("send", "tx", <<m>>)
        \/ \E s \in Sources : Make("send_to", "tx", s)
        \/ via # "url" /\ \E op \in {"recv", "receive_from"} : Make(op, via, <<>>)
        \/ via = "url" /\ Make("collect", Own, <<>>)
        \/ \E op \in {"observe", "close"} : Make(op, "tx", <<>>)
  /\ UNCHANGED <<setup, gil, lock, closed, region, calls>>

Bulk == {"send_to", "receive_from", "collect"}
\* send_to runs the pipeline before it borrows the handle; borrow_mut panics
\* on a borrowed one.
Begin(t) ==
  /\ call[t].pc = "want" /\ gil = Nobody
  /\ LET op == call[t].op
         results == Outgoing(program, call[t].todo)
     IN \/ /\ op \notin Bulk
           /\ call' = [call EXCEPT ![t].pc = "lock"]
           /\ gil' = IF HoldsGil(op) THEN t ELSE Nobody
           /\ UNCHANGED lock
        \/ /\ op \in Bulk
           /\ (op = "send_to" /\ ~results.ok) \/ Borrowed(Handle(t))
           /\ call' = [call EXCEPT ![t] = Idle]
           /\ UNCHANGED <<gil, lock>>
        \/ /\ op \in Bulk
           /\ ~(op = "send_to" /\ ~results.ok) /\ ~Borrowed(Handle(t))
           /\ call' = [call EXCEPT ![t].pc = "work", ![t].todo = IF op = "send_to" THEN results.out ELSE <<>>]
           /\ gil' = IF HoldsGil(op) THEN t ELSE Nobody
           /\ lock' = [h \in Handles |-> IF h = Handle(t) THEN t ELSE lock[h]]
  /\ UNCHANGED <<setup, closed, left, region, calls>>

\* The call is over; send still has to take the GIL back.
Leave(t) ==
  /\ call' = [call EXCEPT ![t] = IF HoldsGil(@.op) THEN Idle ELSE [@ EXCEPT !.pc = "return", !.todo = <<>>]]
  /\ gil' = IF HoldsGil(call[t].op) THEN Nobody ELSE gil
  /\ lock' = [h \in Handles |-> IF lock[h] = t THEN Nobody ELSE lock[h]]

\* Under the mutex: send and recv, try_recv, recv_with_seq go to the ring,
\* close closes, the getters read.
Lock(t) ==
  /\ call[t].pc = "lock" /\ lock[Handle(t)] = Nobody
  /\ \/ /\ call[t].op \in {"send", "recv"}
        /\ call' = [call EXCEPT ![t].pc = "work"] /\ lock' = [lock EXCEPT ![Handle(t)] = t]
        /\ UNCHANGED <<gil, closed>>
     \/ /\ call[t].op = "observe" /\ Leave(t)
        /\ UNCHANGED closed
     \/ /\ call[t].op = "close" /\ Leave(t)
        /\ closed' = [closed EXCEPT ![Handle(t)] = TRUE]
  /\ UNCHANGED <<setup, left, region, calls>>

-----------------------------------------------------------------------------
(* Sending *)

HasCursor(t) == cursor[t] # <<>>

\* The cursors are read, and there is room for the next message.
Claim(t) ==
  /\ call[t].pc = "work" /\ ~HasCursor(t) /\ Sends(t) /\ call[t].todo # <<>>
  /\ ~closed[Handle(t)] /\ ~Full
  /\ cursor' = [cursor EXCEPT ![t] = <<head>>]
  /\ UNCHANGED <<setup, gil, lock, closed, call, left, slot, head, tail, sent, calls>>

\* It is written and published.
Push(t) ==
  /\ call[t].pc = "work" /\ HasCursor(t) /\ Sends(t)
  /\ sent' = Append(sent, Head(call[t].todo))
  /\ slot' = [slot EXCEPT ![cursor[t][1] % Cap] = Len(sent) + 1]
  /\ head' = cursor[t][1] + 1 /\ cursor' = [cursor EXCEPT ![t] = <<>>]
  /\ IF Len(call[t].todo) = 1 THEN Leave(t)
     ELSE call' = [call EXCEPT ![t].todo = Tail(@)] /\ UNCHANGED <<gil, lock>>
  /\ UNCHANGED <<setup, closed, left, tail, calls>>

\* Steps a thread makes without anybody's decision.
CanStep(u) ==
  CASE call[u].pc \in {"want", "return"} -> gil = Nobody
    [] call[u].pc = "lock" -> lock[Handle(u)] = Nobody
    [] call[u].pc = "work" -> ~(Sends(u) /\ ~HasCursor(u) /\ call[u].todo # <<>> /\ ~closed[Handle(u)] /\ Full)
    [] OTHER -> FALSE
Stuck(t) ==
  /\ call[t].pc = "work" /\ ~CanStep(t)
  /\ \A u \in Threads \ {t} : ~CanStep(u)

\* Nothing to send; a closed handle; a ring that stays full for the timeout of
\* Block (which without one does not wait).
NotSent(t) ==
  /\ call[t].pc = "work" /\ ~HasCursor(t) /\ Sends(t)
  /\ call[t].todo = <<>> \/ closed[Handle(t)] \/ Full
  /\ Leave(t)
  /\ UNCHANGED <<setup, closed, left, region, calls>>

-----------------------------------------------------------------------------
(* Receiving *)

\* recv, try_recv and recv_with_seq take one message, the others all there are.
Wants(t) == call[t].op = "recv" => call[t].got = <<>>

\* The message at the tail is there.
Look(t) ==
  /\ call[t].pc = "work" /\ ~HasCursor(t) /\ Receives(t) /\ Wants(t) /\ tail < head
  /\ cursor' = [cursor EXCEPT ![t] = <<tail>>]
  /\ UNCHANGED <<setup, gil, lock, closed, call, left, slot, head, tail, sent, calls>>

\* It is copied and its slot released.
Take(t) ==
  /\ call[t].pc = "work" /\ HasCursor(t) /\ Receives(t)
  /\ call' = [call EXCEPT ![t].got = Append(call[t].got, slot[cursor[t][1] % Cap])]
  /\ tail' = cursor[t][1] + 1 /\ cursor' = [cursor EXCEPT ![t] = <<>>]
  /\ UNCHANGED <<setup, gil, lock, closed, left, slot, head, sent, calls>>

\* recv has its message or fails; the others drain until recv fails, then run
\* the pipeline: what it cannot take raises, and everything drained is gone.
Finish(t) ==
  /\ call[t].pc = "work" /\ ~HasCursor(t) /\ Receives(t)
  /\ Wants(t) => tail = head
  /\ LET got == call[t].got
         messages == [i \in DOMAIN got |-> sent[got[i]]]
     IN calls' = Append(calls, [op |-> call[t].op, got |-> got,
                                came |-> IF call[t].op = "recv" THEN [ok |-> got # <<>>, out |-> messages]
                                         ELSE Incoming(program, messages)])
  /\ Leave(t)
  /\ UNCHANGED <<setup, closed, left, region>>

Return(t) ==
  /\ call[t].pc = "return" /\ gil = Nobody
  /\ call' = [call EXCEPT ![t] = Idle]
  /\ UNCHANGED <<setup, gil, lock, closed, left, region, calls>>

Thread(t) ==
  Choose(t) \/ Begin(t) \/ Lock(t) \/ Claim(t) \/ Push(t) \/ NotSent(t)
  \/ Look(t) \/ Take(t) \/ Finish(t) \/ Return(t)

ThreadsNext == Open \/ \E t \in Threads : Thread(t)
ThreadsSpec == ThreadsInit /\ [][ThreadsNext]_threadVars

-----------------------------------------------------------------------------
(* Properties *)

\* A send that waits with nobody able to move, while another thread is to
\* receive, is a send_to with the GIL or has a thread behind it that waits for
\* the handle's mutex and holds the GIL: send itself starves no receiver
\* (ShmChannel::send releases the GIL for that).
StarvedOnlyByGil ==
  \A t \in Threads :
    Stuck(t) /\ (\E u \in Threads : Receives(u)) =>
      \/ call[t].op = "send_to"
      \/ gil # Nobody /\ call[gil].pc = "lock" /\ Handle(gil) = Handle(t)

\* Every message sent is received once, in the order sent, or is still in its
\* slot, whichever calls of whichever threads send and drain, on whichever
\* handles, and however they end: no send writes over another's message and no
\* two receives take the same one.  (The mutex keeps apart sends, which run
\* without the GIL, and nothing but the GIL two collects: lock_channel,
\* allow_threads, _drain_transport_source.)
Took(got, i) == \E k \in DOMAIN got : got[k] = i
InOrder(got) == \A k \in DOMAIN got : got[k] \in 1 .. tail /\ (k > 1 => got[k] > got[k - 1])
\* The calls, returned or not, that drained the message at position i.
Takers(i) ==
  {<<"returned", c>> : c \in {d \in DOMAIN calls : Took(calls[d].got, i)}}
  \cup {<<"draining", t>> : t \in {u \in Threads : Took(call[u].got, i)}}
MessagesTransferred ==
  /\ head = Len(sent)
  /\ \A p \in tail .. head - 1 : slot[p % Cap] = p + 1
  /\ \A c \in DOMAIN calls : InOrder(calls[c].got)
  /\ \A t \in Threads : InOrder(call[t].got)
  /\ \A i \in 1 .. tail : \E taker \in Takers(i) : Takers(i) = {taker}
=============================================================================
