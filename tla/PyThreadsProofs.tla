--------------------------- MODULE PyThreadsProofs ---------------------------
(***************************************************************************)
(* Proofs about PyThreads for any number of threads and calls, any         *)
(* capacity, and whatever the pipeline makes of the messages: only a call  *)
(* that holds the GIL can starve a receiver; GIL, mutexes and borrows let  *)
(* one thread at a time send and one receive, so every message sent is     *)
(* drained by one call.                                                    *)
(***************************************************************************)
EXTENDS PyThreads, RingArithmetic, SequenceTheorems, TLAPS

Ops == {"none", "send", "send_to", "recv", "receive_from", "collect", "observe", "close"}
Places == {"idle", "want", "lock", "work", "return"}
Ends == Handles \cup {Own}
CallSet(T) == [op : Ops, pc : Places, on : Ends, todo : T, got : T]

\* What a call has still to send and has received is any value.
Typed ==
  /\ \E T : call \in [Threads -> CallSet(T)]
  /\ lock \in [Handles -> Threads \cup {Nobody}] /\ gil \in Threads \cup {Nobody}
  /\ via \in Handles \cup {"url", Unopened}

\* Where a call can be, and on what: each is somewhere its method takes it, and
\* those that receive do it all on one handle, or each on its own.
Placed(op, pc, on) ==
  /\ op \in Ops /\ pc \in Places /\ on \in Ends
  /\ op = "none" <=> pc = "idle"
  /\ op # "none" => via # Unopened
  /\ pc = "lock" => op \in {"send", "recv", "observe", "close"}
  /\ pc = "work" => op \in Bulk \cup {"send", "recv"}
  /\ pc = "return" => op = "send"
  /\ op \in {"send", "send_to"} => on = "tx"
  /\ op \in {"recv", "receive_from"} => on = via
  /\ on = Own <=> op = "collect"
  /\ op = "collect" => via = "url"
PlaceInv == \A t \in Threads : Placed(call[t].op, call[t].pc, call[t].on)

\* Who works on a handle has its mutex, and who has it works on the handle.
MutexInv ==
  \A t \in Threads : \A h \in Handles : lock[h] = t <=> call[t].pc = "work" /\ call[t].on = h

\* The GIL is with the call that waits or works, unless that is a send.
GilInv ==
  \A t \in Threads : gil = t <=> HoldsGil(call[t].op) /\ call[t].pc \in {"lock", "work"}

GInv == Typed /\ PlaceInv /\ MutexInv /\ GilInv

LEMMA GInvInit == ThreadsInit => GInv
<1> SUFFICES ASSUME ThreadsInit PROVE GInv
  OBVIOUS
<1>1. call \in [Threads -> CallSet({<<>>})]
  <2>1. Idle \in CallSet({<<>>})
    BY DEF Idle, CallSet, Ops, Places, Ends, Handles
  <2> QED BY <2>1 DEF ThreadsInit
<1>2. \A t \in Threads : call[t].pc = "idle" /\ call[t].op = "none" /\ call[t].on = "tx"
  BY DEF ThreadsInit, Idle
<1>3. Typed
  BY <1>1 DEF Typed, ThreadsInit
<1>4. PlaceInv /\ GilInv
  BY <1>2, ThreadsAssumption
  DEF PlaceInv, Placed, Ops, Places, Ends, Handles, Own, Bulk, GilInv, ThreadsInit
<1>5. MutexInv
  BY <1>2, ThreadsAssumption DEF MutexInv, ThreadsInit
<1> QED BY <1>3, <1>4, <1>5 DEF GInv


\* The call of t becomes r, and everything else about the calls stays.
Becomes(t, r) == call' = [call EXCEPT ![t] = r]

LEMMA BecomesOf ==
  ASSUME Typed, NEW t \in Threads, NEW r, Becomes(t, r)
  PROVE  call'[t] = r /\ \A u \in Threads : u # t => call'[u] = call[u]
BY DEF Typed, Becomes

LEMMA TypedBecomes ==
  ASSUME Typed, NEW t \in Threads, NEW r, Becomes(t, r),
         r.op \in Ops, r.pc \in Places, r.on \in Ends,
         r = [op |-> r.op, pc |-> r.pc, on |-> r.on, todo |-> r.todo, got |-> r.got]
  PROVE  \E T : call' \in [Threads -> CallSet(T)]
<1>1. PICK T : call \in [Threads -> CallSet(T)]
  BY DEF Typed
<1> DEFINE U == T \cup {r.todo, r.got}
<1>2. \A u \in Threads : call[u] \in CallSet(U)
  BY <1>1 DEF CallSet
<1>3. r \in CallSet(U)
  BY DEF CallSet
<1>4. call' \in [Threads -> CallSet(U)]
  BY <1>1, <1>2, <1>3 DEF Becomes
<1> QED BY <1>4

\* A call is what its five fields are.
CallFields == {"op", "pc", "on", "todo", "got"}
IsCall(c) == c = [f \in CallFields |-> c[f]]

LEMMA SameCall ==
  ASSUME NEW a, NEW b, IsCall(a), IsCall(b),
         a.op = b.op, a.pc = b.pc, a.on = b.on, a.todo = b.todo, a.got = b.got
  PROVE  a = b
<1>1. \A f \in CallFields : a[f] = b[f]
  BY DEF CallFields
<1> QED BY <1>1 DEF IsCall

LEMMA MadeCall ==
  ASSUME NEW op, NEW pc, NEW on, NEW todo, NEW got
  PROVE  IsCall([op |-> op, pc |-> pc, on |-> on, todo |-> todo, got |-> got])
BY DEF IsCall, CallFields

\* A call with one or two of its fields replaced.
LEMMA Altered ==
  ASSUME NEW c, NEW p, NEW s, NEW g, IsCall(c)
  PROVE  /\ [c EXCEPT !.pc = p, !.todo = s]
              = [op |-> c.op, pc |-> p, on |-> c.on, todo |-> s, got |-> c.got]
         /\ [c EXCEPT !.pc = p]
              = [op |-> c.op, pc |-> p, on |-> c.on, todo |-> c.todo, got |-> c.got]
         /\ [c EXCEPT !.todo = s]
              = [op |-> c.op, pc |-> c.pc, on |-> c.on, todo |-> s, got |-> c.got]
         /\ [c EXCEPT !.got = g]
              = [op |-> c.op, pc |-> c.pc, on |-> c.on, todo |-> c.todo, got |-> g]
<1>0. c = [f \in CallFields |-> c[f]]
  BY DEF IsCall
<1>1. [c EXCEPT !.pc = p, !.todo = s] = [op |-> c.op, pc |-> p, on |-> c.on, todo |-> s, got |-> c.got]
  <2> DEFINE d == [c EXCEPT !.pc = p, !.todo = s]
             r == [op |-> c.op, pc |-> p, on |-> c.on, todo |-> s, got |-> c.got]
  <2>1. d.op = r.op /\ d.pc = r.pc /\ d.on = r.on /\ d.todo = r.todo /\ d.got = r.got
    BY <1>0 DEF CallFields
  <2>2. IsCall(d)
    BY <1>0 DEF CallFields, IsCall
  <2>3. IsCall(r)
    BY MadeCall
  <2> HIDE DEF d, r
  <2>4. d = r
    BY ONLY <2>1, <2>2, <2>3, SameCall
  <2> QED BY ONLY <2>4 DEF d, r
<1>2. [c EXCEPT !.pc = p] = [op |-> c.op, pc |-> p, on |-> c.on, todo |-> c.todo, got |-> c.got]
  <2> DEFINE d == [c EXCEPT !.pc = p]
             r == [op |-> c.op, pc |-> p, on |-> c.on, todo |-> c.todo, got |-> c.got]
  <2>1. d.op = r.op /\ d.pc = r.pc /\ d.on = r.on /\ d.todo = r.todo /\ d.got = r.got
    BY <1>0 DEF CallFields
  <2>2. IsCall(d)
    BY <1>0 DEF CallFields, IsCall
  <2>3. IsCall(r)
    BY MadeCall
  <2> HIDE DEF d, r
  <2>4. d = r
    BY ONLY <2>1, <2>2, <2>3, SameCall
  <2> QED BY ONLY <2>4 DEF d, r
<1>3. [c EXCEPT !.todo = s] = [op |-> c.op, pc |-> c.pc, on |-> c.on, todo |-> s, got |-> c.got]
  <2> DEFINE d == [c EXCEPT !.todo = s]
             r == [op |-> c.op, pc |-> c.pc, on |-> c.on, todo |-> s, got |-> c.got]
  <2>1. d.op = r.op /\ d.pc = r.pc /\ d.on = r.on /\ d.todo = r.todo /\ d.got = r.got
    BY <1>0 DEF CallFields
  <2>2. IsCall(d)
    BY <1>0 DEF CallFields, IsCall
  <2>3. IsCall(r)
    BY MadeCall
  <2> HIDE DEF d, r
  <2>4. d = r
    BY ONLY <2>1, <2>2, <2>3, SameCall
  <2> QED BY ONLY <2>4 DEF d, r
<1>4. [c EXCEPT !.got = g] = [op |-> c.op, pc |-> c.pc, on |-> c.on, todo |-> c.todo, got |-> g]
  <2> DEFINE d == [c EXCEPT !.got = g]
             r == [op |-> c.op, pc |-> c.pc, on |-> c.on, todo |-> c.todo, got |-> g]
  <2>1. d.op = r.op /\ d.pc = r.pc /\ d.on = r.on /\ d.todo = r.todo /\ d.got = r.got
    BY <1>0 DEF CallFields
  <2>2. IsCall(d)
    BY <1>0 DEF CallFields, IsCall
  <2>3. IsCall(r)
    BY MadeCall
  <2> HIDE DEF d, r
  <2>4. d = r
    BY ONLY <2>1, <2>2, <2>3, SameCall
  <2> QED BY ONLY <2>4 DEF d, r
<1> QED BY <1>1, <1>2, <1>3, <1>4

\* The fields of a call.
LEMMA Fields ==
  ASSUME Typed, NEW t \in Threads
  PROVE  /\ call[t].op \in Ops /\ call[t].pc \in Places /\ call[t].on \in Ends
         /\ IsCall(call[t])
BY DEF Typed, CallSet, IsCall, CallFields

\* What a step makes of the call of the thread that takes it.
Called(t, op, pc, on, todo, got) ==
  Becomes(t, [op |-> op, pc |-> pc, on |-> on, todo |-> todo, got |-> got])

LEMMA ChooseOf ==
  ASSUME Typed, NEW t \in Threads, Choose(t)
  PROVE  /\ call[t].pc = "idle" /\ UNCHANGED <<gil, lock, via, region, calls>>
         /\ \E op \in Ops, on \in Ends : \E todo :
              Called(t, op, "want", on, todo, <<>>) /\ Placed(op, "want", on)
<1> DEFINE Make(op, h, todo) ==
             call' = [call EXCEPT ![t] = [Idle EXCEPT !.op = op, !.pc = "want", !.on = h, !.todo = todo]]
<1>1. \A op, h, todo : Make(op, h, todo) => Called(t, op, "want", h, todo, <<>>)
  BY DEF Called, Becomes, Idle
<1>2. \/ \E m \in Messages : Make("send", "tx", <<m>>)
      \/ \E s \in Sources : Make("send_to", "tx", s)
      \/ via # "url" /\ \E op \in {"recv", "receive_from"} : Make(op, via, <<>>)
      \/ via = "url" /\ Make("collect", Own, <<>>)
      \/ \E op \in {"observe", "close"} : Make(op, "tx", <<>>)
  BY DEF Choose
<1>3. via # Unopened /\ call[t].pc = "idle" /\ UNCHANGED <<gil, lock, via, region, calls>>
  BY DEF Choose, setup
<1>4. via # "url" => via \in Handles
  BY <1>3 DEF Typed
<1> HIDE DEF Make
<1>5. \E op \in Ops, on \in Ends : \E todo : Make(op, on, todo) /\ Placed(op, "want", on)
  <2>1. CASE \E m \in Messages : Make("send", "tx", <<m>>)
    BY <1>3, <2>1 DEF Placed, Ops, Places, Ends, Handles, Own
  <2>2. CASE \E s \in Sources : Make("send_to", "tx", s)
    BY <1>3, <2>2 DEF Placed, Ops, Places, Ends, Handles, Own
  <2>3. CASE via # "url" /\ \E op \in {"recv", "receive_from"} : Make(op, via, <<>>)
    BY <1>3, <1>4, <2>3 DEF Placed, Ops, Places, Ends, Handles, Own
  <2>4. CASE via = "url" /\ Make("collect", Own, <<>>)
    BY <1>3, <2>4 DEF Placed, Ops, Places, Ends, Handles, Own
  <2>5. CASE \E op \in {"observe", "close"} : Make(op, "tx", <<>>)
    BY <1>3, <2>5 DEF Placed, Ops, Places, Ends, Handles, Own
  <2> QED BY <1>2, <2>1, <2>2, <2>3, <2>4, <2>5
<1> QED BY <1>1, <1>3, <1>5

LEMMA LeaveOf ==
  ASSUME Typed, NEW t \in Threads, Leave(t)
  PROVE  /\ HoldsGil(call[t].op) => Called(t, "none", "idle", "tx", <<>>, <<>>) /\ gil' = Nobody
         /\ ~HoldsGil(call[t].op) =>
              Called(t, call[t].op, "return", call[t].on, <<>>, call[t].got) /\ gil' = gil
         /\ lock' = [h \in Handles |-> IF lock[h] = t THEN Nobody ELSE lock[h]]
<1> DEFINE r == IF HoldsGil(call[t].op) THEN Idle ELSE [call[t] EXCEPT !.pc = "return", !.todo = <<>>]
<1>1. call' = [call EXCEPT ![t] = r]
  BY Fields DEF Leave
<1>2. CASE HoldsGil(call[t].op)
  <2>1. r = Idle
    BY <1>2
  <2> HIDE DEF r
  <2>2. call' = [call EXCEPT ![t] = Idle]
    BY <1>1, <2>1
  <2> QED BY <1>2, <2>2 DEF Leave, Called, Becomes, Idle
<1>3. CASE ~HoldsGil(call[t].op)
  <2>1. r = [op |-> call[t].op, pc |-> "return", on |-> call[t].on, todo |-> <<>>, got |-> call[t].got]
    BY <1>3, Fields, Altered
  <2> HIDE DEF r
  <2> QED BY <1>1, <1>3, <2>1 DEF Leave, Called, Becomes
<1> QED BY <1>2, <1>3 DEF Leave

LEMMA IdlePlaced == Placed("none", "idle", "tx")
BY DEF Placed, Ops, Places, Ends, Handles, Own, Bulk

LEMMA PlacedCall ==
  ASSUME Typed, PlaceInv, NEW t \in Threads
  PROVE  Placed(call[t].op, call[t].pc, call[t].on)
BY DEF PlaceInv

\* The mutexes and the GIL change hands as far as t is concerned, and only so far.
Held(t, op, pc, on) ==
  /\ lock' \in [Handles -> Threads \cup {Nobody}] /\ gil' \in Threads \cup {Nobody}
  /\ \A h \in Handles : lock'[h] = t <=> pc = "work" /\ on = h
  /\ \A h \in Handles, u \in Threads : u # t => (lock'[h] = u <=> lock[h] = u)
  /\ gil' = t <=> HoldsGil(op) /\ pc \in {"lock", "work"}
  /\ \A u \in Threads : u # t => (gil' = u <=> gil = u)

LEMMA GInvCalled ==
  ASSUME GInv, NEW t \in Threads, NEW op, NEW pc, NEW on, NEW todo, NEW got,
         Called(t, op, pc, on, todo, got), Placed(op, pc, on), Held(t, op, pc, on), UNCHANGED via
  PROVE  GInv'
<1> DEFINE r == [op |-> op, pc |-> pc, on |-> on, todo |-> todo, got |-> got]
<1>1. r.op = op /\ r.pc = pc /\ r.on = on /\ r.got = got /\ Becomes(t, r)
      /\ r = [op |-> r.op, pc |-> r.pc, on |-> r.on, todo |-> r.todo, got |-> r.got]
  BY DEF Called
<1> HIDE DEF r
<1>2. call'[t] = r /\ \A u \in Threads : u # t => call'[u] = call[u]
  BY <1>1, BecomesOf DEF GInv
<1>3. Typed'
  <2>1. \E T : call' \in [Threads -> CallSet(T)]
    BY <1>1, TypedBecomes DEF GInv, Placed
  <2> QED BY <2>1 DEF Held, Typed, GInv
<1>4. PlaceInv'
  BY <1>1, <1>2 DEF PlaceInv, GInv, Placed
<1>5. MutexInv'
  BY <1>1, <1>2 DEF MutexInv, GInv, Held
<1>6. GilInv'
  BY <1>1, <1>2 DEF GilInv, GInv, Held
<1> QED BY <1>3, <1>4, <1>5, <1>6 DEF GInv

\* A step of t that leaves the mutexes and the GIL alone.
LEMMA HeldAsIs ==
  ASSUME GInv, NEW t \in Threads, NEW op, NEW pc, NEW on, UNCHANGED <<gil, lock>>,
         pc = "work" <=> call[t].pc = "work", pc = "work" => on = call[t].on,
         (HoldsGil(op) /\ pc \in {"lock", "work"}) <=> (HoldsGil(call[t].op) /\ call[t].pc \in {"lock", "work"})
  PROVE  Held(t, op, pc, on)
BY DEF Held, GInv, Typed, MutexInv, GilInv

LEMMA GInvChoose ==
  ASSUME GInv, NEW t \in Threads, Choose(t)
  PROVE  GInv'
<1>1. PICK op \in Ops, on \in Ends : \E todo :
        Called(t, op, "want", on, todo, <<>>) /\ Placed(op, "want", on)
  BY ChooseOf DEF GInv
<1>2. PICK todo : Called(t, op, "want", on, todo, <<>>)
  BY <1>1
<1>3. call[t].pc = "idle" /\ UNCHANGED <<gil, lock, via>>
  BY ChooseOf DEF GInv
<1>4. Placed(op, "want", on)
  BY <1>1
<1>5. Held(t, op, "want", on)
  BY <1>3, HeldAsIs
<1> QED BY <1>2, <1>3, <1>4, <1>5, GInvCalled

LEMMA GInvLeave ==
  ASSUME GInv, NEW t \in Threads, Leave(t), UNCHANGED via, call[t].pc \in {"lock", "work"}
  PROVE  GInv'
<1>1. Placed(call[t].op, call[t].pc, call[t].on)
  BY PlacedCall, Fields DEF GInv
<1>2. lock' \in [Handles -> Threads \cup {Nobody}]
      /\ \A h \in Handles : lock'[h] # t /\ \A u \in Threads : u # t => (lock'[h] = u <=> lock[h] = u)
  BY LeaveOf, ThreadsAssumption DEF GInv, Typed
<1>3. CASE HoldsGil(call[t].op)
  <2>1. Called(t, "none", "idle", "tx", <<>>, <<>>) /\ gil' = Nobody
    BY <1>3, LeaveOf DEF GInv
  <2>2. gil = t
    BY <1>3 DEF GInv, GilInv
  <2>3. Held(t, "none", "idle", "tx")
    BY <1>2, <2>1, <2>2, ThreadsAssumption DEF Held
  <2>4. Placed("none", "idle", "tx")
    BY IdlePlaced
  <2> QED BY <2>1, <2>3, <2>4, GInvCalled
<1>4. CASE ~HoldsGil(call[t].op)
  <2>1. Called(t, call[t].op, "return", call[t].on, <<>>, call[t].got) /\ gil' = gil
    BY <1>4, LeaveOf DEF GInv
  <2>2. gil # t
    BY <1>4 DEF GInv, GilInv
  <2>3. Held(t, call[t].op, "return", call[t].on)
    BY <1>2, <1>4, <2>1, <2>2 DEF Held, GInv, Typed
  <2>4. Placed(call[t].op, "return", call[t].on)
    BY <1>1, <1>4 DEF Placed, HoldsGil, Places
  <2> QED BY <1>1, <2>1, <2>3, <2>4, GInvCalled
<1> QED BY <1>3, <1>4

\* Whoever works on a handle while the GIL is free is inside send, and borrows it.
LEMMA FreeUnlessBorrowed ==
  ASSUME GInv, NEW h \in Handles, gil = Nobody, ~Borrowed(h)
  PROVE  lock[h] = Nobody
<1> SUFFICES ASSUME NEW u \in Threads, lock[h] = u PROVE FALSE
  BY DEF GInv, Typed
<1>1. call[u].pc = "work" /\ call[u].on = h
  BY DEF GInv, MutexInv
<1>2. call[u].op = "send"
  BY <1>1, ThreadsAssumption DEF GInv, GilInv, HoldsGil
<1> QED BY <1>1, <1>2 DEF Borrowed

\* Assignments to fields of a call.
LEMMA FieldOf ==
  ASSUME Typed, NEW t \in Threads, NEW p, NEW s, NEW g
  PROVE  /\ call' = [call EXCEPT ![t].pc = p]
              => Called(t, call[t].op, p, call[t].on, call[t].todo, call[t].got)
         /\ call' = [call EXCEPT ![t].pc = p, ![t].todo = s]
              => Called(t, call[t].op, p, call[t].on, s, call[t].got)
         /\ call' = [call EXCEPT ![t].todo = s]
              => Called(t, call[t].op, call[t].pc, call[t].on, s, call[t].got)
         /\ call' = [call EXCEPT ![t].got = g]
              => Called(t, call[t].op, call[t].pc, call[t].on, call[t].todo, g)
<1>1. IsCall(call[t])
  BY Fields
<1>2. ASSUME call' = [call EXCEPT ![t].pc = p]
      PROVE  Called(t, call[t].op, p, call[t].on, call[t].todo, call[t].got)
  <2> DEFINE r == [call[t] EXCEPT !.pc = p]
  <2>1. call' = [call EXCEPT ![t] = r]
    BY <1>2 DEF Typed
  <2>2. r = [op |-> call[t].op, pc |-> p, on |-> call[t].on, todo |-> call[t].todo, got |-> call[t].got]
    BY <1>1, Altered
  <2> HIDE DEF r
  <2> QED BY ONLY <2>1, <2>2 DEF Called, Becomes
<1>3. ASSUME call' = [call EXCEPT ![t].pc = p, ![t].todo = s]
      PROVE  Called(t, call[t].op, p, call[t].on, s, call[t].got)
  <2> DEFINE r == [call[t] EXCEPT !.pc = p, !.todo = s]
  <2>1. call' = [call EXCEPT ![t] = r]
    BY <1>3 DEF Typed
  <2>2. r = [op |-> call[t].op, pc |-> p, on |-> call[t].on, todo |-> s, got |-> call[t].got]
    BY <1>1, Altered
  <2> HIDE DEF r
  <2> QED BY ONLY <2>1, <2>2 DEF Called, Becomes
<1>4. ASSUME call' = [call EXCEPT ![t].todo = s]
      PROVE  Called(t, call[t].op, call[t].pc, call[t].on, s, call[t].got)
  <2> DEFINE r == [call[t] EXCEPT !.todo = s]
  <2>1. call' = [call EXCEPT ![t] = r]
    BY <1>4 DEF Typed
  <2>2. r = [op |-> call[t].op, pc |-> call[t].pc, on |-> call[t].on, todo |-> s, got |-> call[t].got]
    BY <1>1, Altered
  <2> HIDE DEF r
  <2> QED BY ONLY <2>1, <2>2 DEF Called, Becomes
<1>5. ASSUME call' = [call EXCEPT ![t].got = g]
      PROVE  Called(t, call[t].op, call[t].pc, call[t].on, call[t].todo, g)
  <2> DEFINE r == [call[t] EXCEPT !.got = g]
  <2>1. call' = [call EXCEPT ![t] = r]
    BY <1>5 DEF Typed
  <2>2. r = [op |-> call[t].op, pc |-> call[t].pc, on |-> call[t].on, todo |-> call[t].todo, got |-> g]
    BY <1>1, Altered
  <2> HIDE DEF r
  <2> QED BY ONLY <2>1, <2>2 DEF Called, Becomes
<1> QED BY <1>2, <1>3, <1>4, <1>5

LEMMA SetIdle ==
  ASSUME Typed, NEW t \in Threads, call' = [call EXCEPT ![t] = Idle]
  PROVE  Called(t, "none", "idle", "tx", <<>>, <<>>)
BY DEF Called, Becomes, Idle

\* Why a bulk call begins or not.
Refused(t) == (call[t].op = "send_to" /\ ~Outgoing(program, call[t].todo).ok) \/ Borrowed(Handle(t))

LEMMA BeginOf ==
  ASSUME NEW t, Begin(t)
  PROVE  /\ call[t].pc = "want" /\ gil = Nobody
         /\ UNCHANGED <<setup, closed, left, region, calls>>
         /\ \/ /\ call[t].op \notin Bulk
               /\ call' = [call EXCEPT ![t].pc = "lock"]
               /\ gil' = IF HoldsGil(call[t].op) THEN t ELSE Nobody
               /\ UNCHANGED lock
            \/ /\ call[t].op \in Bulk /\ Refused(t)
               /\ call' = [call EXCEPT ![t] = Idle]
               /\ UNCHANGED <<gil, lock>>
            \/ /\ call[t].op \in Bulk /\ ~Refused(t)
               /\ \E todo : call' = [call EXCEPT ![t].pc = "work", ![t].todo = todo]
               /\ gil' = IF HoldsGil(call[t].op) THEN t ELSE Nobody
               /\ lock' = [h \in Handles |-> IF h = Handle(t) THEN t ELSE lock[h]]
BY DEF Begin, Refused

LEMMA GInvBegin ==
  ASSUME GInv, NEW t \in Threads, Begin(t)
  PROVE  GInv'
<1>1. Placed(call[t].op, call[t].pc, call[t].on)
  BY PlacedCall, Fields DEF GInv
<1>2. call[t].pc = "want" /\ gil = Nobody /\ UNCHANGED via
  BY BeginOf DEF setup
<1>3. CASE /\ call[t].op \notin Bulk
           /\ call' = [call EXCEPT ![t].pc = "lock"]
           /\ gil' = IF HoldsGil(call[t].op) THEN t ELSE Nobody
           /\ UNCHANGED lock
  <2>1. Called(t, call[t].op, "lock", call[t].on, call[t].todo, call[t].got)
    BY <1>3, FieldOf DEF GInv
  <2>2. Placed(call[t].op, "lock", call[t].on)
    BY <1>1, <1>2, <1>3 DEF Placed, Places, Ops, Bulk
  <2>3. Held(t, call[t].op, "lock", call[t].on)
    BY <1>2, <1>3, ThreadsAssumption DEF Held, GInv, Typed, MutexInv
  <2> QED BY <1>1, <1>2, <2>1, <2>2, <2>3, GInvCalled
<1>4. CASE call' = [call EXCEPT ![t] = Idle] /\ UNCHANGED <<gil, lock>>
  <2>1. Called(t, "none", "idle", "tx", <<>>, <<>>)
    BY <1>4, SetIdle DEF GInv
  <2>2. Held(t, "none", "idle", "tx")
    BY <1>2, <1>4, HeldAsIs
  <2> QED BY <1>2, <2>1, <2>2, IdlePlaced, GInvCalled
<1>5. CASE /\ call[t].op \in Bulk /\ ~Refused(t)
           /\ \E todo : call' = [call EXCEPT ![t].pc = "work", ![t].todo = todo]
           /\ gil' = IF HoldsGil(call[t].op) THEN t ELSE Nobody
           /\ lock' = [h \in Handles |-> IF h = Handle(t) THEN t ELSE lock[h]]
  <2>1. PICK todo : call' = [call EXCEPT ![t].pc = "work", ![t].todo = todo]
    BY <1>5
  <2>2. Called(t, call[t].op, "work", call[t].on, todo, call[t].got)
    BY <2>1, FieldOf DEF GInv
  <2>3. call[t].on \in Handles => lock[call[t].on] = Nobody
    BY <1>1, <1>2, <1>5, FreeUnlessBorrowed DEF Refused, Handle, Placed
  <2>4. Held(t, call[t].op, "work", call[t].on)
    BY <1>1, <1>2, <1>5, <2>3, ThreadsAssumption
    DEF Held, GInv, Typed, MutexInv, Handle, Placed, HoldsGil, Bulk
  <2>5. Placed(call[t].op, "work", call[t].on)
    BY <1>1, <1>5 DEF Placed, Places, Bulk
  <2> QED BY <1>1, <1>2, <2>2, <2>4, <2>5, GInvCalled
<1> QED BY <1>3, <1>4, <1>5, BeginOf

LEMMA GInvLock ==
  ASSUME GInv, NEW t \in Threads, Lock(t)
  PROVE  GInv'
<1>1. Placed(call[t].op, call[t].pc, call[t].on)
  BY PlacedCall, Fields DEF GInv
<1>2. call[t].pc = "lock" /\ lock[Handle(t)] = Nobody /\ UNCHANGED via
  BY DEF Lock, setup
<1>3. CASE call[t].op \in {"send", "recv"} /\ call' = [call EXCEPT ![t].pc = "work"]
           /\ lock' = [lock EXCEPT ![Handle(t)] = t] /\ UNCHANGED gil
  <2>1. Called(t, call[t].op, "work", call[t].on, call[t].todo, call[t].got)
    BY <1>3, FieldOf DEF GInv
  <2>2. call[t].on \in Handles /\ lock[call[t].on] = Nobody
    BY <1>1, <1>2, <1>3 DEF Placed, Ends, Own, Handle
  <2>3. /\ lock' \in [Handles -> Threads \cup {Nobody}]
        /\ \A h \in Handles : lock'[h] = IF h = call[t].on THEN t ELSE lock[h]
    BY <1>3, <2>2 DEF GInv, Typed, Handle
  <2>4. \A h \in Handles : lock[h] # t
    BY <1>2 DEF GInv, MutexInv
  <2>5. gil = t <=> HoldsGil(call[t].op)
    BY <1>2 DEF GInv, GilInv
  <2>6. Held(t, call[t].op, "work", call[t].on)
    BY <1>3, <2>2, <2>3, <2>4, <2>5, ThreadsAssumption DEF Held, GInv, Typed
  <2>7. Placed(call[t].op, "work", call[t].on)
    BY <1>1, <1>3 DEF Placed, Places, Bulk
  <2> QED BY <1>1, <1>2, <2>1, <2>6, <2>7, GInvCalled
<1>4. CASE Leave(t)
  BY <1>2, <1>4, GInvLeave
<1> QED BY <1>3, <1>4 DEF Lock

LEMMA GInvPush ==
  ASSUME GInv, NEW t \in Threads, Push(t)
  PROVE  GInv'
<1>1. Placed(call[t].op, call[t].pc, call[t].on)
  BY PlacedCall, Fields DEF GInv
<1>2. call[t].pc = "work" /\ UNCHANGED via
  BY DEF Push, setup
<1>3. CASE call' = [call EXCEPT ![t].todo = Tail(@)] /\ UNCHANGED <<gil, lock>>
  <2>1. call' = [call EXCEPT ![t].todo = Tail(call[t].todo)]
    BY <1>3 DEF GInv, Typed
  <2>2. Called(t, call[t].op, call[t].pc, call[t].on, Tail(call[t].todo), call[t].got)
    BY <2>1, FieldOf DEF GInv
  <2>3. Held(t, call[t].op, call[t].pc, call[t].on)
    BY <1>3, HeldAsIs
  <2> QED BY <1>1, <1>2, <2>2, <2>3, GInvCalled
<1>4. CASE Leave(t)
  BY <1>2, <1>4, GInvLeave
<1> QED BY <1>3, <1>4 DEF Push

LEMMA GInvNotSent ==
  ASSUME GInv, NEW t \in Threads, NotSent(t)
  PROVE  GInv'
BY GInvLeave DEF NotSent, setup

\* A step of the ring alone.
LEMMA GInvRing ==
  ASSUME GInv, UNCHANGED <<via, gil, lock, call>>
  PROVE  GInv'
BY DEF GInv, Typed, PlaceInv, Placed, MutexInv, GilInv

LEMMA GInvTake ==
  ASSUME GInv, NEW t \in Threads, Take(t)
  PROVE  GInv'
<1>1. Placed(call[t].op, call[t].pc, call[t].on) /\ UNCHANGED <<via, gil, lock>>
  BY PlacedCall DEF GInv, Take, setup
<1>2. PICK g : call' = [call EXCEPT ![t].got = g]
  BY DEF Take
<1>3. Called(t, call[t].op, call[t].pc, call[t].on, call[t].todo, g)
  BY <1>2, FieldOf DEF GInv
<1>4. Held(t, call[t].op, call[t].pc, call[t].on)
  BY <1>1, HeldAsIs
<1> QED BY <1>1, <1>3, <1>4, GInvCalled

LEMMA GInvFinish ==
  ASSUME GInv, NEW t \in Threads, Finish(t)
  PROVE  GInv'
BY GInvLeave DEF Finish, setup

LEMMA GInvReturn ==
  ASSUME GInv, NEW t \in Threads, Return(t)
  PROVE  GInv'
<1>1. call[t].pc = "return" /\ UNCHANGED <<via, gil, lock>> /\ call' = [call EXCEPT ![t] = Idle]
  BY DEF Return, setup
<1>2. Called(t, "none", "idle", "tx", <<>>, <<>>)
  BY <1>1, SetIdle DEF GInv
<1>3. Held(t, "none", "idle", "tx")
  BY <1>1, HeldAsIs
<1> QED BY <1>1, <1>2, <1>3, IdlePlaced, GInvCalled

LEMMA GInvNext == GInv /\ [ThreadsNext]_threadVars => GInv'
<1> SUFFICES ASSUME GInv, [ThreadsNext]_threadVars PROVE GInv'
  OBVIOUS
<1>1. CASE UNCHANGED threadVars
  BY <1>1, GInvRing DEF threadVars, setup
<1>2. CASE Open
  <2>1. via = Unopened /\ via' \in Handles \cup {"url"} /\ UNCHANGED <<gil, lock, call>>
    BY <1>2 DEF Open
  <2>2. PlaceInv'
    BY <2>1 DEF GInv, PlaceInv, Placed
  <2> QED BY <2>1, <2>2 DEF GInv, Typed, MutexInv, GilInv
<1>3. ASSUME NEW t \in Threads, Thread(t)
      PROVE  GInv'
  <2>1. CASE Choose(t)
    BY <2>1, GInvChoose
  <2>2. CASE Begin(t)
    BY <2>2, GInvBegin
  <2>3. CASE Lock(t)
    BY <2>3, GInvLock
  <2>4. CASE Claim(t) \/ Look(t)
    BY <2>4, GInvRing DEF Claim, Look, setup
  <2>5. CASE Push(t)
    BY <2>5, GInvPush
  <2>6. CASE NotSent(t)
    BY <2>6, GInvNotSent
  <2>7. CASE Take(t)
    BY <2>7, GInvTake
  <2>8. CASE Finish(t)
    BY <2>8, GInvFinish
  <2>9. CASE Return(t)
    BY <2>9, GInvReturn
  <2> QED BY <1>3, <2>1, <2>2, <2>3, <2>4, <2>5, <2>6, <2>7, <2>8, <2>9 DEF Thread
<1> QED BY <1>1, <1>2, <1>3 DEF ThreadsNext

LEMMA GInvHolds == ThreadsSpec => []GInv
BY GInvInit, GInvNext, PTL DEF ThreadsSpec

\* Who works and cannot move is sending: it has the mutex of tx.
LEMMA WorkingSender ==
  ASSUME GInv, NEW t \in Threads, call[t].pc = "work", ~CanStep(t)
  PROVE  Sends(t) /\ call[t].on = "tx" /\ lock["tx"] = t
<1>1. Sends(t)
  BY DEF CanStep
<1>2. call[t].on = "tx"
  BY <1>1 DEF GInv, PlaceInv, Placed, Sends
<1> QED BY <1>1, <1>2 DEF GInv, MutexInv, Handles

LEMMA OnlyGilStarves ==
  ASSUME GInv
  PROVE  StarvedOnlyByGil
<1> SUFFICES ASSUME NEW t \in Threads, Stuck(t), NEW u \in Threads, Receives(u),
                    call[t].op # "send_to"
             PROVE  gil # Nobody /\ call[gil].pc = "lock" /\ Handle(gil) = Handle(t)
  BY DEF StarvedOnlyByGil
<1>1. call[t].pc = "work" /\ \A v \in Threads : ~CanStep(v)
  BY DEF Stuck
<1>2. Sends(t) /\ call[t].on = "tx" /\ lock["tx"] = t /\ call[t].op = "send"
  BY <1>1, WorkingSender DEF Sends
\* The receiver waits for the GIL or has it.
<1>3. gil \in Threads
  <2>1. call[u].op \in {"recv", "receive_from", "collect"} /\ call[u].pc \in Places
    BY Fields DEF Receives, GInv
  <2>2. call[u].pc \notin {"idle", "return"}
    BY <2>1 DEF GInv, PlaceInv, Placed
  <2>3. call[u].pc # "work"
    BY <1>1, <2>1, WorkingSender DEF Sends
  <2>4. CASE call[u].pc = "want"
    BY <1>1, <2>4 DEF CanStep, GInv, Typed
  <2>5. CASE call[u].pc = "lock"
    BY <2>1, <2>5 DEF GInv, GilInv, HoldsGil
  <2> QED BY <2>1, <2>2, <2>3, <2>4, <2>5 DEF Places
<1>4. HoldsGil(call[gil].op) /\ call[gil].pc \in {"lock", "work"}
  BY <1>3 DEF GInv, GilInv
<1>5. call[gil].pc # "work"
  BY <1>1, <1>2, <1>3, <1>4, WorkingSender DEF HoldsGil
\* So who has it waits for a mutex, and who has that is sending.
<1>6. lock[Handle(gil)] \in Threads /\ Handle(gil) \in Handles
  <2>1. Handle(gil) \in Handles
    BY <1>3, <1>4, <1>5, PlacedCall DEF Handle, GInv, Placed, Ends, Own
  <2>2. lock[Handle(gil)] # Nobody
    BY <1>1, <1>3, <1>4, <1>5 DEF CanStep
  <2> QED BY <2>1, <2>2 DEF GInv, Typed
<1>7. Handle(gil) = "tx"
  <2> DEFINE w == lock[Handle(gil)]
  <2>1. call[w].pc = "work" /\ call[w].on = Handle(gil)
    BY <1>6 DEF GInv, MutexInv
  <2> QED BY <1>1, <1>6, <2>1, WorkingSender
<1> QED BY <1>2, <1>3, <1>4, <1>5, <1>7, ThreadsAssumption DEF Handle

\* A send that waits with nobody able to move, while another thread is to
\* receive, is a send_to, or has behind it a thread that waits for the mutex
\* with the GIL: ShmChannel::send alone, which releases the GIL, starves nobody,
\* for any number of threads, any capacity and any pipeline.
THEOREM OnlyTheGilStarves == ThreadsSpec => []StarvedOnlyByGil
BY GInvHolds, OnlyGilStarves, PTL

-----------------------------------------------------------------------------
(* What is sent is drained by one call *)

Returned(i) == {c \in DOMAIN calls : Took(calls[c].got, i)}
Draining(i) == {t \in Threads : Took(call[t].got, i)}

\* One call drained the message, and it has returned or has not.
OneTaker(i) ==
  \/ \E c \in DOMAIN calls : Returned(i) = {c} /\ Draining(i) = {}
  \/ \E t \in Threads : Returned(i) = {} /\ Draining(i) = {t}

LEMMA OneOfTakers ==
  ASSUME NEW i
  PROVE  OneTaker(i) <=> \E taker \in Takers(i) : Takers(i) = {taker}
<1>1. Takers(i) = {<<"returned", c>> : c \in Returned(i)} \cup {<<"draining", t>> : t \in Draining(i)}
  BY DEF Takers, Returned, Draining
<1>2. ASSUME OneTaker(i) PROVE \E taker \in Takers(i) : Takers(i) = {taker}
  <2>1. CASE \E c \in DOMAIN calls : Returned(i) = {c} /\ Draining(i) = {}
    <3>1. PICK c \in DOMAIN calls : Returned(i) = {c} /\ Draining(i) = {}
      BY <2>1
    <3>2. Takers(i) = {<<"returned", c>>}
      BY <1>1, <3>1
    <3> QED BY <3>2
  <2>2. CASE \E t \in Threads : Returned(i) = {} /\ Draining(i) = {t}
    <3>1. PICK t \in Threads : Returned(i) = {} /\ Draining(i) = {t}
      BY <2>2
    <3>2. Takers(i) = {<<"draining", t>>}
      BY <1>1, <3>1
    <3> QED BY <3>2
  <2> QED BY <1>2, <2>1, <2>2 DEF OneTaker
<1>3. ASSUME NEW taker \in Takers(i), Takers(i) = {taker} PROVE OneTaker(i)
  <2>1. \A c \in Returned(i) : taker = <<"returned", c>>
    BY <1>1, <1>3
  <2>2. \A t \in Draining(i) : taker = <<"draining", t>>
    BY <1>1, <1>3
  <2>3. CASE \E c \in Returned(i) : taker = <<"returned", c>>
    <3>1. PICK c \in Returned(i) : taker = <<"returned", c>>
      BY <2>3
    <3>2. Returned(i) = {c}
      <4>1. \A d \in Returned(i) : d = c
        <5> SUFFICES ASSUME NEW d \in Returned(i) PROVE d = c
          OBVIOUS
        <5>1. <<"returned", c>> = <<"returned", d>>
          BY <2>1, <3>1
        <5> QED BY <5>1
      <4> QED BY <3>1, <4>1
    <3>3. Draining(i) = {}
      <4> SUFFICES ASSUME NEW t \in Draining(i) PROVE FALSE
        OBVIOUS
      <4>1. <<"returned", c>> = <<"draining", t>>
        BY <2>2, <3>1
      <4> QED BY <4>1
    <3>4. c \in DOMAIN calls
      BY <3>1 DEF Returned
    <3> QED BY <3>2, <3>3, <3>4 DEF OneTaker
  <2>4. CASE \E t \in Draining(i) : taker = <<"draining", t>>
    <3>1. PICK t \in Draining(i) : taker = <<"draining", t>>
      BY <2>4
    <3>2. Draining(i) = {t}
      <4>1. \A u \in Draining(i) : u = t
        <5> SUFFICES ASSUME NEW u \in Draining(i) PROVE u = t
          OBVIOUS
        <5>1. <<"draining", t>> = <<"draining", u>>
          BY <2>2, <3>1
        <5> QED BY <5>1
      <4> QED BY <3>1, <4>1
    <3>3. Returned(i) = {}
      <4> SUFFICES ASSUME NEW c \in Returned(i) PROVE FALSE
        OBVIOUS
      <4>1. <<"returned", c>> = <<"draining", t>>
        BY <2>1, <3>1
      <4> QED BY <4>1
    <3>4. t \in Threads
      BY <3>1 DEF Draining
    <3> QED BY <3>2, <3>3, <3>4 DEF OneTaker
  <2> QED BY <1>1, <1>3, <2>3, <2>4
<1> QED BY <1>2, <1>3

\* The ring holds what no call has drained, each message in its slot; a call
\* has drained messages in order, and has any only while it drains; what a
\* thread found is still so.
Drained(got, gone) ==
  got \in Seq(Nat) /\ \A k \in DOMAIN got : got[k] \in 1 .. gone /\ (k > 1 => got[k] > got[k - 1])
QueueInv ==
  /\ \E S : sent \in Seq(S)
  /\ DOMAIN slot = 0 .. Cap - 1 /\ slot = [i \in 0 .. Cap - 1 |-> slot[i]]
  /\ tail \in Nat /\ head = Len(sent) /\ head \in Nat /\ tail <= head /\ head <= tail + Cap
  /\ \A p \in tail .. head - 1 : slot[p % Cap] = p + 1
DrainedInv ==
  /\ \E C : calls \in Seq(C)
  /\ \A c \in DOMAIN calls : Drained(calls[c].got, tail)
  /\ \A t \in Threads : Drained(call[t].got, tail)
  /\ \A i \in 1 .. tail : OneTaker(i)
DrainingInv ==
  \A t \in Threads :
    call[t].got # <<>> => call[t].pc = "work" /\ Receives(t)
Found(t, op, pc) ==
  \/ cursor[t] = <<>>
  \/ pc = "work" /\ op \in {"send", "send_to"} /\ cursor[t] = <<head>> /\ head < tail + Cap
  \/ pc = "work" /\ op \in {"recv", "receive_from", "collect"} /\ cursor[t] = <<tail>> /\ tail < head
FoundInv ==
  /\ cursor = [t \in Threads |-> cursor[t]]
  /\ \A t \in Threads : Found(t, call[t].op, call[t].pc)
TInv == QueueInv /\ DrainedInv /\ DrainingInv /\ FoundInv

LEMMA TInvTransfers == TInv => MessagesTransferred
<1> SUFFICES ASSUME TInv PROVE MessagesTransferred
  OBVIOUS
<1>1. head = Len(sent) /\ \A p \in tail .. head - 1 : slot[p % Cap] = p + 1
  BY DEF TInv, QueueInv
<1>2. \A i \in 1 .. tail : \E taker \in Takers(i) : Takers(i) = {taker}
  BY OneOfTakers DEF TInv, DrainedInv
<1> QED BY <1>1, <1>2 DEF MessagesTransferred, TInv, DrainedInv, Drained, InOrder

LEMMA TInvInit == ThreadsInit => TInv
<1> SUFFICES ASSUME ThreadsInit PROVE TInv
  OBVIOUS
<1>1. tail = 0 /\ head = 0 /\ Len(sent) = 0
  BY DEF ThreadsInit
<1>2. <<>> \in Seq(Nat) /\ sent \in Seq(Nat) /\ calls \in Seq(Nat) /\ DOMAIN calls = {}
  BY DEF ThreadsInit
<1>3. \A t \in Threads : call[t].got = <<>> /\ cursor[t] = <<>>
  BY DEF ThreadsInit, Idle
<1>4. QueueInv
  BY <1>1, <1>2, ThreadsAssumption DEF QueueInv, ThreadsInit
<1>5. Drained(<<>>, 0)
  BY <1>2 DEF Drained
<1>6. DrainedInv
  BY <1>1, <1>2, <1>3, <1>5 DEF DrainedInv
<1>7. FoundInv
  BY <1>3 DEF FoundInv, Found, ThreadsInit
<1> QED BY <1>3, <1>4, <1>6, <1>7 DEF TInv, DrainingInv

\* One thread at a time works on sending and one on receiving: the mutex of tx
\* keeps the sends apart; the receives are kept apart by the mutex of their
\* handle, or, each on its own, by the GIL.
LEMMA OneAtATime ==
  ASSUME GInv, NEW t \in Threads, NEW u \in Threads, call[t].pc = "work", call[u].pc = "work",
         (Sends(t) /\ Sends(u)) \/ (Receives(t) /\ Receives(u))
  PROVE  u = t
<1>1. Placed(call[t].op, call[t].pc, call[t].on) /\ Placed(call[u].op, call[u].pc, call[u].on)
  BY PlacedCall DEF GInv
<1>2. CASE call[t].on = call[u].on /\ call[t].on \in Handles
  BY <1>2 DEF GInv, MutexInv
<1>3. CASE call[t].op = "collect" /\ call[u].op = "collect"
  BY <1>3 DEF GInv, GilInv, HoldsGil
<1>4. CASE Sends(t) /\ Sends(u)
  BY <1>1, <1>2, <1>4 DEF Placed, Sends, Handles
<1>5. CASE Receives(t) /\ Receives(u)
  <2>1. via \in Handles => call[t].op # "collect" /\ call[u].op # "collect"
    BY <1>1 DEF Placed, Handles
  <2>2. call[t].op # "collect" => call[t].on = via /\ call[t].on \in Handles
    BY <1>1, <1>5 DEF Placed, Receives, Ends
  <2>3. call[u].op # "collect" => call[u].on = via /\ call[u].on \in Handles
    BY <1>1, <1>5 DEF Placed, Receives, Ends
  <2> QED BY <1>2, <1>3, <2>1, <2>2, <2>3
<1> QED BY <1>4, <1>5

\* What a thread's step makes of what the calls drained.
LEMMA CalledGot ==
  ASSUME Typed, NEW t \in Threads, NEW op, NEW pc, NEW on, NEW todo, NEW got,
         Called(t, op, pc, on, todo, got)
  PROVE  /\ call'[t].got = got /\ call'[t].pc = pc /\ call'[t].op = op
         /\ \A u \in Threads : u # t => call'[u] = call[u]
<1> DEFINE r == [op |-> op, pc |-> pc, on |-> on, todo |-> todo, got |-> got]
<1>1. r.op = op /\ r.pc = pc /\ r.got = got /\ Becomes(t, r)
  BY DEF Called
<1> HIDE DEF r
<1> QED BY <1>1, BecomesOf

\* No call drains.
Undisturbed == /\ \A u \in Threads : call'[u].got = call[u].got
               /\ UNCHANGED calls

LEMMA DrainedStays ==
  ASSUME DrainedInv, Undisturbed, tail' = tail
  PROVE  DrainedInv'
<1>1. \A i : Returned(i)' = Returned(i) /\ Draining(i)' = Draining(i)
  BY DEF Undisturbed, Returned, Draining, Took
<1>2. \A i : OneTaker(i) => OneTaker(i)'
  BY <1>1 DEF OneTaker, Undisturbed
<1> QED BY <1>2 DEF DrainedInv, Undisturbed

\* The other calls stay as they are.
Alone(t) == \A u \in Threads : u # t => call'[u] = call[u]

\* A step of a call that has drained nothing and does not drain.
LEMMA IdleHands ==
  ASSUME Typed, DrainingInv, NEW t \in Threads, call[t].got = <<>>,
         NEW op, NEW pc, NEW on, NEW todo, Called(t, op, pc, on, todo, <<>>)
  PROVE  Alone(t) /\ (\A u \in Threads : call'[u].got = call[u].got) /\ DrainingInv'
<1>1. call'[t].got = <<>> /\ Alone(t)
  BY CalledGot DEF Alone
<1> QED BY <1>1 DEF DrainingInv, Alone, Receives

\* The call of t leaves with nothing.
LEMMA LeaveHands ==
  ASSUME Typed, DrainingInv, NEW t \in Threads, call[t].got = <<>>, Leave(t)
  PROVE  Alone(t) /\ (\A u \in Threads : call'[u].got = call[u].got) /\ DrainingInv'
BY LeaveOf, IdleHands

LEMMA AppendAny ==
  ASSUME NEW S, NEW s \in Seq(S), NEW x
  PROVE  /\ Append(s, x) \in Seq(S \cup {x})
         /\ Len(Append(s, x)) = Len(s) + 1 /\ Len(s) \in Nat
         /\ DOMAIN Append(s, x) = DOMAIN s \cup {Len(s) + 1}
         /\ Len(s) + 1 \notin DOMAIN s
         /\ Append(s, x)[Len(s) + 1] = x
         /\ \A i \in DOMAIN s : Append(s, x)[i] = s[i]
<1>1. s \in Seq(S \cup {x})
  OBVIOUS
<1> QED BY <1>1, AppendProperties

\* What was in order stays so when more is gone.
LEMMA StillInOrder ==
  ASSUME NEW gone \in Nat, NEW got, Drained(got, gone)
  PROVE  Drained(got, gone + 1)
<1>1. 1 .. gone \subseteq 1 .. gone + 1
  OBVIOUS
<1> QED BY <1>1 DEF Drained

\* Nobody drained what is still in the ring.
LEMMA Nottail ==
  ASSUME DrainedInv, tail \in Nat
  PROVE  Returned(tail + 1) = {} /\ Draining(tail + 1) = {}
<1>1. \A got : Drained(got, tail) => ~Took(got, tail + 1)
  BY DEF Drained, Took
<1> QED BY <1>1 DEF Returned, Draining, DrainedInv

LEMMA DrainedAppend ==
  ASSUME NEW gone \in Nat, NEW g, Drained(g, gone)
  PROVE  /\ Drained(Append(g, gone + 1), gone + 1)
         /\ \A i : Took(Append(g, gone + 1), i) <=> Took(g, i) \/ i = gone + 1
<1> DEFINE h == Append(g, gone + 1)
           n == Len(g) + 1
<1>1. g \in Seq(Nat) /\ gone + 1 \in Nat
  BY DEF Drained
<1>2. h \in Seq(Nat) /\ n \in Nat /\ n > 0 /\ DOMAIN g = 1 .. n - 1 /\ DOMAIN h = 1 .. n
      /\ h[n] = gone + 1 /\ \A k \in 1 .. n - 1 : h[k] = g[k]
  BY <1>1, AppendProperties
<1>3. \A k \in 1 .. n - 1 : g[k] \in 1 .. gone /\ (k > 1 => g[k] > g[k - 1])
  BY <1>2 DEF Drained
<1> HIDE DEF h, n
<1>4. ASSUME NEW k \in 1 .. n
      PROVE  h[k] \in 1 .. gone + 1 /\ (k > 1 => h[k] > h[k - 1])
  <2>1. CASE k = n
    <3>1. k > 1 => k - 1 \in 1 .. n - 1
      BY <1>2, <2>1
    <3>2. k > 1 => h[k - 1] \in 1 .. gone
      BY <1>2, <1>3, <3>1
    <3> QED BY <1>2, <2>1, <3>2
  <2>2. CASE k \in 1 .. n - 1
    <3>1. k > 1 => k - 1 \in 1 .. n - 1
      BY <1>2, <2>2
    <3>2. h[k] = g[k] /\ (k > 1 => h[k - 1] = g[k - 1])
      BY <1>2, <2>2, <3>1
    <3> QED BY <1>3, <2>2, <3>2
  <2> QED BY <1>2, <2>1, <2>2
<1>5. Drained(h, gone + 1)
  BY <1>2, <1>4 DEF Drained
<1>6. ASSUME NEW i
      PROVE  Took(h, i) <=> Took(g, i) \/ i = gone + 1
  <2>1. ASSUME NEW k \in DOMAIN h, h[k] = i
        PROVE  Took(g, i) \/ i = gone + 1
    <3>1. CASE k = n
      BY <1>2, <2>1, <3>1
    <3>2. CASE k \in 1 .. n - 1
      BY <1>2, <2>1, <3>2 DEF Took
    <3> QED BY <1>2, <2>1, <3>1, <3>2
  <2>2. ASSUME NEW k \in DOMAIN g, g[k] = i
        PROVE  Took(h, i)
    <3>1. k \in DOMAIN h /\ h[k] = i
      BY <1>2, <2>2
    <3> QED BY <3>1 DEF Took
  <2>3. i = gone + 1 => Took(h, i)
    <3>1. n \in DOMAIN h
      BY <1>2
    <3> QED BY <1>2, <3>1 DEF Took
  <2> QED BY <2>1, <2>2, <2>3 DEF Took
<1> QED BY <1>5, <1>6 DEF h

\* A call that drains takes the next message.
LEMMA DrainedOne ==
  ASSUME DrainedInv, tail \in Nat, tail' = tail + 1, UNCHANGED calls, NEW t \in Threads,
         call'[t].got = Append(call[t].got, tail + 1),
         \A u \in Threads : u # t => call'[u] = call[u]
  PROVE  DrainedInv'
<1>4. /\ Drained(call'[t].got, tail + 1)
      /\ \A i : Took(call'[t].got, i) <=> Took(call[t].got, i) \/ i = tail + 1
  BY DrainedAppend DEF DrainedInv
<1>5. \A u \in Threads : Drained(call'[u].got, tail')
  <2> SUFFICES ASSUME NEW u \in Threads PROVE Drained(call'[u].got, tail + 1)
    OBVIOUS
  <2>1. CASE u = t
    BY <1>4, <2>1
  <2>2. CASE u # t
    BY <2>2, StillInOrder DEF DrainedInv
  <2> QED BY <2>1, <2>2
<1>6. \A c \in DOMAIN calls' : Drained(calls'[c].got, tail')
  BY StillInOrder DEF DrainedInv
<1>7. \A i \in 1 .. tail' : OneTaker(i)'
  <2> SUFFICES ASSUME NEW i \in 1 .. tail' PROVE OneTaker(i)'
    OBVIOUS
  <2>1. Returned(i)' = Returned(i)
    BY DEF Returned, Took
  <2>2. \A u \in Threads : u # t => (Took(call'[u].got, i) <=> Took(call[u].got, i))
    BY DEF Took
  <2>3. Took(call'[t].got, i) <=> Took(call[t].got, i) \/ i = tail + 1
    BY <1>4
  <2>4. CASE i = tail + 1
    <3>1. Draining(i)' = {t}
      BY <2>2, <2>3, <2>4, Nottail DEF Draining
    <3>2. Returned(i)' = {}
      BY <2>1, <2>4, Nottail
    <3> QED BY <3>1, <3>2 DEF OneTaker
  <2>5. CASE i \in 1 .. tail
    <3>1. i # tail + 1
      BY <2>5
    <3>2. Took(call'[t].got, i) <=> Took(call[t].got, i)
      BY <2>3, <3>1
    <3>3. \A u \in Threads : Took(call'[u].got, i) <=> Took(call[u].got, i)
      BY ONLY <2>2, <3>2
    <3>4. Draining(i)' = Draining(i)
      BY <3>3 DEF Draining, Took
    <3>5. OneTaker(i)
      BY <2>5 DEF DrainedInv
    <3> QED BY <2>1, <3>4, <3>5 DEF OneTaker
  <2> QED BY <2>4, <2>5
<1>8. \E C : calls' \in Seq(C)
  BY DEF DrainedInv
<1> QED BY <1>5, <1>6, <1>7, <1>8 DEF DrainedInv

\* A call that has drained the ring returns with what it drained.
LEMMA DrainedAll ==
  ASSUME DrainedInv, tail \in Nat, tail' = tail, NEW t \in Threads,
         NEW c, c.got = call[t].got, calls' = Append(calls, c), call'[t].got = <<>>,
         \A u \in Threads : u # t => call'[u] = call[u]
  PROVE  DrainedInv'
<1> DEFINE n == Len(calls) + 1
<1>1. PICK C : calls \in Seq(C)
  BY DEF DrainedInv
<1>2. calls' \in Seq(C \cup {c}) /\ DOMAIN calls' = DOMAIN calls \cup {n} /\ n \notin DOMAIN calls
      /\ calls'[n] = c /\ \A i \in DOMAIN calls : calls'[i] = calls[i]
  BY <1>1, AppendAny
<1> HIDE DEF n
<1>3. \A d \in DOMAIN calls' : Drained(calls'[d].got, tail')
  BY <1>2 DEF DrainedInv
<1>4. Drained(<<>>, tail)
  BY DEF Drained
<1>5. \A u \in Threads : Drained(call'[u].got, tail')
  BY <1>4 DEF DrainedInv
<1>6. \A i \in 1 .. tail' : OneTaker(i)'
  <2> SUFFICES ASSUME NEW i \in 1 .. tail PROVE OneTaker(i)'
    OBVIOUS
  <2>1. OneTaker(i)
    BY DEF DrainedInv
  <2>2. Draining(i)' = Draining(i) \ {t}
    BY DEF Draining, Took
  <2>3. CASE Took(call[t].got, i)
    <3>1. t \in Draining(i)
      BY <2>3 DEF Draining
    <3>2. Returned(i) = {} /\ Draining(i) = {t}
      BY <2>1, <3>1 DEF OneTaker
    <3>3. Returned(i)' = {n}
      BY <1>2, <2>3, <3>2 DEF Returned, Took
    <3> QED BY <1>2, <2>2, <3>2, <3>3 DEF OneTaker
  <2>4. CASE ~Took(call[t].got, i)
    <3>1. Returned(i)' = Returned(i)
      BY <1>2, <2>4 DEF Returned, Took
    <3>2. t \notin Draining(i)
      BY <2>4 DEF Draining
    <3> QED BY <1>2, <2>1, <2>2, <3>1, <3>2 DEF OneTaker
  <2> QED BY <2>3, <2>4
<1>7. \E D : calls' \in Seq(D)
  BY <1>2
<1> QED BY <1>3, <1>5, <1>6, <1>7 DEF DrainedInv

\* A step of t that leaves the ring alone, when t has found nothing.
LEMMA TInvQuiet ==
  ASSUME TInv, NEW t \in Threads, cursor[t] = <<>>, Alone(t), DrainingInv',
         \A u \in Threads : call'[u].got = call[u].got, UNCHANGED <<region, calls>>
  PROVE  TInv'
<1>1. QueueInv'
  BY DEF TInv, QueueInv, region
<1>2. DrainedInv'
  BY DrainedStays DEF TInv, Undisturbed, region
<1>3. FoundInv'
  BY DEF TInv, FoundInv, Found, Alone, region
<1> QED BY <1>1, <1>2, <1>3 DEF TInv

\* Only a call at work has found anything.
LEMMA NothingFound ==
  ASSUME TInv, NEW t \in Threads, call[t].pc # "work"
  PROVE  cursor[t] = <<>> /\ call[t].got = <<>>
BY DEF TInv, FoundInv, Found, DrainingInv

LEMMA TInvChoose ==
  ASSUME GInv, TInv, NEW t \in Threads, Choose(t)
  PROVE  TInv'
<1>1. PICK op \in Ops, on \in Ends : \E todo : Called(t, op, "want", on, todo, <<>>)
  BY ChooseOf DEF GInv
<1>2. PICK todo : Called(t, op, "want", on, todo, <<>>)
  BY <1>1
<1>3. call[t].pc = "idle" /\ UNCHANGED <<region, calls>>
  BY ChooseOf DEF GInv
<1> QED BY <1>2, <1>3, NothingFound, IdleHands, TInvQuiet DEF GInv, TInv

LEMMA TInvBegin ==
  ASSUME GInv, TInv, NEW t \in Threads, Begin(t)
  PROVE  TInv'
<1>1. call[t].pc = "want" /\ UNCHANGED <<region, calls>>
  BY BeginOf
<1>2. call[t].got = <<>>
  BY <1>1, NothingFound
<1>3. \E op, pc, on, todo : Called(t, op, pc, on, todo, <<>>)
  <2>1. CASE call' = [call EXCEPT ![t].pc = "lock"]
    <3>1. Called(t, call[t].op, "lock", call[t].on, call[t].todo, call[t].got)
      BY <2>1, FieldOf DEF GInv
    <3> QED BY <1>2, <3>1
  <2>2. CASE call' = [call EXCEPT ![t] = Idle]
    BY <2>2, SetIdle DEF GInv
  <2>3. CASE \E todo : call' = [call EXCEPT ![t].pc = "work", ![t].todo = todo]
    <3>1. PICK todo : call' = [call EXCEPT ![t].pc = "work", ![t].todo = todo]
      BY <2>3
    <3>2. Called(t, call[t].op, "work", call[t].on, todo, call[t].got)
      BY <3>1, FieldOf DEF GInv
    <3> QED BY <1>2, <3>2
  <2> QED BY <2>1, <2>2, <2>3, BeginOf
<1> QED BY <1>1, <1>2, <1>3, NothingFound, IdleHands, TInvQuiet DEF GInv, TInv

LEMMA TInvLock ==
  ASSUME GInv, TInv, NEW t \in Threads, Lock(t)
  PROVE  TInv'
<1>1. call[t].pc = "lock" /\ UNCHANGED <<region, calls>>
  BY DEF Lock
<1>2. cursor[t] = <<>> /\ call[t].got = <<>>
  BY <1>1, NothingFound
<1>3. CASE call' = [call EXCEPT ![t].pc = "work"]
  <2>1. Called(t, call[t].op, "work", call[t].on, call[t].todo, <<>>)
    BY <1>2, <1>3, FieldOf DEF GInv
  <2> QED BY <1>1, <1>2, <2>1, IdleHands, TInvQuiet DEF GInv, TInv
<1>4. CASE Leave(t)
  BY <1>1, <1>2, <1>4, LeaveHands, TInvQuiet DEF GInv, TInv
<1> QED BY <1>3, <1>4 DEF Lock

LEMMA TInvNotSent ==
  ASSUME GInv, TInv, NEW t \in Threads, NotSent(t)
  PROVE  TInv'
<1>1. Sends(t) /\ cursor[t] = <<>> /\ Leave(t) /\ UNCHANGED <<region, calls>>
  BY DEF NotSent, HasCursor
<1>2. call[t].got = <<>>
  BY <1>1 DEF TInv, DrainingInv, Sends, Receives
<1> QED BY <1>1, <1>2, LeaveHands, TInvQuiet DEF GInv, TInv

LEMMA TInvReturn ==
  ASSUME GInv, TInv, NEW t \in Threads, Return(t)
  PROVE  TInv'
<1>1. call[t].pc = "return" /\ UNCHANGED <<region, calls>> /\ call' = [call EXCEPT ![t] = Idle]
  BY DEF Return
<1>2. cursor[t] = <<>> /\ call[t].got = <<>>
  BY <1>1, NothingFound
<1>3. Called(t, "none", "idle", "tx", <<>>, <<>>)
  BY <1>1, SetIdle DEF GInv
<1> QED BY <1>1, <1>2, <1>3, IdleHands, TInvQuiet DEF GInv, TInv

\* A step that finds a place in the ring and does no more.
LEMMA TInvFinds ==
  ASSUME TInv, NEW t \in Threads, NEW c, cursor' = [cursor EXCEPT ![t] = c],
         UNCHANGED <<call, slot, head, tail, sent, calls>>, Found(t, call[t].op, call[t].pc)'
  PROVE  TInv'
<1>1. QueueInv'
  BY DEF TInv, QueueInv
<1>2. DrainedInv'
  BY DrainedStays DEF TInv, Undisturbed
<1>3. FoundInv'
  BY DEF TInv, FoundInv, Found
<1>4. DrainingInv'
  BY DEF TInv, DrainingInv, Receives
<1> QED BY <1>1, <1>2, <1>3, <1>4 DEF TInv

LEMMA TInvClaim ==
  ASSUME TInv, NEW t \in Threads, Claim(t)
  PROVE  TInv'
<1>1. /\ call[t].pc = "work" /\ call[t].op \in {"send", "send_to"} /\ ~(head - tail >= Cap)
      /\ cursor' = [cursor EXCEPT ![t] = <<head>>]
      /\ UNCHANGED <<call, slot, head, tail, sent, calls>>
  BY DEF Claim, Sends, Full
<1>2. cursor'[t] = <<head>> /\ head < tail + Cap
  BY <1>1, ThreadsAssumption DEF TInv, FoundInv, QueueInv
<1>3. Found(t, call[t].op, call[t].pc)'
  BY <1>1, <1>2 DEF Found
<1> QED BY <1>1, <1>3, TInvFinds

LEMMA TInvLook ==
  ASSUME TInv, NEW t \in Threads, Look(t)
  PROVE  TInv'
<1>1. /\ call[t].pc = "work" /\ call[t].op \in {"recv", "receive_from", "collect"} /\ tail < head
      /\ cursor' = [cursor EXCEPT ![t] = <<tail>>]
      /\ UNCHANGED <<call, slot, head, tail, sent, calls>>
  BY DEF Look, Receives
<1>2. cursor'[t] = <<tail>>
  BY <1>1 DEF TInv, FoundInv
<1>3. Found(t, call[t].op, call[t].pc)'
  BY <1>1, <1>2 DEF Found
<1> QED BY <1>1, <1>3, TInvFinds

\* A send writes to a slot of no message that is still to be received.
LEMMA Pushed ==
  ASSUME QueueInv, head < tail + Cap, NEW m, sent' = Append(sent, m),
         slot' = [slot EXCEPT ![head % Cap] = Len(sent) + 1], head' = head + 1, UNCHANGED tail
  PROVE  QueueInv'
<1>1. PICK S : sent \in Seq(S)
  BY DEF QueueInv
<1>2. sent' \in Seq(S \cup {m}) /\ Len(sent') = head + 1 /\ head \in Nat /\ tail \in Nat /\ Cap \in Nat \ {0}
  BY <1>1, AppendAny, ThreadsAssumption DEF QueueInv
<1>3. head % Cap \in 0 .. Cap - 1
  BY <1>2
<1>4. slot'[head % Cap] = head + 1
  BY <1>3 DEF QueueInv
<1>5. ASSUME NEW p \in tail .. head - 1
      PROVE  slot'[p % Cap] = p + 1
  <2>1. p \in Nat /\ p < head /\ head < p + Cap
    BY <1>2
  <2>2. p % Cap # head % Cap
    BY <1>2, <2>1, WindowDistinct
  <2>3. p % Cap \in 0 .. Cap - 1
    BY <1>2, <2>1
  <2>4. slot[p % Cap] = p + 1
    BY DEF QueueInv
  <2> QED BY <2>2, <2>3, <2>4 DEF QueueInv
<1>6. \A p \in tail .. head' - 1 : slot'[p % Cap] = p + 1
  <2>1. tail' = tail /\ head' - 1 = head
    BY <1>2
  <2>2. ASSUME NEW p \in tail .. head
        PROVE  slot'[p % Cap] = p + 1
    <3>1. CASE p = head
      BY <1>4, <3>1
    <3>2. CASE p # head
      <4>1. p \in tail .. head - 1
        BY <1>2, <3>2
      <4> QED BY <1>5, <4>1
    <3> QED BY <3>1, <3>2
  <2> QED BY <2>1, <2>2
<1>7. DOMAIN slot' = 0 .. Cap - 1 /\ slot' = [i \in 0 .. Cap - 1 |-> slot'[i]]
  BY DEF QueueInv
<1>8. head' = Len(sent') /\ head' \in Nat /\ tail' \in Nat /\ tail' <= head' /\ head' <= tail' + Cap
  BY <1>2 DEF QueueInv
<1> QED BY <1>2, <1>6, <1>7, <1>8 DEF QueueInv

LEMMA TInvPush ==
  ASSUME GInv, TInv, NEW t \in Threads, Push(t)
  PROVE  TInv'
<1>1. call[t].pc = "work" /\ Sends(t) /\ cursor[t] # <<>> /\ UNCHANGED <<tail, calls>>
  BY DEF Push, HasCursor
<1>2. cursor[t] = <<head>> /\ head < tail + Cap
  BY <1>1 DEF TInv, FoundInv, Found, Sends
<1>3. call[t].got = <<>>
  BY <1>1 DEF TInv, DrainingInv, Sends, Receives
<1>4. Alone(t) /\ (\A u \in Threads : call'[u].got = call[u].got) /\ DrainingInv'
  <2>1. CASE Leave(t)
    BY <1>3, <2>1, LeaveHands DEF GInv, TInv
  <2>2. CASE call' = [call EXCEPT ![t].todo = Tail(@)]
    <3>1. call' = [call EXCEPT ![t].todo = Tail(call[t].todo)]
      BY <2>2 DEF GInv, Typed
    <3>2. Called(t, call[t].op, call[t].pc, call[t].on, Tail(call[t].todo), <<>>)
      BY <1>3, <3>1, FieldOf DEF GInv
    <3> QED BY <1>3, <3>2, IdleHands DEF GInv, TInv
  <2> QED BY <2>1, <2>2 DEF Push
<1>5. /\ sent' = Append(sent, Head(call[t].todo)) /\ cursor' = [cursor EXCEPT ![t] = <<>>]
      /\ slot' = [slot EXCEPT ![head % Cap] = Len(sent) + 1] /\ head' = head + 1
  BY <1>2 DEF Push
<1>6. QueueInv'
  BY <1>1, <1>2, <1>5, Pushed DEF TInv
<1>7. DrainedInv'
  BY <1>1, <1>4, DrainedStays DEF TInv, Undisturbed
<1>8. FoundInv'
  <2>1. cursor' = [u \in Threads |-> cursor'[u]] /\ cursor'[t] = <<>>
    BY <1>5 DEF TInv, FoundInv
  <2>2. ASSUME NEW u \in Threads, u # t
        PROVE  Found(u, call[u].op, call[u].pc)'
    <3>1. cursor'[u] = cursor[u] /\ call'[u] = call[u]
      BY <1>4, <1>5, <2>2 DEF TInv, FoundInv, Alone
    <3>2. ~(call[u].pc = "work" /\ call[u].op \in {"send", "send_to"})
      BY <1>1, <2>2, OneAtATime DEF Sends
    <3>3. cursor[u] = <<>>
          \/ /\ call[u].pc = "work" /\ call[u].op \in {"recv", "receive_from", "collect"}
             /\ cursor[u] = <<tail>> /\ tail < head
      BY <3>2 DEF TInv, FoundInv, Found
    <3>4. tail < head => tail' < head'
      BY <1>1, <1>5 DEF TInv, QueueInv
    <3> QED BY <1>1, <3>1, <3>3, <3>4 DEF Found
  <2> QED BY <2>1, <2>2 DEF FoundInv, Found
<1> QED BY <1>4, <1>6, <1>7, <1>8 DEF TInv

LEMMA TInvTake ==
  ASSUME GInv, TInv, NEW t \in Threads, Take(t)
  PROVE  TInv'
<1>1. /\ call[t].pc = "work" /\ Receives(t) /\ cursor[t] # <<>>
      /\ cursor' = [cursor EXCEPT ![t] = <<>>] /\ UNCHANGED <<slot, head, sent, calls>>
  BY DEF Take, HasCursor
<1>2. cursor[t] = <<tail>> /\ tail < head /\ tail \in Nat /\ head \in Nat
  BY <1>1 DEF TInv, FoundInv, Found, QueueInv, Receives
<1>3. slot[tail % Cap] = tail + 1 /\ tail' = tail + 1
  <2>1. tail \in tail .. head - 1
    BY <1>2
  <2>2. slot[tail % Cap] = tail + 1
    BY <2>1 DEF TInv, QueueInv
  <2>3. tail' = cursor[t][1] + 1
    BY DEF Take
  <2> QED BY <1>2, <2>2, <2>3
<1> DEFINE g == Append(call[t].got, tail + 1)
<1>4. Called(t, call[t].op, call[t].pc, call[t].on, call[t].todo, g)
  <2>1. cursor[t][1] = tail
    BY <1>2
  <2>2. slot[cursor[t][1] % Cap] = tail + 1
    BY <1>3, <2>1
  <2>3. call' = [call EXCEPT ![t].got = g]
    BY <2>2 DEF Take
  <2> HIDE DEF g
  <2> QED BY <2>3, FieldOf DEF GInv
<1> HIDE DEF g
<1>5. call'[t].got = g /\ call'[t].pc = "work" /\ call'[t].op = call[t].op /\ Alone(t)
  BY <1>1, <1>4, CalledGot DEF GInv, Alone
<1>6. QueueInv'
  <2>1. ASSUME NEW p \in tail' .. head' - 1
        PROVE  slot'[p % Cap] = p + 1
    <3>1. p \in tail .. head - 1
      BY <1>1, <1>2, <1>3
    <3>2. slot[p % Cap] = p + 1
      BY <3>1 DEF TInv, QueueInv
    <3> QED BY <1>1, <3>2
  <2>2. tail' \in Nat /\ tail' <= head' /\ head' <= tail' + Cap
    BY <1>1, <1>2, <1>3, ThreadsAssumption DEF TInv, QueueInv
  <2> QED BY <1>1, <2>1, <2>2 DEF TInv, QueueInv
<1>7. DrainedInv'
  <2>1. call'[t].got = Append(call[t].got, tail + 1)
    BY <1>5 DEF g
  <2> QED BY <1>1, <1>2, <1>3, <1>5, <2>1, DrainedOne DEF TInv, Alone
<1>8. DrainingInv'
  BY <1>1, <1>5 DEF TInv, DrainingInv, Receives, Alone
<1>9. FoundInv'
  <2>1. cursor' = [u \in Threads |-> cursor'[u]] /\ cursor'[t] = <<>>
    BY <1>1 DEF TInv, FoundInv
  <2>2. ASSUME NEW u \in Threads, u # t
        PROVE  Found(u, call[u].op, call[u].pc)'
    <3>1. cursor'[u] = cursor[u] /\ call'[u] = call[u]
      BY <1>1, <1>5, <2>2 DEF TInv, FoundInv, Alone
    <3>2. ~(call[u].pc = "work" /\ call[u].op \in {"recv", "receive_from", "collect"})
      BY <1>1, <2>2, OneAtATime DEF Receives
    <3>3. cursor[u] = <<>>
          \/ /\ call[u].pc = "work" /\ call[u].op \in {"send", "send_to"}
             /\ cursor[u] = <<head>> /\ head < tail + Cap
      BY <3>2 DEF TInv, FoundInv, Found
    <3>4. head < tail + Cap => head' < tail' + Cap
      BY <1>1, <1>2, <1>3, ThreadsAssumption
    <3> QED BY <1>1, <3>1, <3>3, <3>4 DEF Found
  <2> QED BY <2>1, <2>2 DEF FoundInv, Found
<1> QED BY <1>6, <1>7, <1>8, <1>9 DEF TInv

LEMMA TInvFinish ==
  ASSUME GInv, TInv, NEW t \in Threads, Finish(t)
  PROVE  TInv'
<1>1. Receives(t) /\ cursor[t] = <<>> /\ Leave(t) /\ UNCHANGED region
  BY DEF Finish, HasCursor
<1>2. PICK c : c.got = call[t].got /\ calls' = Append(calls, c)
  <2> DEFINE messages == [i \in DOMAIN call[t].got |-> sent[call[t].got[i]]]
             came == IF call[t].op = "recv" THEN [ok |-> call[t].got # <<>>, out |-> messages]
                     ELSE Incoming(program, messages)
  <2>1. calls' = Append(calls, [op |-> call[t].op, got |-> call[t].got, came |-> came])
    BY DEF Finish
  <2> HIDE DEF came
  <2> QED BY <2>1
<1>3. Called(t, "none", "idle", "tx", <<>>, <<>>)
  BY <1>1, LeaveOf DEF GInv, HoldsGil, Receives
<1>4. call'[t].got = <<>> /\ Alone(t)
  BY <1>3, CalledGot DEF GInv, Alone
<1>5. QueueInv'
  BY <1>1 DEF TInv, QueueInv, region
<1>6. DrainedInv'
  BY <1>1, <1>2, <1>4, DrainedAll DEF TInv, QueueInv, Alone, region
<1>7. DrainingInv'
  BY <1>4 DEF TInv, DrainingInv, Receives, Alone
<1>8. FoundInv'
  BY <1>1, <1>4 DEF TInv, FoundInv, Found, Alone, region
<1> QED BY <1>5, <1>6, <1>7, <1>8 DEF TInv

LEMMA TInvNext == GInv /\ TInv /\ [ThreadsNext]_threadVars => TInv'
<1> SUFFICES ASSUME GInv, TInv, [ThreadsNext]_threadVars PROVE TInv'
  OBVIOUS
<1>1. CASE UNCHANGED <<call, region, calls>>
  <2>1. QueueInv' /\ FoundInv'
    BY <1>1 DEF TInv, QueueInv, FoundInv, Found, region
  <2>2. DrainedInv'
    BY <1>1, DrainedStays DEF TInv, Undisturbed, region
  <2>3. DrainingInv'
    BY <1>1 DEF TInv, DrainingInv, Receives
  <2> QED BY <2>1, <2>2, <2>3 DEF TInv
<1>2. CASE UNCHANGED threadVars
  BY <1>1, <1>2 DEF threadVars
<1>3. CASE Open
  BY <1>1, <1>3 DEF Open
<1>4. ASSUME NEW t \in Threads, Thread(t)
      PROVE  TInv'
  <2>1. CASE Choose(t)
    BY <2>1, TInvChoose
  <2>2. CASE Begin(t)
    BY <2>2, TInvBegin
  <2>3. CASE Lock(t)
    BY <2>3, TInvLock
  <2>4. CASE Claim(t)
    BY <2>4, TInvClaim
  <2>5. CASE Push(t)
    BY <2>5, TInvPush
  <2>6. CASE NotSent(t)
    BY <2>6, TInvNotSent
  <2>7. CASE Look(t)
    BY <2>7, TInvLook
  <2>8. CASE Take(t)
    BY <2>8, TInvTake
  <2>9. CASE Finish(t)
    BY <2>9, TInvFinish
  <2>10. CASE Return(t)
    BY <2>10, TInvReturn
  <2> QED BY <1>4, <2>1, <2>2, <2>3, <2>4, <2>5, <2>6, <2>7, <2>8, <2>9, <2>10 DEF Thread
<1> QED BY <1>2, <1>3, <1>4 DEF ThreadsNext

\* Every message written to the ring is still in its slot or was drained by one
\* call, returned or not, and each call drained in the order sent: a send finds
\* its slot and writes it later, a receive finds its message and takes it later,
\* and GIL, mutexes and borrows keep two sends, and two receives, from crossing,
\* for any number of threads on one handle or each on its own, however their
\* pipelines end.
THEOREM EveryMessageHasOneTaker == ThreadsSpec => []MessagesTransferred
<1>1. ThreadsInit => TInv
  BY TInvInit
<1>2. GInv /\ TInv /\ [ThreadsNext]_threadVars => TInv'
  BY TInvNext
<1>3. TInv => MessagesTransferred
  BY TInvTransfers
<1> QED BY GInvHolds, <1>1, <1>2, <1>3, PTL DEF ThreadsSpec
=============================================================================
