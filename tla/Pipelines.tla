------------------------------ MODULE Pipelines ------------------------------
(***************************************************************************)
(* Pipelines of operators over items, in the Python binding and in Rust.   *)
(*                                                                         *)
(* An item is a number, a dict of numbers or a batch of items; a Python    *)
(* object is one of these (a list is a batch) or a text, and a column of a *)
(* dict may hold <<>>, which is not a number.  Python callables are        *)
(* external: a few stand for all.  What may fail gives [ok, out], with out *)
(* the sequence of what came of it: nothing when a filter drops an item.   *)
(***************************************************************************)
EXTENDS Expressions, SequencesExt, FiniteSetsExt

Float(n) == [kind |-> "float", v |-> n]
Dict(columns) == [kind |-> "dict", v |-> columns]
Batch(items) == [kind |-> "batch", v |-> items]
Text(t) == [kind |-> "text", v |-> t]
Num(n) == Float(<<n, 1>>)

Done(out) == [ok |-> TRUE, out |-> out]
Error == [ok |-> FALSE, out |-> <<>>]

Drop(m, keys) == [k \in DOMAIN m \ keys |-> m[k]]

\* Item::from_py: columns that are not numbers are skipped.
FromPy(o) ==
  CASE o.kind = "float" -> Done(<<o>>)
    [] o.kind = "dict" -> Done(<<Dict(Drop(o.v, {k \in DOMAIN o.v : o.v[k] = <<>>}))>>)
    [] OTHER -> Error

\* as_record: a number is its column x, a batch has no columns.
AsRecord(item) ==
  CASE item.kind = "float" -> "x" :> item.v
    [] item.kind = "dict" -> item.v
    [] OTHER -> <<>>

Truthy(o) ==
  CASE o.kind = "float" -> ~Zero(o.v)
    [] o.kind = "dict" -> DOMAIN o.v # {}
    [] OTHER -> o.v # <<>>

\* Callables: twice a number, the size of a container, the object, its text.
Call(f, o) ==
  CASE f = "twice" -> IF o.kind = "float" THEN Done(<<Float(<<2 * o.v[1], o.v[2]>>)>>) ELSE Error
    [] f = "size" -> IF o.kind = "float" THEN Error ELSE Done(<<Num(Cardinality(DOMAIN o.v))>>)
    [] f = "itself" -> Done(<<o>>)
    [] f = "text" -> Done(<<Text(<<"w">>)>>)

-----------------------------------------------------------------------------
(* One operator, and the operators in a row *)

\* Nothing goes on to the next operator.
Ends(result) == ~result.ok \/ result.out = <<>>
\* The results of a sequence of items, in their order; one error fails it all.
Together(results) ==
  IF \A i \in DOMAIN results : results[i].ok
  THEN Done(FlattenSeq([i \in DOMAIN results |-> results[i].out])) ELSE Error

MapPy(f, item) ==
  LET called == Call(f, item) IN IF Ends(called) THEN called ELSE FromPy(called.out[1])
FilterPy(f, item) ==
  LET called == Call(f, item)
  IN IF Ends(called) THEN called ELSE Done(IF Truthy(called.out[1]) THEN <<item>> ELSE <<>>)
\* MapPyBatch and FilterPyBatch: per element of a batch, else on the item.
PerElement(kind, f, item) ==
  LET One(it) == IF kind = "map_py_batch" THEN MapPy(f, it) ELSE FilterPy(f, it)
      all == Together([i \in DOMAIN item.v |-> One(item.v[i])])
  IN IF item.kind # "batch" THEN One(item)
     ELSE IF all.ok THEN Done(<<Batch(all.out)>>) ELSE Error

Select(columns, item) ==
  IF item.kind = "dict" THEN Dict(Drop(item.v, DOMAIN item.v \ columns)) ELSE item

\* An operator is <<kind, argument>>.
Operate(op, item) ==
  CASE op[1] = "filter_expr" -> Done(IF Keeps(op[2], AsRecord(item)) THEN <<item>> ELSE <<>>)
    [] op[1] = "map_expr" -> Done(<<Float(Mapped(op[2], AsRecord(item)))>>)
    [] op[1] = "filter_py" -> FilterPy(op[2], item)
    [] op[1] = "map_py" -> MapPy(op[2], item)
    [] op[1] \in {"filter_py_batch", "map_py_batch"} -> PerElement(op[1], op[2], item)
    [] op[1] = "select" -> Done(<<Select(op[2], item)>>)
    [] op[1] = "batch" -> Done(<<item>>)

RunOps(ops, item) ==
  FoldLeft(LAMBDA result, op : IF Ends(result) THEN result ELSE Operate(op, result.out[1]),
           Done(<<item>>), ops)

-----------------------------------------------------------------------------
(* collect *)

\* Mutant: what is left in the buffer at the end is forgotten.
ForgetsTrailing(post, at) == Done(at.results)
\* Flush the trailing partial batch.
Flushed(post, at) ==
  IF at.buf = <<>> THEN Done(at.results)
  ELSE LET last == RunOps(post, Batch(at.buf))
       IN IF last.ok THEN Done(at.results \o last.out) ELSE Error

\* The operators before the first batch run per item, those after it per batch.
Collect(ops, source) ==
  LET batches == {i \in DOMAIN ops : ops[i][1] = "batch"}
      b == IF batches = {} THEN Len(ops) + 1 ELSE Min(batches)
      pre == SubSeq(ops, 1, b - 1)
      post == SubSeq(ops, b + 1, Len(ops))
      Buffered(at, item) ==
        LET buf == Append(at.buf, item)
            full == batches # {} /\ Len(buf) >= ops[b][2]
            last == RunOps(post, IF full THEN Batch(buf) ELSE item)
        IN IF batches # {} /\ ~full THEN [at EXCEPT !.buf = buf]
           ELSE [at EXCEPT !.ok = last.ok, !.results = @ \o last.out, !.buf = <<>>]
      Next(at, o) ==
        LET from == FromPy(o)
            passed == IF Ends(from) THEN from ELSE RunOps(pre, from.out[1])
        IN IF ~at.ok \/ ~passed.ok THEN [at EXCEPT !.ok = FALSE]
           ELSE IF passed.out = <<>> THEN at ELSE Buffered(at, passed.out[1])
      end == FoldLeft(Next, [ok |-> TRUE, buf |-> <<>>, results |-> <<>>], source)
  IN IF end.ok THEN Flushed(post, end) ELSE Error

\* Pipeline::pipe and run, over filter_expr, map_expr and closures: every
\* output of the operators so far goes through the next one, item by item.
Pipe(prev, op) ==
  IF prev.ok THEN Together([i \in DOMAIN prev.out |-> Operate(op, prev.out[i])]) ELSE Error
Run(ops, source) ==
  Together([i \in DOMAIN source |-> FoldLeft(Pipe, Done(<<source[i]>>), ops)])

-----------------------------------------------------------------------------
(* What a pipeline promises: its operators in order, each over the whole   *)
(* list, the first batch cutting it into lists of its size, the last one   *)
(* as long as what is left.                                                *)

Cut(list, n) ==
  [i \in 1 .. (Len(list) + n - 1) \div n |->
    Batch(SubSeq(list, (i - 1) * n + 1, Min({i * n, Len(list)})))]

StageByStage(ops, source) ==
  LET Over(list, i) ==
        IF ops[i][1] = "batch"
        THEN Done(IF \E j \in 1 .. i - 1 : ops[j][1] = "batch" THEN list ELSE Cut(list, ops[i][2]))
        ELSE Together([k \in DOMAIN list |-> Operate(ops[i], list[k])])
      from == Together([k \in DOMAIN source |-> FromPy(source[k])])
  IN FoldLeft(LAMBDA at, i : IF at.ok THEN Over(at.out, i) ELSE Error,
              from, [i \in DOMAIN ops |-> i])
=============================================================================
