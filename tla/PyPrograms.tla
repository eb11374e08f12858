------------------------------ MODULE PyPrograms ------------------------------
(***************************************************************************)
(* A Python program: it writes expressions, builds a pipeline of them and  *)
(* of other operators, opens a channel and runs its threads on the two.    *)
(***************************************************************************)
EXTENDS Pipelines, PyThreads

CONSTANTS
  Tokens,     \* tokens of the expressions written
  MaxText,    \* length of an expression (bound)
  Texts,      \* the expressions that become stages (bound)
  Stages,     \* the other operators a pipeline is built of
  MaxStages   \* length of a pipeline (bound)

VARIABLES
  text,   \* the expression being written
  ops     \* PyPipeline.ops

building == <<text, ops>>
pyVars == <<building, threadVars>>

PyInit == text = <<>> /\ ops = <<>> /\ ThreadsInit

-----------------------------------------------------------------------------
(* What the pipeline and the channel hand each other *)

\* str(item): a number's text is read back as that number.
Str(o) == IF o.kind = "float" THEN o ELSE Text(<<"w">>)
\* push_parsed_item: a message that is no number is kept as text, an empty one skipped.
ParseItem(m) == IF m = Text(<<>>) THEN <<>> ELSE <<m>>

\* send_to sends the text of what came out; receive_from and collect read items.
SentAs(stages, source) ==
  LET results == Collect(stages, source)
  IN [results EXCEPT !.out = [i \in DOMAIN @ |-> Str(@[i])]]
MadeOf(stages, messages) ==
  Collect(stages, FlattenSeq([i \in DOMAIN messages |-> ParseItem(messages[i])]))

-----------------------------------------------------------------------------
(* Building the pipeline *)

\* The pipeline is complete before the channel is opened.
NotRunning == via = Unopened

Write ==
  /\ NotRunning /\ ops = <<>> /\ Len(text) < MaxText
  /\ \E A \in Tokens : \E t \in A :
       (\A i \in DOMAIN text : text[i] \in A) /\ text' = Append(text, t)
  /\ UNCHANGED <<ops, threadVars>>

\* filter_expr and map_expr: PipelineBuildError leaves the pipeline as it was.
AddExpr ==
  /\ NotRunning /\ text \in Texts /\ Len(ops) < MaxStages
  /\ LET p == ParseExpr(text)
     IN \E kind \in {"filter_expr", "map_expr"} :
          ops' = IF p.ok THEN Append(ops, <<kind, p.e>>) ELSE ops
  /\ text' = <<>>
  /\ UNCHANGED threadVars

\* filter_py .. select; a batch of no items is refused.
AddStage ==
  /\ NotRunning /\ text = <<>> /\ Len(ops) < MaxStages
  /\ \E s \in Stages :
       ops' = IF s = <<"batch", 0>> THEN ops ELSE Append(ops, s)
  /\ UNCHANGED <<text, threadVars>>

\* The channel is opened with the pipeline built.
OpenWithPipeline == Open /\ text = <<>> /\ program' = ops /\ UNCHANGED building

PyNext ==
  \/ Write \/ AddExpr \/ AddStage \/ OpenWithPipeline
  \/ \E t \in Threads : Thread(t) /\ UNCHANGED building

-----------------------------------------------------------------------------
(* Properties *)

\* The pipeline, run item by item, gives what its stages give one after the
\* other over the whole source, for the Python collect and the Rust run; and so
\* it does with the messages a call drains, numbers as numbers: that is what the
\* call returns, or that it fails.
StagesCompose ==
  LET Inputs(got) == SelectSeq([i \in DOMAIN got |-> sent[got[i]]], LAMBDA o : o # Text(<<>>))
  IN /\ \A source \in Sources :
          LET items == Together([i \in DOMAIN source |-> FromPy(source[i])])
          IN /\ Collect(ops, source) = StageByStage(ops, source)
             /\ items.ok /\ (\A i \in DOMAIN ops : ops[i][1] # "batch") =>
                  Run(ops, items.out) = StageByStage(ops, source)
     /\ \A c \in DOMAIN calls :
          calls[c].op # "recv" => calls[c].came = StageByStage(ops, Inputs(calls[c].got))

\* The parser gives every expression of the grammar its one tree and takes
\* nothing else but what Beyond allows; Display is read back as it was.
ExpressionsMeetGrammar == MeetsGrammar(text)
=============================================================================
