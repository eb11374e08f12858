----------------------------- MODULE MCDataflow -----------------------------
(***************************************************************************)
(* A small program for TLC: expressions of a few tokens, short pipelines,  *)
(* three threads that make Calls calls between them, and an in-process     *)
(* ring.  The ring shares nothing with the rest, so a behaviour is about   *)
(* one of the two.                                                         *)
(***************************************************************************)
EXTENDS PyPrograms, FrameRing

ThreadSymmetry == Permutations(Threads)

\* Every operator level, and what nests: an expression is of one alphabet.
Alphabets == {{"1", "x", "or", "and", "<", "+", "*"}, {"X", "inf", "-", "not", "<", "(", ")"}}
SomeTexts == {<<"x", "<", "2">>, <<"2", "/", "X">>, <<"x", "<">>}
SomeStages ==
  {<<"filter_py", "itself">>, <<"map_py", "size">>, <<"map_py", "twice">>, <<"map_py", "text">>,
   <<"map_py_batch", "twice">>, <<"filter_py_batch", "itself">>,
   <<"batch", 0>>, <<"batch", 2>>, <<"batch", 3>>, <<"select", {"x"}>>}
\* A pipeline that keeps numbers, one that fails on what it does not know.
SomePrograms == {<<>>, <<<<"batch", 2>>, <<"map_py", "size">>>>}
SomeMessages == {Num(1), Text(<<"w">>)}
SomeSources ==
  LET d == Dict("x" :> <<2, 1>> @@ "y" :> <<>> @@ "z" :> <<1, 1>>)
  IN {<<Num(0), Num(1), Num(2)>>, <<d, Num(2), Num(0), d, Dict("y" :> <<>>)>>,
      <<Num(1), Text(<<"w">>)>>}

Init == PyInit /\ RingInit
Next ==
  \/ PyNext /\ policy = "Raise" /\ result = <<"none", "none">> /\ spoiled = {} /\ UNCHANGED ringVars
  \/ RingNext /\ text = <<>> /\ ops = <<>> /\ via = Unopened /\ UNCHANGED pyVars
Spec == Init /\ [][Next]_<<pyVars, ringVars>>
=============================================================================
