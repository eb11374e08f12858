----------------------------- MODULE MCRegionInit -----------------------------
(***************************************************************************)
(* Small instances of RegionInit for TLC: the scenarios a run explores.    *)
(***************************************************************************)
EXTENDS RegionInit, Sequences

Processes == 1 .. 3
All(x) == [p \in Processes |-> x]

Base ==
  [op |-> All("create_or_open"), cap |-> All(2), multi |-> All(FALSE), senders |-> {1},
   sends |-> 2, opens |-> All(2), kill |-> {}, slow |-> FALSE, stale |-> FALSE,
   section |-> FALSE, left |-> "nothing"]

\* Three processes that agree, on a file and on a section, with restarts.
Agreeing == {[Base EXCEPT !.section = b] : b \in BOOLEAN}

\* Killed processes, several producers, a wrong mode, a wrong capacity, waits
\* that end too early, a region left by another build or by a dead creator.
Disagreeing ==
  {[Base EXCEPT !.section = b, !.multi = <<TRUE, TRUE, m>>, !.senders = {1, 2}, !.sends = 1,
                !.opens = All(1), !.kill = {1, 3}, !.cap[3] = IF m THEN 3 ELSE 1, !.slow = m] :
     b \in BOOLEAN, m \in BOOLEAN}
  \cup {[Base EXCEPT !.left = l, !.op[3] = "open"] : l \in {"unfinished", "older"}}

\* create beside open and create_or_open; a section whose flag is wrong.
Duplicating ==
  {[Base EXCEPT !.section = b, !.op = <<"create_or_open", "open", "create">>,
                !.cap[2] = 3, !.cap[3] = c, !.sends = 1,
                !.opens = All(1)] : b \in BOOLEAN, c \in 2 .. 3}
  \cup {[Base EXCEPT !.section = TRUE, !.stale = TRUE, !.sends = 1, !.opens = <<2, 1, 1>>],
        [Base EXCEPT !.section = TRUE, !.op[2] = "create", !.sends = 1, !.opens = All(1)]}

Openings == Agreeing \cup Disagreeing \cup Duplicating
=============================================================================
