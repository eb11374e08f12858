--------------------------- MODULE MCSpscRecovery ---------------------------
(***************************************************************************)
(* Small instances of SpscRecovery for TLC: the scenarios a run explores.  *)
(***************************************************************************)
EXTENDS SpscRecovery

InSend == {"claim", "mark", "stamp", "fill", "commit"}

Scenario(sizes, sends, opens, kill, copens, ckill, quiet) ==
  [sizes |-> sizes, sends |-> sends, opens |-> opens, copens |-> copens,
   kill |-> kill, ckill |-> ckill, quiet |-> quiet]

\* One-slot messages and a producer restarted twice; chunked messages and a
\* restart; restarts of the consumer beside a killed producer.
Restarts ==
  {Scenario({1}, 4, 3, InSend \cup {"idle", "publish"}, 1, {}, TRUE),
   Scenario({1, 2}, 4, 2, InSend \cup {"publish"}, 1, {}, TRUE),
   Scenario({1}, 3, 2, InSend, 2, {"idle", "gate", "copy"}, TRUE)}

\* A producer that ends between two sends, and its successor, beside a
\* consumer that may be in the middle of a call.
Handover == {Scenario({1}, 2, 2, {"idle"}, 1, {}, FALSE)}
=============================================================================
