----------------------------- MODULE MCZeroCopy -----------------------------
(***************************************************************************)
(* Small instances of ZeroCopy for TLC: the scenarios a run explores.      *)
(***************************************************************************)
EXTENDS ZeroCopy

Scenario(sends, held, aborts, copens, ckill, threads) ==
  [sends |-> sends, leases |-> held, aborts |-> aborts, copens |-> copens,
   ckill |-> ckill, threads |-> threads]

\* Leases and aborts; a consumer killed with views held and while releasing
\* one; a view released while another thread receives.
Borrowed ==
  {Scenario(4, 2, 1, 1, {}, FALSE),
   Scenario(5, 1, 0, 2, {"idle", "gate"}, FALSE),
   Scenario(5, 0, 0, 1, {}, TRUE)}
=============================================================================
