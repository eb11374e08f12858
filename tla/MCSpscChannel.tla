--------------------------- MODULE MCSpscChannel ---------------------------
(***************************************************************************)
(* Small instances of SpscChannel for TLC: the sizes a run sends.          *)
(***************************************************************************)
EXTENDS SpscChannel

OneSlot   == {1}                \* messages that fit a slot
Chunked   == {1, Cap, Cap + 1}  \* one frame, the whole ring in chunks, too large
============================================================================
