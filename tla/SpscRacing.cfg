CONSTANTS
  Cap = 2
  Sizes <- Chunked
  MaxSends = 4
  Strategies = {"Raise", "Block", "DropNewest", "DropOldest"}
  GraceEnds = TRUE
SPECIFICATION Spec
INVARIANTS ClaimFindsFree CursorsConsistent ReaderUndisturbed ReceivedWasSent
PROPERTIES SlotLifecycle
