CONSTANTS
  Cap = 3
  Sizes <- Chunked
  MaxSends = 4
  Strategies = {"Raise", "Block", "DropNewest"}
  GraceEnds = FALSE
SPECIFICATION FairSpec
INVARIANTS TypeOK CountedIsReadable RecvNeverFaults
PROPERTIES FifoImplemented BlockedSendEnds AcceptedIsReceived
