CONSTANTS
  Cap = 3
  Scenarios <- Restarts
SPECIFICATION FairSpec
INVARIANTS TypeOK ReceivedInOrder ClaimFindsFree PositionRecovered
PROPERTIES WriterUndisturbed CommittedIsReceived
CHECK_DEADLOCK FALSE
