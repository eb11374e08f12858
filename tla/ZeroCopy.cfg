CONSTANTS
  Cap = 3
  FloorTries = 2
  Scenarios <- Borrowed
SPECIFICATION FairSpec
INVARIANTS TypeOK FloorIsLowestPin ClaimFindsFree ReceivedInOrder
PROPERTIES HeldSlotsStable AllIsReceived
CHECK_DEADLOCK FALSE
