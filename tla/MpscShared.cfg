CONSTANTS
  Producers = {p1, p2}
  NoOne = none
  Victim = p1
  Cap = 2
  Scenarios <- Mixed
SPECIFICATION FairSpec
INVARIANTS TypeOK ReservationsDisjoint ReceivedOnceInOrder CommittedKept
PROPERTIES WriterUndisturbed CommittedIsReceived SendReturns
