SPECIFICATION FairSpec
CHECK_DEADLOCK FALSE
CONSTANTS
  Procs <- Processes
  Slots = 3
  Scenarios <- Openings
INVARIANTS TypeOK MessagesSurvive ReadyIsInitialised PositionRecovered
PROPERTY EveryoneConnects
