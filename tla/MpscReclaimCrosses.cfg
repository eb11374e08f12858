CONSTANTS
  Producers = {p1, p2}
  NoOne = none
  Victim = p1
  Cap = 3
  Scenarios <- KilledChunked
SPECIFICATION Spec
INVARIANTS ReservationsInWindow
