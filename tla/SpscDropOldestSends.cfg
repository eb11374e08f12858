CONSTANTS
  Cap = 2
  Sizes <- OneSlot
  MaxSends = 4
  Strategies = {"DropOldest"}
  GraceEnds = FALSE
SPECIFICATION Spec
INVARIANTS DropOldestSucceeds
