CONSTANTS
  Cap = 3
  Sizes <- Chunked
  MaxSends = 3
  Strategies = {"Raise"}
  GraceEnds = FALSE
SPECIFICATION Spec
INVARIANTS ChunksVisibleTogether
