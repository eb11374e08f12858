CONSTANTS
  Cap = 2
  Scenarios <- Handover
SPECIFICATION Spec
INVARIANTS NumbersAgree
