CONSTANTS
  States = {nominal, client}
  Invalid = invalid
  Capacity = 2
  MaxSent = 3
  FaultKinds <- AllFaults
  MaxFaults = 2
SPECIFICATION Spec
INVARIANTS TypeOK ViewAgrees BarShowsTheView
CHECK_DEADLOCK FALSE
