CONSTANTS
  Links = {k1, k2}
  Logins = {l1, l2}
  Browsers = {b1, b2}
  Endpoints = {e1, e2}
  None = none
  Limit = 1
  MaxRounds = 2
  FaultKinds <- AllFaults
  MaxFaults = 1
SPECIFICATION Spec
INVARIANTS TypeOK OneSessionPerLink WithinLimitButOverlaps SilencedOnlyIfMisled
SYMMETRY SessionSymmetry
ACTION_CONSTRAINT FewPosts
CHECK_DEADLOCK FALSE
