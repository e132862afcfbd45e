CONSTANTS
  Devices = {d1}
  Pages = {a1}
  MaxMessages = 2
  MaxAnswers = 2
  FaultKinds <- AllFaults
  MaxFaults = 0
SPECIFICATION Spec
PROPERTY EmptyReplyOnlyReads
CHECK_DEADLOCK FALSE
