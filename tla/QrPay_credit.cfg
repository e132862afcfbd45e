CONSTANTS
  Orders = {o1}
  Handlers = {h1}
  Reader = reader
  None = none
  Price = 2
  Notified <- AllNotified
  RobotSays <- RobotWords
  FaultKinds = {}
  MaxFaults = 0
SPECIFICATION Spec
INVARIANT RefundedMeansNoCredit
SYMMETRY QrSymmetry
CHECK_DEADLOCK FALSE
