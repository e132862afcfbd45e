CONSTANTS
  Orders = {o1}
  Handlers = {h1, h2}
  Reader = reader
  None = none
  Price = 2
  Notified <- AllNotified
  RobotSays <- RobotWords
  FaultKinds = {}
  MaxFaults = 0
SPECIFICATION Spec
INVARIANTS KeptMoneyIsOnTheBooks ReturnedIsOnRecord
PROPERTY DecidedStaysDecided
SYMMETRY QrSymmetry
CHECK_DEADLOCK FALSE
