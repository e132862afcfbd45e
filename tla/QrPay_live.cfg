CONSTANTS
  Orders = {o1}
  Handlers = {h1}
  Reader = reader
  None = none
  Price = 2
  Notified = {"Confirmed", "Expired"}
  RobotSays = {"cancel"}
  FaultKinds <- AllFaults
  MaxFaults = 1
SPECIFICATION FairSpec
INVARIANTS TypeOK OnlyPaidOrdersAreMade CreditedIsPaid
PROPERTIES PaidIsMadeOrReturned NoOrderIsForgotten
CHECK_DEADLOCK FALSE
