CONSTANTS
  Clients = {c1}
  Robots = {r1}
  Orders = {o1, o2}
  None = none
  Prices = {2, 3}
  Opening = 1
  Credit = 3
  Discount = 50
  TopUps = {2}
  MaxTopUps = 1
  Patient = {}
  FaultKinds = {}
  MaxFaults = 0
SPECIFICATION Spec
INVARIANTS MinusWithinCredit
CHECK_DEADLOCK FALSE
