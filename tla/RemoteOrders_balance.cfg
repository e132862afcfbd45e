CONSTANTS
  Clients = {c1, c2}
  Robots = {r1, r2}
  Orders = {o1, o2}
  None = none
  Prices = {3}
  Opening = 1
  Credit = 3
  Discount = 50
  TopUps = {2}
  MaxTopUps = 1
  Patient = {c1}
  FaultKinds <- AllFaults
  MaxFaults = 1
SPECIFICATION Spec
INVARIANTS TypeOK PatientMinus NeverOvercharged EveryDrinkIsPaid
SYMMETRY OrderSymmetry
CHECK_DEADLOCK FALSE
