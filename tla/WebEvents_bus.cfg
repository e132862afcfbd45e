CONSTANTS
  Socks = {s1, s2}
  None = none
  Buffer = 1
  Rooms = {0, 2}
  MaxEvents = 2
SPECIFICATION FairSpec
INVARIANTS TypeOK TableListsTheOpen CalmPublication NobodyLooks
PROPERTY LostIsForgotten
CHECK_DEADLOCK FALSE
