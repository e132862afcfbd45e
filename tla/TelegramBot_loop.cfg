CONSTANTS
  Clients = {admin, client, foe}
  Admin = admin
  Client = client
  Foe = foe
  Banned = {foe}
  None = none
  Numbers = {1, 2}
  Says <- SmallTalk
  MaxMessages = 3
  FaultKinds <- AllFaults
  MaxFaults = 1
SPECIFICATION FairSpec
INVARIANTS TypeOK TopUpsFollowTheChat NumberIsSpentOnce OneRowPerClient EndsInOrder
PROPERTIES EveryUpdateIsHandled
CHECK_DEADLOCK FALSE
ACTION_CONSTRAINTS Bound PollsFirst
