CONSTANTS
  Devices = {d1}
  Pages = {a1}
  MaxMessages = 2
  MaxAnswers = 2
  FaultKinds <- AllFaults
  MaxFaults = 1
SPECIFICATION FairSpec
INVARIANTS TypeOK ReadWasShown TopUpsAreTold
PROPERTIES AnswersAreShown MessagesAreShown
CHECK_DEADLOCK FALSE
