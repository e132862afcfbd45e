CONSTANTS
  Sales = {s1, s2}
  Workers = {w1, w2}
  NoWorker = nobody
  Methods <- AllMethods
  FaultKinds <- AllFaults
  MaxFaults = 2
  MaxHelp = 1
SPECIFICATION FairSpec
INVARIANTS TypeOK OneOwner ReceiptsAreFinal
PROPERTIES LedgerSpec EveryJobIsDecided
CHECK_DEADLOCK FALSE
