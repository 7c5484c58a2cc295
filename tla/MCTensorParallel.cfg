SPECIFICATION FairTPSpec
CONSTANTS
  WorkerNum = 3
  LayerNum = 3
  RoundNum = 2
INVARIANTS TPTypeOK SumIsComplete AtMostOneAhead NobodyPassesAFailure
PROPERTIES DoneIsKept EveryRoundEnds
