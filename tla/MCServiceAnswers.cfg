SPECIFICATION FairServiceSpec
CONSTANTS
  r1 = r1
  r2 = r2
  r3 = r3
  Requests = {r1, r2}
  MaxQueryId = 3
  MaxProcId = 3
  MaxTokenNum = 3
  NetType = "decoder_only"
  EncLens = {0}
  DecLens = {1}
  OutLimits <- LimitOneOrNone
  MaxConcurrentQueries = 2
  MaxContextLen = 3
  MaxOutputLen = 100
  MayFailCompute = FALSE
  Streaming = {}
  FlushLen = 2
  SplitPositions = {2}
  MayGiveUp = FALSE
  MayTimeout = FALSE
  MayFailWrite = FALSE
INVARIANTS ServiceTypeOK NothingUndefined QuiescentClean
PROPERTIES ImplementsTextService EveryRequestAnswered
