SPECIFICATION FairServiceSpec
CONSTANTS
  r1 = r1
  r2 = r2
  r3 = r3
  Requests = {r1, r2}
  MaxQueryId = 3
  MaxProcId = 3
  MaxTokenNum = 3
  NetType = "decoder_only"
  EncLens = {0}
  DecLens = {1}
  OutLimits <- NoLimit
  MaxConcurrentQueries = 2
  MaxContextLen = 3
  MaxOutputLen = 100
  MayFailCompute = TRUE
  Streaming = {r2}
  FlushLen = 2
  SplitPositions = {1}
  MayGiveUp = TRUE
  MayTimeout = TRUE
  MayFailWrite = TRUE
INVARIANT OwnTextOnly
PROPERTY EveryQueryEnds
