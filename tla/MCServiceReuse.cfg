SPECIFICATION TimedServiceSpec
CONSTANTS
  r1 = r1
  r2 = r2
  r3 = r3
  Requests = {r1, r2}
  MaxQueryId = 1
  MaxProcId = 3
  MaxTokenNum = 3
  NetType = "encoder_decoder"
  EncLens = {1, 4}
  DecLens = {1}
  OutLimits <- NoLimit
  MaxConcurrentQueries = 2
  MaxContextLen = 3
  MaxOutputLen = 100
  MayFailCompute = TRUE
  Streaming = {r2}
  FlushLen = 1
  SplitPositions = {}
  MayGiveUp = TRUE
  MayTimeout = TRUE
  MayFailWrite = TRUE
INVARIANT SamplingOptionsOwn
PROPERTIES EveryRequestAnswered
