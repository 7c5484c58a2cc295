SPECIFICATION ServiceSpec
CONSTANTS
  r1 = r1
  r2 = r2
  r3 = r3
  Requests = {r1, r2, r3}
  MaxQueryId = 3
  MaxProcId = 3
  MaxTokenNum = 3
  NetType = "encoder_decoder"
  EncLens = {1, 3}
  DecLens = {1}
  OutLimits <- NoLimit
  MaxConcurrentQueries = 3
  MaxContextLen = 2
  MaxOutputLen = 100
  MayFailCompute = FALSE
  Streaming = {}
  FlushLen = 2
  SplitPositions = {}
  MayGiveUp = FALSE
  MayTimeout = FALSE
  MayFailWrite = FALSE
INVARIANT SampledFromDecoder
