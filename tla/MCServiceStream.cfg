SPECIFICATION ServiceSpec
CONSTANTS
  r1 = r1
  r2 = r2
  r3 = r3
  Requests = {r1}
  MaxQueryId = 3
  MaxProcId = 3
  MaxTokenNum = 3
  NetType = "decoder_only"
  EncLens = {0}
  DecLens = {1}
  OutLimits <- NoLimit
  MaxConcurrentQueries = 1
  MaxContextLen = 4
  MaxOutputLen = 100
  MayFailCompute = FALSE
  Streaming = {r1}
  FlushLen = 2
  SplitPositions = {}
  MayGiveUp = FALSE
  MayTimeout = FALSE
  MayFailWrite = FALSE
INVARIANT StreamIsText
