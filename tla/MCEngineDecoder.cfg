SPECIFICATION Spec
CONSTANTS
  r1 = r1
  r2 = r2
  r3 = r3
  Requests = {r1, r2, r3}
  MaxQueryId = 4
  MaxProcId = 3
  MaxTokenNum = 3
  NetType = "decoder_only"
  EncLens = {0}
  DecLens = {1, 3}
  OutLimits <- LimitOneOrNone
  MaxConcurrentQueries = 2
  MaxContextLen = 4
  MaxOutputLen = 100
  MayFailCompute = TRUE
SYMMETRY RequestSymmetry
INVARIANTS TypeOK KvSlotsValid AdmissionHasSlot KvCacheCoherent SamplingOptionsOwn OutputOverrunAtMostOne
