SPECIFICATION TableSpec
CONSTANTS
  Requests = {r1}
  MaxQueryId = 3
  MaxProcId = 2
  MaxTokenNum = 3
  NetType = "encoder_decoder"
  EncLens = {1, 3}
  DecLens = {1, 2}
  OutLimits <- NoLimit
  MaxAdds = 5
  MaxPrefix = 2
CONSTRAINT Bounded
INVARIANTS TableTypeOK ProcIdsDistinct GetIsLoop
PROPERTY ReuseOnlyAfterFullCycle
