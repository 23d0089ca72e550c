SPECIFICATION BFairSpec
CONSTANTS
  MaxThreads = 6
  UserThreads = {4, 5}
  Payload <- MCPayload
  Irqs = {"blk"}
  MaxInbox = 4
  Driver = "sd"
  Sectors = {"s0", "s1"}
  BadBuffers = {5}
  MaxReads = 2
  MaxFaults = 1
INVARIANTS
  BTypeOK
  OneAnswerPerRead
  CompletionMatchesRequest
  DmaOnlyWhileWaiting
  OkMeansData
PROPERTIES
  EveryReadReturns
  BootCompletes
CHECK_DEADLOCK FALSE
