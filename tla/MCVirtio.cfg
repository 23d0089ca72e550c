SPECIFICATION BSpec
CONSTANTS
  MaxThreads = 5
  UserThreads = {4}
  Payload <- MCPayload
  Irqs = {"blk"}
  MaxInbox = 4
  Driver = "virtio"
  Sectors = {"s0", "s1"}
  BadBuffers = {}
  MaxReads = 1
  MaxFaults = 1
INVARIANTS
  OkMeansData
CHECK_DEADLOCK FALSE
