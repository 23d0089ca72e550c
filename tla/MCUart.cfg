SPECIFICATION UFairSpec
CONSTANTS
  MaxThreads = 3
  UserThreads = {}
  Payload <- MCPayload
  Irqs = {"uart"}
  MaxInbox = 4
  N = 4
  Blank = "0"
  FifoSize = 2
  MaxWrites = 2
INVARIANTS
  UTypeOK
  BytesInOrder
  PumpArmed
  SpaceHandshake
PROPERTIES
  OutputDrains
