SPECIFICATION FairSpec
CONSTANTS
  MaxThreads = 2
  UserThreads = {1, 2}
  Payload = {d1}
  Irqs = {uart}
  MaxInbox = 1
PROPERTIES
  UserCodePreempted
