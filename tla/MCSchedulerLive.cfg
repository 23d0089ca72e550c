SPECIFICATION FairSpec
CONSTANTS
  MaxThreads = 3
  UserThreads = {}
  Payload = {d1}
  Irqs = {uart}
  MaxInbox = 1
PROPERTIES
  ReadyRuns
  MessageTaken
