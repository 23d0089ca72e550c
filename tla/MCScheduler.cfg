SPECIFICATION Spec
CONSTANTS
  MaxThreads = 3
  UserThreads = {2, 3}
  Payload = {d1}
  Irqs = {uart}
  MaxInbox = 1
INVARIANTS
  TypeOK
  QueueExact
  OneRunning
  NoLostWakeup
  NoSleepWithWork
  TrapRouting

  
