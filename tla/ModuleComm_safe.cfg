CONSTANTS
  N = 2
  Initial = 1
  ListenOnly = {1}
  Classes <- MCClasses
  MaskOf <- AllSync
  EventOps = {"broadcast", "reply", "startsync", "start", "sendto"}
  QueuedOps = {"masks", "kill", "reply"}
  SyncOps = {"reply"}
  MaxMsgs = 2
  MaxItems = 1
  PipeCap = 1
  MaxDepth = 1
SPECIFICATION Spec
INVARIANTS TypeOK RecordsAccountedFor NoUseAfterFree
PROPERTIES ReliableChannels
