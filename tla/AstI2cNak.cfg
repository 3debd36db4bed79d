SPECIFICATION Spec
CONSTANTS
  Buses <- OneBus
  Live <- OneBus
  Bytes <- OnlyCommands
  Alens = {0}
  Lens = {1}
  PollLimit = 1
  MaxHeard = 1
INVARIANT
  SuccessMeansAcknowledged
