SPECIFICATION Spec
CONSTANTS
  Buses <- TwoBuses
  Live <- TwoBuses
  Bytes <- OnlyCommands
  Alens = {1}
  Lens = {1}
  PollLimit = 1
  MaxHeard = 1
INVARIANT
  CallGoesToSelectedBus
