SPECIFICATION Spec
CONSTANTS
  Buses <- TwoBuses
  Live <- OneBus
  Bytes <- AnyByte
  Alens = {0, 2}
  Lens = {1, 3}
  PollLimit = 2
  MaxHeard = 1
INVARIANTS
  TypeOK
  PortReady
  SuccessFillsBuffer
  ReadStaysOpen
  SuccessOnReadyBus
  ProbeFindsChip
  NoPhantomReply
  BusFreeAfterCall
PROPERTIES
  CommandOrder
  CallReturns
  CallComesToEnd
