SPECIFICATION Spec
CONSTANTS
  a = a
  b = b
  Nodes <- TwoNodes
  Signed <- OneSigned
  Regs = {5, 33, 200, 261}
  QueueLen = 2
INVARIANTS
  TypeOK
  OneReplyPerFrame
  OnlyItsRegister
  FrameDecided
PROPERTIES
  RequestIsAnswered
  BusFallsSilent
CHECK_DEADLOCK FALSE
