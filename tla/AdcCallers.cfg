SPECIFICATION Spec
CONSTANTS
  p = p
  q = q
  Callers <- TwoCallers
  Channels = {0, 1}
  Divisors = {}
  Raws = {0}
  IoWords <- AllOff
INVARIANTS
  EngineConfined
  KeptChannels
  NeverWaitsInVain
PROPERTY
  LoadEnds
