SPECIFICATION Spec
CONSTANTS
  p = p
  q = q
  Callers <- OneCaller
  Channels = {0}
  Divisors = {32}
  Raws = {0}
  IoWords <- NoWords
PROPERTY
  DivisorReadsBack
