SPECIFICATION Spec
CONSTANTS
  p = p
  q = q
  Callers <- OneCaller
  Channels = {1}
  Divisors = {32}
  Raws = {0, 1, 1023}
  IoWords <- NoWords
INVARIANTS
  TypeOK
  ZeroReadsZero
