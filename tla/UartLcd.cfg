SPECIFICATION Spec
CONSTANTS
  t1 = t1
  t2 = t2
  Terminals <- TwoTerminals
  RevSize = 3
  Bytes <- XandNUL
  MaxInbox = 3
INVARIANTS
  TypeOK
  PageShown
  LcdRecovers
  PrintsWhatWasSent
SYMMETRY Symmetry
