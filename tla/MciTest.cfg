SPECIFICATION Spec
CONSTANTS
  fan = fan
  volt = volt
  ThreadMax = 2
  SensorIds <- TwoSensors
  Repositories <- ThreeRepositories
INVARIANTS
  TypeOK
  OwnIndex
  CalmPass
PROPERTIES
  WalksEnd
  PassesGoOn
CHECK_DEADLOCK FALSE
