SPECIFICATION SuiteSpec
CONSTANTS
  Channels = {1, 2, 3, 4, 5}
  NewChannels = {3, 4, 5}
  Words <- Stored
  Lists <- SomeLists
INVARIANTS
  TypeOK
  OthersPass
  NinePass
PROPERTY
  BehavesAsDevice
