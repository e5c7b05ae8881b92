SPECIFICATION StartupSpec
CONSTANTS
  Process = {dht22, C5A}
  LegacyRows = 2
  MaxNew = 1
  MaxCuts = 1
  Agent = agent
  MaxMinted = 3
  MaxExits = 2
  NoFile = NoFile
INVARIANTS
  StartupReady
  RetiredUnlessCut
  NewRowsKept
  UUIDShared
PROPERTY
  SettledForever
CHECK_DEADLOCK FALSE
