SPECIFICATION Spec
CONSTANTS
  Maintenance = 5
  Reconnect = 1
  MinSend = 1
  MaxSend = 6
  SendIntervals = {0, 3, 9}
  MaxDiscovery = 2
  MaxFlush = 3
  Capacity = 11
  MaxBacklog = 13
  MaxFailures = 4
INVARIANTS
  TypeOK
  MaintenancePunctual
  UploadPunctual
  BackoffDoubles
  KeepsUp
PROPERTY
  GoesOn
CHECK_DEADLOCK FALSE
