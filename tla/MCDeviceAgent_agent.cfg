SPECIFICATION Spec
CONSTANTS
  Samples = 2
  Rtts = {1, 2, 3}
  FastRtt = 2
  MaxRtt = 2
  MaxAge = 20
  None = None
  Torn = Torn
  Listed <- ListedHosts
  Interval = 5
  RestartSec = 1
  StopGrace = 3
  Reader = {dht22}
  Gap = 2
  MaxFaults = 1
INVARIANTS
  TypeOK
  HeartbeatInTime
  BlipTolerated
  KilledOnlyMidCycle
PROPERTY
  RegisterSpec
CHECK_DEADLOCK FALSE
