SPECIFICATION Spec
CONSTANTS
  s1 = s1
  s2 = s2
  b1 = b1
  b2 = b2
  NoBackend = NoBackend
  Sensor = {s1, s2}
  StreamOf <- DhtOnly
  Backend = {b1, b2}
  Rank <- InListOrder
  BatchRoute = {b2}
  ZeroRetention = {s1}
  BatchSize = 2
  MaxBatches = 2
  MaxReadings = 3
  MaxFaults = 1
INVARIANTS
  DeliveryInv
  NoReadingLost
  OldestFirst
PROPERTY
  DeliverySpec
