SPECIFICATION Spec
CONSTANTS
  s1 = s1
  s2 = s2
  b1 = b1
  b2 = b2
  NoBackend = NoBackend
  Sensor = {s1, s2}
  StreamOf <- DhtOnly
  Backend = {b1, b2}
  Rank <- InListOrder
  BatchRoute = {b1, b2}
  ZeroRetention = {}
  BatchSize = 2
  MaxBatches = 2
  MaxReadings = 2
  MaxFaults = 1
INVARIANT
  NoMisfiledReading
