SPECIFICATION FairSpec
CONSTANTS
  s1 = s1
  s2 = s2
  b1 = b1
  b2 = b2
  NoBackend = NoBackend
  Sensor = {s1, s2}
  StreamOf <- DhtOnly
  Backend = {b1}
  Rank <- InListOrder
  BatchRoute = {}
  ZeroRetention = {}
  BatchSize = 1
  MaxBatches = 2
  MaxReadings = 2
  MaxFaults = 1
INVARIANT
  NoMisfiledReading
PROPERTY
  BacklogDrains
