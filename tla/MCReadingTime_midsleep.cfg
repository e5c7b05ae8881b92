SPECIFICATION Spec
CONSTANTS
  None = None
  Sensor = {p1}
  SystemError = {5}
  PublishedError = {0}
  BootShift = 9
  BatchSize = 2
  MaxReadings = 2
  MaxBoots = 1
  MaxFaults = 0
INVARIANT
  SyncedIsTrue
