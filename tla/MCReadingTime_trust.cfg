SPECIFICATION Spec
CONSTANTS
  None = None
  Sensor = {p1, p2}
  SystemError = {0, 5}
  PublishedError = {0}
  BootShift = 9
  BatchSize = 1
  MaxReadings = 1
  MaxBoots = 2
  MaxFaults = 1
SYMMETRY
  SensorSymmetry
INVARIANTS
  TrustInv
  CorrectedIsTrue
  SyncedUnlessResynced
  RepeatsOnlyByCorrection
  EstimatedUnlessInHand
  WrongOnlyByFault
