SPECIFICATION Spec
CONSTANTS
  Typo = Typo
  Empty = Empty
  Absent = Absent
  dht22 = dht22
  dht22b = dht22b
  C5A = C5A
  Process = {dht22, C5A}
  StreamOf <- Streams
  FileOf <- SomeFiles
  Errors <- SomeErrors
  None = None
  MaxRows = 2
  Oldest = 4
  MaxFaults = 1
INVARIANT
  TypeOK
PROPERTIES
  OnlyAckedLeave
  YoungStay
  Collected
CHECK_DEADLOCK FALSE
