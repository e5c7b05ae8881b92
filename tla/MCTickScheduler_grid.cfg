SPECIFICATION Spec
CONSTANTS
  None = None
  FirstPeriod = 5
  MinPeriod = 2
  Schedules <- TwoSchedules
  Offsets = {0, 4}
  MaxMono = 16
  MaxJitter = 1
CHECK_DEADLOCK FALSE
INVARIANTS
  TickInv
  TicksOnGrid
  TicksAdvance
  SkipsCounted
  SwitchNotOverslept
