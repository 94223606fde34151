SPECIFICATION MCSpec
CONSTANTS
  Accelerations <- MCAccelerations
  NaN = NaN
  Nothing = Nothing
  Home = 2
  Limit = 1
  MaxVelocity = 2
  MinVelocity = 2
  Projection = 1
  Timeout = 2
  Word = 12
  CyclesPerUs = 2
  PeriodUs = 3
  OverrunUs = 1
  ReadCycles <- MCReadCycles
  Empty = Empty
INVARIANTS
  WithinTravel
  StaleCommandStops
  MailboxFresh
  DtNeverShort
PROPERTIES
  RestsWithoutPeer
  LoopFed
CHECK_DEADLOCK FALSE
