SPECIFICATION MCSpec
CONSTANTS
  Modulus = 12
  CarrierTimeout = 2
  AddressTimeout = 5
  LeaseTimeout = 3
  ClientTimeout = 4
  MaxSleep = 2
INVARIANTS
  SuccessMeansAddress
  StartupSound
PROPERTIES
  NoEarlyTimeout
  Returns
  StartupEnds
CHECK_DEADLOCK FALSE
