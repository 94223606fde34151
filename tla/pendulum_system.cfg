SPECIFICATION FairSystem
CONSTANTS
  StateFields = {state}
  CommandFields = {acceleration}
  Field = acceleration
  NaN = NaN
  MaxSample = 0
  Accelerations = {0, 1}
  Nothing = Nothing
  Home = 0
  Limit = 2
  MaxVelocity = 2
  MinVelocity = 1
  Projection = 1
  Timeout = 1
INVARIANTS
  LoopGetsNumbers
PROPERTIES
  StandsWithoutController
CHECK_DEADLOCK FALSE
