SPECIFICATION MCSpec
CONSTANTS
  Velocities <- MCVelocities
  Zero = Zero
  Bad = Bad
  Timeout = 3
  CountModulus = 4
  Params <- MCParams
  RosCommands <- MCCommands
  MaxWrites = 3
  MAX_STATE_BUFFER_SIZE = 160
  MAX_CMD_BUFFER_SIZE = 160
  Null = Null
  None = None
  Garbage = Garbage
INVARIANTS
  StaleCommandStops
  NewestCommandFollowed
  PublishesJointState
  CommandDecoded
  StaysInBuffers
PROPERTIES
  StopsWithoutHost
