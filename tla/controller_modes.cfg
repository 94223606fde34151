SPECIFICATION MCSpec
CONSTANTS
  Commands <- MCCommands
  NaN = NaN
  Infinity = Infinity
  PositionLimit <- MCPositionLimit
  MaxVelocity = 2
  MaxAcceleration = 2
  MaxSubsteps = 2
  Jitter <- MCJitter
  Error <- MCError
  Realised <- MCRealised
  Angles <- MCAngles
  AngleParams <- MCAngleParams
  RampParams <- MCRampParams
INVARIANTS
  NoStaleCommand
  RampExact
PROPERTIES
  NoChatter
