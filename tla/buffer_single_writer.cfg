SPECIFICATION Spec
CONSTANTS
  Writers = {w1}
  Readers = {r1, r2}
  Values <- MCValues
  Zero <- MCZero
  Capacity = 2
  PayloadSize = 2
  NoThread = NoThread
INVARIANTS
  NoTornRead
PROPERTIES
  ImplementsRegister
