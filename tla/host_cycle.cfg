SPECIFICATION MCSpec
CONSTANTS
  StateFields = {position, velocity}
  CommandFields = {left, right}
  Values = {0, 1}
  NaN = NaN
  MaxSample = 3
  Documents <- MCDocuments
  Doubles <- MCDoubles
  Missing = Missing
  Empty = Empty
  Garbage = Garbage
INVARIANTS
  NoNaNOnWire
  NoMixedSample
  FieldsArrive
PROPERTIES
  SamplesForward
  HoldsLastCommand
  LastSampleArrives
CHECK_DEADLOCK FALSE
