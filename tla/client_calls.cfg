SPECIFICATION MCSpec
CONSTANTS
  Clients = {c1, c2}
  Other = c2
  Frequencies = {0, 100}
  MaxCommands = 3
  MaxPublishers = 2
  MaxSubscribers = 2
  NoOne = NoOne
INVARIANTS
  NoDivisionByZero
  ThreadFlagsAgree
  CountBehindBuffer
  NothingLeftDeclared
  PutOnLivePublisher
PROPERTIES
  KeepsContract
  CallsReturn
  KeepsPublishing
