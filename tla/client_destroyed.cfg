SPECIFICATION Spec
CONSTANTS
  Clients = {c1, c2}
  Frequencies = {100}
  MaxCommands = 1
  MaxPublishers = 2
  MaxSubscribers = 2
  NoOne = NoOne
INVARIANT NoCallbackIntoIdleClient
