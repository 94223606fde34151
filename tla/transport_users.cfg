SPECIFICATION FairSpec
CONSTANTS
  Users = {u1, u2, u3}
  MaxPublishers = 2
  MaxSubscribers = 2
  NoOne = NoOne
INVARIANTS
  TransportInv
PROPERTIES
  TeardownEnds
