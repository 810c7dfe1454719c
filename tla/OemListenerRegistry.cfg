CONSTANTS
  Clients = {c1, c2}
  MaxCalls = 2

SPECIFICATION FairSpec
CHECK_DEADLOCK FALSE

PROPERTY DeadListenerRemoved
