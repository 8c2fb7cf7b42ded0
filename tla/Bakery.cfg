SPECIFICATION FairSpec
CONSTANTS
  Client = {p1, p2}
  Udp = FALSE
  MAX_CLIENTS = 3
  CLIENTS = 2
  REQUESTS = 2
INVARIANTS
  NobodyElseQueues
  ResponseIsOwn
PROPERTIES
  EveryRequestIsServed
