SPECIFICATION FairSpec
CONSTANTS
  c1 = c1
  c2 = c2
  Clients = {c1}
  Server = Server
  Entities = {e1}
  None = None
  Protocols = {p1, p2}
  Protocol = p1
  ChannelOf <- MCMixed
  Targets <- MCOneClient
  MaxMessages = 2
  MaxTick = 1
  MaxSession = 1
INVARIANTS
  TypeOK
  SeenInOrder
  AudienceIsExact
  HandledOnce
PROPERTIES
  EventuallySeen
CHECK_DEADLOCK FALSE
