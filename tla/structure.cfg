\* Two entities whose mutations may be split over two packets, and a component beside
\* the mutated one that is only inserted and removed: structural changes arrive in
\* order, what is merged into an update is sent with it and, once changes and losses
\* stop, the client converges.
CONSTANTS
  a = a
  b = b
  EntityFilter = EntityFilter
  ComponentFilter = ComponentFilter
  PresentFilter = PresentFilter
  Clients = {c1}
  Entities = {e1, e2}
  Components = {a, b}
  OnceComponents = {b}
  Filters = {}
  Scope <- NoScope
  Lifetime <- NoLifetime
  Periods = {1}
  Pausable = {}
  Roaming = {c1}
  IndexMod = 8
  MaxPackets = 2
  MaxTick = 3
  LastChangeTick = 2
  LastLossTick = 2
SPECIFICATION FairSpec
INVARIANTS
  AckedIsDelivered
PROPERTIES
  EventuallyInSync
  ImplementsStructureLog
\* With no client connected nothing happens after the last tick.
CHECK_DEADLOCK FALSE
