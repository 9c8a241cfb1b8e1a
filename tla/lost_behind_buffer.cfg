\* A mutation acknowledged while buffered is outdated by a newer message.
CONSTANTS
  a = a
  b = b
  EntityFilter = EntityFilter
  ComponentFilter = ComponentFilter
  PresentFilter = PresentFilter
  Clients = {c1}
  Entities = {e1}
  Components = {a, b}
  OnceComponents = {}
  Filters = {}
  Scope <- NoScope
  Lifetime <- NoLifetime
  Periods = {1}
  Pausable = {}
  Roaming = {}
  IndexMod = 8
  MaxPackets = 1
  MaxTick = 4
  LastChangeTick = 4
  LastLossTick = 4
SPECIFICATION Spec
\* With no client connected nothing happens after the last tick.
CHECK_DEADLOCK FALSE
INVARIANTS
  QuietIsInSync
