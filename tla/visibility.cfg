\* WhileVisible filters on the entity and on every component but b,
\* which is replicated once.
CONSTANTS
  a = a
  b = b
  EntityFilter = EntityFilter
  ComponentFilter = ComponentFilter
  PresentFilter = PresentFilter
  Clients = {c1}
  Entities = {e1}
  Components = {a, b}
  OnceComponents = {b}
  Filters = {EntityFilter, ComponentFilter, PresentFilter}
  Scope <- EachScope
  Lifetime <- EachLifetime
  Periods = {1}
  Pausable = {e1}
  Roaming = {}
  IndexMod = 8
  MaxPackets = 1
  MaxTick = 4
  LastChangeTick = 3
  LastLossTick = 4
SPECIFICATION Spec
\* With no client connected nothing happens after the last tick.
CHECK_DEADLOCK FALSE
INVARIANTS
  TrackedIsHeld
  HiddenIsGone
