\* One entity, one component: changes, sends, losses, acknowledgements,
\* timeouts, priorities and reconnects in every order.
CONSTANTS
  a = a
  b = b
  EntityFilter = EntityFilter
  ComponentFilter = ComponentFilter
  PresentFilter = PresentFilter
  Clients = {c1}
  Entities = {e1}
  Components = {a}
  OnceComponents = {}
  Filters = {}
  Scope <- NoScope
  Lifetime <- NoLifetime
  Periods = {1, 2}
  Pausable = {}
  Roaming = {c1}
  IndexMod = 8
  MaxPackets = 1
  MaxTick = 5
  LastChangeTick = 5
  LastLossTick = 5
SPECIFICATION Spec
\* With no client connected nothing happens after the last tick.
CHECK_DEADLOCK FALSE
INVARIANTS
  TypeOK
  UntrackedIsGone
  DeliveryInv
  CausalDelivery
  QuietIsInSync
PROPERTIES
  ConfirmedTickAdvances
  ValuesAdvance
