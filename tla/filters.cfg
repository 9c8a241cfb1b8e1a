\* Two filters and a scope of the app; entities are disabled, clients come and go.
CONSTANTS
  team = team
  blind = blind
  red = red
  blue = blue
  Clients = {c1}
  Entities = {e1, e2}
  Filters = {team, blind}
  Scopes = {s1}
  Values = {red, blue}
  None = None
  Sees <- MCSees
  Bits = 32
  EarlyComponents = TRUE
  MaxSteps = 8
SPECIFICATION Spec
INVARIANTS
  TypeOK
  BitsFollowFilters
PROPERTIES
  SentIsAllowed
\* The app stops after its last step.
CHECK_DEADLOCK FALSE
