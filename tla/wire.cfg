SPECIFICATION Spec
CONSTANTS
  c1 = c1
  c2 = c2
  e1 = e1
  e2 = e2
  a = a
  b = b
  Clients = {c1, c2}
  Entities = {e1, e2}
  Components = {a, b}
  None = None
  Reused = {e2}
  Diffs = {a}
  Size <- MCSize
  MaxData = 6
  MaxUserdata = 1
SYMMETRY Symmetric
INVARIANTS
  TypeOK
  RoundTrip
\* An entity that must be written empty may not fit in MaxData.
CHECK_DEADLOCK FALSE
