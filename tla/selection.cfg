\* Rules that overlap, markers registered around them, and bundles inserted and removed.
CONSTANTS
  a = a
  b = b
  m = m
  n = n
  Components = {a, b, m, n}
  Markers = {m, n}
  Replicated = Replicated
  MarkerPriority <- MCPriority
  Overridden = {b}
  Candidates <- MCCandidates
  Default = Default
  None = None
  MaxRules = 3
  MaxFns = 1
  MaxEdits = 2
  MaxLocal = 1
  MaxInFlight = 1
SPECIFICATION Spec
INVARIANTS
  TypeOK
  BestRuleWins
  ClientHasWhatMatches
  HighestMarkerDecides
\* Nothing happens after the last change.
CHECK_DEADLOCK FALSE
