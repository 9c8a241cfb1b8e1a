\* Two registrations each, in every order, with every authorization method.
CONSTANTS
  a = a
  b = b
  Types = {t}
  Rules <- MCRules
  Priorities = {1}
  Markers = {m}
  CustomValues = {v}
  AuthMethods = {"ProtocolCheck", "None", "Custom"}
  None = None
  MaxCalls = 2
SPECIFICATION Spec
INVARIANTS
  TypeOK
  Understood
\* A closed connection stays closed.
CHECK_DEADLOCK FALSE
