\* Parents changed by insertions, removals and mutations, references, a signature,
\* predictions and a second session.
SPECIFICATION Spec
CONSTANTS
  s1 = s1
  s2 = s2
  s3 = s3
  ServerEntities = {s1, s2, s3}
  Hashes = {h1}
  None = None
  MaxSteps = 5
  MaxTicks = 3
  MaxSessions = 2
  MaxClient = 3
SYMMETRY Symmetric
\* After the last step the last message is applied and nothing is left to do.
CHECK_DEADLOCK FALSE
INVARIANTS
  TypeOK
  EntriesAreAlive
  
