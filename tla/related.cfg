SPECIFICATION Spec
CONSTANTS
  e1 = e1
  e2 = e2
  e3 = e3
  ChildOf = ChildOf
  OwnedBy = OwnedBy
  Entities = {e1, e2, e3}
  Relations = {ChildOf, OwnedBy}
  Linked = {ChildOf}
  Nodes = {0, 1, 2}
  None = None
  Sizes = {2, 6}
  HeaderSize = 1
  MaxSize = 5
  Track = FALSE
  MayBeMutual = FALSE
  WhileDisabled = FALSE
  MaxSteps = 7
SYMMETRY Symmetric
INVARIANTS
  TypeOK
  GraphIsExact
  RelatedTogether
  SplitIsSound
\* After the last step a stopped server does nothing more.
CHECK_DEADLOCK FALSE
