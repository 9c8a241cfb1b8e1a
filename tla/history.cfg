SPECIFICATION Spec
CONSTANTS
  TickMod = 12
  IndexMod = 9
  Width = 3
  HistoryLen = 2
  FirstTick = 10
  FirstIndex = 7
  Modes <- MCDiffs
  None = None
  MaxTicks = 3
  MaxEdits = 3
  MaxCount = 2
  MaxInFlight = 2
INVARIANTS
  TypeOK
  ConfirmedIsExact
  MutateTicksAreExact
  CopyIsAtIndex
  FrontierIsReached
CHECK_DEADLOCK FALSE
