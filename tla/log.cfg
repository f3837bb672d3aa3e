\* Leftovers of two bases, failures, kills and restarts with another limit.
\* The last entry ends the run, hence no deadlock check.
SPECIFICATION Spec
CONSTANTS
  MaxSize = 2
  MaxEntry = 3
  Limits = {0, 1, 2, 3}
  Left = 2
  MaxWritten = 8
  MaxFaults = 2
  MayClose = TRUE
INVARIANTS NewerHasSmallerId HistoryBounded
PROPERTIES LosesOnlyOldest
CHECK_DEADLOCK FALSE
