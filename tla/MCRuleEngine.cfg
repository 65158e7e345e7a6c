\* Paced producers, single-point batches, late-stamped points allowed.
CONSTANTS
  Empty <- MCEmpty
  Owners <- MCOwners
  PointTypes <- MCPointTypes
  Rules <- AlarmWatchRules
  Inputs <- SinglePoints
  MaxSubmits = 3
  MaxClock = 30
  Paced = TRUE
  LatePoints = TRUE
  NotifyMayFail = FALSE
  PublishMayFail = FALSE
SPECIFICATION Spec
INVARIANT TypeOK
INVARIANT LatchesSettled
PROPERTY BusDrains
\* Producers stop after MaxSubmits batches; the handler then waits for input.
CHECK_DEADLOCK FALSE
