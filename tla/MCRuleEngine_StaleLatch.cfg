\* Producers do not wait for the feedback of the rule engine to be handled.
CONSTANTS
  Empty <- MCEmpty
  Owners <- MCOwners
  PointTypes <- MCPointTypes
  Rules <- TempRules
  Inputs <- TempPoints
  MaxSubmits = 3
  MaxClock = 40
  Paced = FALSE
  LatePoints = FALSE
  NotifyMayFail = FALSE
  PublishMayFail = FALSE
SPECIFICATION Spec
INVARIANT LatchesSettled
CHECK_DEADLOCK FALSE
