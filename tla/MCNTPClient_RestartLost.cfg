\* Writes, truncates and restarts may fail.
CONSTANTS
  Servers <- MCServers
  MaxServers = 2
  MaxPoints = 3
  OpenMayFail = FALSE
  WriteMayFail = TRUE
  TruncateMayFail = TRUE
  RestartMayFail = TRUE
  MergeMayFail = FALSE
SPECIFICATION Spec
INVARIANT ConfigApplied
\* Run returns after Stop or a merge error, and the client manager stops calling Points.
CHECK_DEADLOCK FALSE
