\* Open/read and merge errors; writes, truncates and restarts succeed.
CONSTANTS
  Servers <- MCServers
  MaxServers = 2
  MaxPoints = 3
  OpenMayFail = TRUE
  WriteMayFail = FALSE
  TruncateMayFail = FALSE
  RestartMayFail = FALSE
  MergeMayFail = TRUE
SPECIFICATION Spec
INVARIANT TypeOK
INVARIANT ConfigApplied
\* Run returns after Stop or a merge error, and the client manager stops calling Points.
CHECK_DEADLOCK FALSE
