\* No I/O errors; Stop may come while the client manager is calling Points.
CONSTANTS
  Servers <- MCServers
  MaxServers = 2
  MaxPoints = 3
  OpenMayFail = FALSE
  WriteMayFail = FALSE
  TruncateMayFail = FALSE
  RestartMayFail = FALSE
  MergeMayFail = FALSE
SPECIFICATION Spec
PROPERTY PointsReturns
\* Run returns after Stop or a merge error, and the client manager stops calling Points.
CHECK_DEADLOCK FALSE
