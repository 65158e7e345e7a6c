\* No message lost; a reply may come after the timeout.
CONSTANTS
  Blocks <- ThreeBlocks
  MaxTries = 3
  Lossy = FALSE
  ReadMayFail = FALSE
  WriteMayFail = FALSE
  NoFile = NoFile
SPECIFICATION Spec
INVARIANT FailsOnlyIfAllTimedOut
CHECK_DEADLOCK FALSE
