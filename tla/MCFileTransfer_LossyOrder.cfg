\* NATS may drop any request or reply; os.WriteFile may fail.
CONSTANTS
  Blocks <- ThreeBlocks
  MaxTries = 3
  Lossy = TRUE
  ReadMayFail = FALSE
  WriteMayFail = TRUE
  NoFile = NoFile
SPECIFICATION Spec
INVARIANT BlocksInOrder
\* SendFile returns (sState "ok" or "failed") and the device waits for the next chunk.
CHECK_DEADLOCK FALSE
PROPERTY SendFileReturns
