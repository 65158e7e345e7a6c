\* No message lost; requests and replies may be late past the timeout.
CONSTANTS
  Blocks <- ThreeBlocks
  MaxTries = 3
  Lossy = FALSE
  ReadMayFail = FALSE
  WriteMayFail = FALSE
  NoFile = NoFile
SPECIFICATION Spec
INVARIANT TypeOK
INVARIANT WrittenFileIsSource
\* SendFile returns (sState "ok" or "failed") and the device waits for the next chunk.
CHECK_DEADLOCK FALSE
