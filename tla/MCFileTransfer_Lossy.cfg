\* NATS may drop any request or reply.
CONSTANTS
  Blocks <- ThreeBlocks
  MaxTries = 3
  Lossy = TRUE
  ReadMayFail = FALSE
  WriteMayFail = FALSE
  NoFile = NoFile
SPECIFICATION Spec
INVARIANT WrittenFileIsSource
CHECK_DEADLOCK FALSE
