CONSTANTS
  Blocks <- BlocksVal
  Channels <- ChannelsVal
  Commands <- Commands1
  MaxPid = 2
  MaxOutput = 1
  MaxKeys = 3
  MaxAhead = 1
  MaxDepth = 3
  BufferSize = 2
SPECIFICATION Spec
INVARIANTS ListEnds CurrentIsActive
 
CHECK_DEADLOCK FALSE
