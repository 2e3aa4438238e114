CONSTANTS
  Blocks <- BlocksVal
  Channels <- ChannelsVal
  Commands <- Commands2
  MaxPid = 2
  MaxOutput = 1
  MaxKeys = 3
  MaxAhead = 1
  MaxDepth = 3
  BufferSize = 2
SPECIFICATION FairSpec
PROPERTIES KeyAnswered WaitEnds
CHECK_DEADLOCK FALSE
