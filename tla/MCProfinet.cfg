SPECIFICATION FairProfinetSpec
CONSTANTS
  c1 = c1
  Conn <- MCConn
  TimeBits <- MCTimeBits
  Padding = {0, 1}
  Reading <- MCReading
  MaxFrames = 2
  MaxDatagrams = 1
  MaxFrameBuf = 1048576
INVARIANTS
  FramingOfStream
  FittingFramesDecode
PROPERTY
  StreamIsRead
CHECK_DEADLOCK FALSE
