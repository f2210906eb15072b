CONSTANTS
  NInode = 3
  NData = 6
  DataStart = 23
  BSIZE = 11
  NAMELEN = 3
  NDATA = 2
  NOPENFILE = 2
  Letters = {65}
  SL = 47
  DataVals = {200, 201}
  Payload <- MCPayload
  Paths <- MCPathsIO
  WriteSizes = {11}
  ReadSizes = {11}
  MaxDirBlocks = 1
SPECIFICATION IOSpec
INVARIANT ReadReturnsWritten
CHECK_DEADLOCK FALSE
