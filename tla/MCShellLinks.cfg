CONSTANTS
  NInode = 6
  NData = 6
  DataStart = 23
  BSIZE = 14
  NAMELEN = 2
  NDATA = 3
  NOPENFILE = 4
  Letters = {32, 48, 49, 50, 51, 99, 109}
  SL = 47
  DataVals = {200}
  Payload <- MCShellPayload
  Paths <- MCShellPaths
  WriteSizes = {3}
  ReadSizes = {3}
  MaxDirBlocks = 1
  LINELEN = 4
  SP = 32
  Chars = {99, 109}
  CmdLs = 108
  CmdCd = 99
  CmdMk = 109
  TestNames <- MCTestNames
  TEXTLEN = 3
SPECIFICATION ShellSpec
INVARIANT SlotLinksIntact
CHECK_DEADLOCK FALSE
