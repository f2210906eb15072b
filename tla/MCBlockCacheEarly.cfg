\* The disciplined callers of MCBlockCache.cfg, with hardReadWait reading the
\* data port right after the command, before the drive may have the sector.
CONSTANTS
  s1 = s1
  s2 = s2
  s3 = s3
  s4 = s4
  Slots <- MCSlots3
  Null = Null
  Devices = {0}
  Blocks = {1, 2, 3}
  NBuckets = 2
  Vals = {0, 1}
  LocalBlocks = {1}
  ReadResults = {"ok", "early"}
  RelookupHeld = FALSE
SPECIFICATION Spec
PROPERTY CacheRefinesStore
