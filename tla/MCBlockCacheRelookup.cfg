\* fs.c callers re-read and write back blocks they hold.
CONSTANTS
  s1 = s1
  s2 = s2
  s3 = s3
  s4 = s4
  Slots <- MCSlots3
  Null = Null
  Devices = {0}
  Blocks = {1, 2, 3}
  NBuckets = 4
  Vals = {0, 1}
  LocalBlocks = {1}
  ReadResults = {"ok"}
  RelookupHeld = TRUE
SPECIFICATION CodeSpec
INVARIANT HeldSlotsExclusive
CHECK_DEADLOCK FALSE
