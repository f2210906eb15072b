\* The cache under the callers' discipline: one outstanding lookup per block,
\* reads that report no error (the data port read with the sector ready or
\* still busy), as many slots as blocks.
CONSTANTS
  s1 = s1
  s2 = s2
  s3 = s3
  s4 = s4
  Slots <- MCSlots3
  Null = Null
  Devices = {0}
  Blocks = {1, 2, 3}
  NBuckets = 2
  Vals = {0, 1}
  LocalBlocks = {1}
  ReadResults = {"ok", "early"}
  RelookupHeld = FALSE
SPECIFICATION Spec
INVARIANT TypeOK
INVARIANT FreeListWellFormed
INVARIANT HeldSlotsExclusive
