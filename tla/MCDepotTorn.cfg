CONSTANTS
  solo = solo
  many = many
  Whole = Whole
  First = c1
  Bundle = {c1, c2}
  Chunk = {c1, c2}
  Content <- MCBundleOnly
  Mono = {}
  parts <- MCBundleParts
  MaxSeg = 2
  MaxSlot = 2
  HaveZstdMax = FALSE
  Faults = {"tornFrame", "tornIndex"}
SPECIFICATION Spec
INVARIANTS IndexSound IndexedOnDisk
\* segment ids are bounded by MaxSeg: a run may end for lack of a new one
CHECK_DEADLOCK FALSE
