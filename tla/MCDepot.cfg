CONSTANTS
  solo = solo
  many = many
  Whole = Whole
  First = c1
  Bundle = {c1, c2, c3}
  Chunk = {c1, c2, c3}
  Content <- MCContent
  Mono <- MCMono
  parts <- MCParts
  MaxSeg = 2
  MaxSlot = 1
  HaveZstdMax = TRUE
  Faults = {}
SPECIFICATION Spec
INVARIANTS TypeOK Readable IndexSound ShortIsWhole Consistent
PROPERTY KeepsPromise
\* segment ids are bounded by MaxSeg: a run may end for lack of a new one
CHECK_DEADLOCK FALSE
