CONSTANTS
  Thread = {r1, r2}
  Content = {a, b}
  Bad = Bad
  SegMax = 2
  CacheMax = 2
  Races = {}
  MaxLog = 3
  MaxFiles = 3
  MaxInode = 2
SPECIFICATION Spec
SYMMETRY Symmetric
INVARIANTS TypeOK ReadsRight Served CacheSound
