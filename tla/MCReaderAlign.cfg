CONSTANTS
  Thread = {r1}
  Content = {a, b}
  Bad = Bad
  SegMax = 1
  CacheMax = 1
  Races = {"align"}
  MaxLog = 4
  MaxFiles = 3
  MaxInode = 3
SPECIFICATION Spec
INVARIANT ReadsRight
