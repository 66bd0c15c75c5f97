CONSTANTS
  f1 = f1
  f2 = f2
  f3 = f3
  c1 = c1
  c2 = c2
  p1 = p1
  p2 = p2
  web = web
  mount = mount
  janitor = janitor
  Thread = {web, mount, janitor}
  Nobody = Nobody
  Other = Other
  File = {f1, f2, f3}
  Content = {c1, c2}
  Path = {p1, p2}
  ContentOf <- MCContentOf
  PathOf <- MCPathOf
  Folders <- MCFolders
  Calls <- TwoFolders
  Faults = {}
  Races = {"adds"}
  MaxEntries = 2
SPECIFICATION FairSpec
PROPERTY OwnBatch
