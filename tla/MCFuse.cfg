CONSTANTS
  Thread = {request}
  Janitor = janitor
  Name = {n, m}
  File = {f1, f2}
  Reader = {reader}
  None = None
  Races = {}
  MaxWrites = 1
SPECIFICATION FairSpec
INVARIANTS TypeOK NoLostClose WholeOnly OnePath Unlinked
PROPERTIES Imported
