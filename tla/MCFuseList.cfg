CONSTANTS
  Thread = {request}
  Janitor = janitor
  Name = {n, m}
  File = {f1, f2}
  Reader = {reader}
  None = None
  Races = {"list"}
  MaxWrites = 1
SPECIFICATION Spec
INVARIANT WholeOnly
