CONSTANTS
  resident = resident
  Proc = {resident}
  Uid = {u1, u2}
  Dir = {d1, d2}
  Root = Root
  Name = {n}
  Mode = {plain, exec}
  NewMode = plain
  Content = {c1}
  Absent = Absent
  Quiet = Quiet
  Here = Here
  ResidentOps = {"add", "import", "move", "chmod", "remove", "mkdir", "rmdir", "mvdir"}
  CliOps = {}
  Ops <- MCOps
  Races = {"threads"}
SPECIFICATION FairSpec
INVARIANTS TypeOK Backed
PROPERTIES SharedBook CallsReturn
