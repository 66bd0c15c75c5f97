CONSTANTS
  resident = resident
  Proc = {resident, cli}
  Uid = {u1, u2}
  Dir = {d1, d2}
  Root = Root
  Name = {n}
  Mode = {plain}
  NewMode = plain
  Content = {c1}
  Absent = Absent
  Quiet = Quiet
  Here = Here
  ResidentOps = {"add", "import", "rename", "mkdir", "fail"}
  CliOps = {"add", "remove", "rmdir", "crash"}
  Ops <- MCOps
  Races = {}
SPECIFICATION Spec
SYMMETRY Symmetric
INVARIANTS Linked
PROPERTY SharedBook
