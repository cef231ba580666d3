\* The bounds on starts and edits end every behaviour.
SPECIFICATION Spec
CHECK_DEADLOCK FALSE
CONSTANTS
  p = p
  q = q
  f = f
  g = g
  Proc = {p}
  Inode = {i1, i2}
  Portfile = {f}
  Elsewhere = Elsewhere
  Selection = {"none"}
  NoVariants = "none"
  MaxStarts = 2
  MaxEdits = 0
  NoProc = NoProc
  NoInode = NoInode
  NoSum = NoSum
INVARIANTS
  SkippedIsComplete
