\* The bounds on starts and edits end every behaviour.
SPECIFICATION MCSpec
CHECK_DEADLOCK FALSE
CONSTANTS
  p = p
  q = q
  f = f
  g = g
  Proc = {p, q}
  Inode = {i1, i2, i3}
  Portfile = {f, g}
  Elsewhere = Elsewhere
  Selection = {"none", "a"}
  NoVariants = "none"
  MaxStarts = 3
  MaxEdits = 1
  NoProc = NoProc
  NoInode = NoInode
  NoSum = NoSum
INVARIANTS
  
  AtWorkAlone
  RecordedIsThere
SYMMETRY Same
