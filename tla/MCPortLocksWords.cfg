SPECIFICATION Spec
CONSTANTS
  foo = foo
  bar = bar
  p1 = p1
  p2 = p2
  Registry = Registry
  NoProc = NoProc
  NoFile = NoFile
  Port <- BothPorts
  Deps <- BarNeedsFoo
  Proc <- TwoProcs
  Interactive <- FirstProc
  Words = {"listed", "other"}
  MaxCommands = 2
  MaxWork = 2
  MaxLeft = 2
INVARIANTS
  ModifiesLocked
