SPECIFICATION Spec
CONSTANTS
  foo1 = foo1
  foo2 = foo2
  bar = bar
  baz = baz
  f = f
  g = g
  h = h
  p1 = p1
  p2 = p2
  NoPath = NoPath
  User = User
  Empty = Empty
  NoProc = NoProc
  Port <- TwoPorts
  File <- TwoFiles
  NameOf <- Names
  ImageFiles <- Images
  ReplacedBy <- BarReplacesFoo
  Proc <- TwoProcs
  MaxStamp = 1
  Locking = FALSE
  FirstTry = {"direct"}
  ForceModes = {TRUE}
  Faults = {"crash", "remove"}
  UserActs = "never"
INVARIANTS
  OneOwner
  AllOrNothing
  WorkingCopy
PROPERTIES
  RegistryFollowsFileMap
SYMMETRY SameProcs
