SPECIFICATION Spec
CONSTANTS
  foo1 = foo1
  foo2 = foo2
  bar = bar
  baz = baz
  f = f
  g = g
  h = h
  p1 = p1
  p2 = p2
  NoPath = NoPath
  User = User
  Empty = Empty
  NoProc = NoProc
  Port <- TwoPorts
  File <- TwoFiles
  NameOf <- Names
  ImageFiles <- Images
  ReplacedBy <- NoReplacement
  Proc <- OneProc
  MaxStamp = 1
  Locking = TRUE
  FirstTry = {"portfile", "direct"}
  ForceModes = {FALSE, TRUE}
  Faults = {}
  UserActs = "never"
INVARIANTS
  ForceIsPerAction
