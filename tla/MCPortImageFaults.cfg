SPECIFICATION FairSpec
CONSTANTS
  foo1 = foo1
  foo2 = foo2
  bar = bar
  baz = baz
  f = f
  g = g
  h = h
  p1 = p1
  p2 = p2
  NoPath = NoPath
  User = User
  Empty = Empty
  NoProc = NoProc
  Port <- FourPorts
  File <- ThreeFiles
  NameOf <- Names
  ImageFiles <- Images
  ReplacedBy <- BarReplacesFoo
  Proc <- OneProc
  MaxStamp = 2
  Locking = TRUE
  FirstTry = {"portfile", "direct"}
  ForceModes = {FALSE, TRUE}
  Faults = {"extract", "move"}
  UserActs = "always"
ACTION_CONSTRAINT FaultsUnforced
INVARIANTS
  TypeOK
  OneActiveVersion
  StateMatchesFiles
  FilesFollowRegistry
  
PROPERTIES
  
  ActionsEnd
