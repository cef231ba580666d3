\* A comparison is made once, and a file map may be closed for good.
SPECIFICATION LibrariesSpec
CHECK_DEADLOCK FALSE
CONSTANTS
  Ports = {zlib, vim}
  zlib = zlib
  vim = vim
  Paths = {"f"}
  MaxId = 2
  Procs = {"port1", "port2"}
  MaxName <- MCMaxName
  Proc = {"t", "p", "q", "r"}
  Ram = {"t"}
  MayWrite = {"t", "p", "q"}
  UsedPaths <- MCPaths
  Values = {"x", "y"}
  Absent <- MCNoValue
  IsAscii <- Ascii
  NewTree <- MCCreate
  TreeSet <- MCSet
  TreeGet <- MCGet
  TreeRemove <- MCDelete
  TreeList <- MCList
  TreeSave <- MCSave
  TreeLoad <- MCLoad
  Inode = {1, 2, 3, 4, 5, 6, 7}
  MaxCalls = 2
SYMMETRY Symmetry
VIEW Moving
INVARIANTS
  TypesOK
  
  
  StuckNeedsUpgrade
  FoundIfSet
  CopiesAreCurrent
  VersionsOrdered
  
  InstallationsAreWhole
