\* A crashed port process stays so.
SPECIFICATION ProcessesSpec
CHECK_DEADLOCK FALSE
CONSTANTS
  Client = {"c", "d"}
  Conn = {"k1", "k2"}
  Fd = {3, 4}
  Buffer = 1
  Path <- MCPath
  Programs = {"dep", "new"}
  Under <- MCUnder
  Sandbox <- MCSandbox
  System <- MCSystem
  Owner <- MCOwner
  Missing = {"new"}
  Plans <- MCPlans
  Pids = {1, 2, 3}
  MaxHup = 1
  MaxNotes = 1
  Options <- MCOptions
INVARIANTS
  OneDaemon
  ExitLeavesNothing
  
PROPERTIES
  TermExits
  DeathIsSeen
  AwaitedAreAnswered
