SPECIFICATION CliFairSpec
CONSTANTS
  ProjectCount = 3
  PkgOf <- MCPkgOf
  TestFiles <- MCTestFiles
  TypeTests <- MCTypeTests
  Owners <- MCOwners
  Root = "root"
  CliLayers <- MCCliLayers
  Requests <- MCRequests
  GatedUnits <- MCGatedUnits
INVARIANTS
  CliInv
  PlanHonoursRequest
  ExitTellsOutcome
PROPERTIES
  OnlyOrphansWriteLate
  Terminates
CHECK_DEADLOCK FALSE
