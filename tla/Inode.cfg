SPECIFICATION Spec
CONSTANTS
  Tasks = {t1, t2}
  Opens = {f1, f2}
  None = None
  PAGE_SIZE = 2
  SectorPerCluster = 2
  DiskLen = 3
  ReadLens = {3}
  WriteLens = {2}
  Seeks = {1}
  AppendOpens = {f2}
  MaxPos = 4
  MaxCalls = 4
SYMMETRY Perms
INVARIANTS TypeOK  NoSharedRange WaitsEnd
CHECK_DEADLOCK FALSE
