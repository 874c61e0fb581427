SPECIFICATION Spec
CONSTANTS
  DataClusters = 6
  Content <- MCContent
  DiskFat <- MCFat
  FsInfos <- MCFsInfos
  Procs = {p1, p2}
  RootChain <- MCRootChain
  Calls <- MCCalls
  MaxCalls = 3
SYMMETRY Perms
INVARIANTS EntryMatches ExclOnce NoLockCycle AllocFindsFree NamesFound
CHECK_DEADLOCK FALSE
