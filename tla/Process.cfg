SPECIFICATION FairSpec
CONSTANTS
  Procs = {init, p1, p2}
  InitProc = init
  None = None
  WaitPids = {0, 2, 3}
  WaitFlags = {TRUE, FALSE}
  KillPids = {0, 3}
INVARIANTS TypeOK PidUnique OneOwner ParentIsOwner NoLostChildExit
 
CHECK_DEADLOCK FALSE
