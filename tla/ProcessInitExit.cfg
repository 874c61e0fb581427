SPECIFICATION Spec
CONSTANTS
  Procs = {init, p1, p2}
  InitProc = init
  None = None
  WaitPids = {0}
  WaitFlags = {FALSE}
  KillPids = {}
SYMMETRY Perms
INVARIANT InitLeavesNobody
CHECK_DEADLOCK FALSE
