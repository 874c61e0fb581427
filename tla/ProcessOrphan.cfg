SPECIFICATION Spec
CONSTANTS
  Procs = {init, p1, p2, p3}
  InitProc = init
  None = None
  WaitPids = {0}
  WaitFlags = {FALSE}
  KillPids = {}
SYMMETRY Perms
INVARIANT InitSeesOrphans
CHECK_DEADLOCK FALSE
