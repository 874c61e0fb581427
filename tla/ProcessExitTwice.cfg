SPECIFICATION Spec
CONSTANTS
  Procs = {init, p1, p2}
  InitProc = init
  None = None
  WaitPids = {0}
  WaitFlags = {FALSE}
  KillPids = {0}
SYMMETRY Perms
INVARIANT ExitsOnce
CHECK_DEADLOCK FALSE
