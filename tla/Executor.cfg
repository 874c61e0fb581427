SPECIFICATION Spec
CONSTANTS
  Harts = {h1, h2}
  Tasks = {init, t1, t2}
  InitTask = init
  TaskLimit = 3
  MaxTime = 1
  None = None
SYMMETRY Perms
INVARIANTS TypeOK NoPanic RunnableUnique PolledOnce NoLostWakeup TimerKept AddressSpaceAlive
PROPERTY TerminatedIsFinal
CHECK_DEADLOCK FALSE
