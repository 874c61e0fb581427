SPECIFICATION FairSpec
CONSTANTS
  Harts = {h1, h2}
  Tasks = {init, t1}
  InitTask = init
  TaskLimit = 2
  MaxTime = 1
  None = None
PROPERTIES ImplementsPromise WokenIsPolled SleepEnds
CHECK_DEADLOCK FALSE
