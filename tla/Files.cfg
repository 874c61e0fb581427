SPECIFICATION FairSpec
CONSTANTS
  Procs = {sh, c1}
  Shell = sh
  Pipes = {k1}
  None = None
  PIPE_CAPACITY = 1
  RlimCurr = 5
  FdArgs = {0, 3, 4}
  Lens = {1}
  OpenAcc = {"rw"}
  CloArgs = {FALSE}
  MaxOps = 2
  MaxSent = 2
INVARIANTS EofIsFinal FreeFromIsLeast
PROPERTY ReaderEnds
CHECK_DEADLOCK FALSE
