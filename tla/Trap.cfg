SPECIFICATION Spec
CONSTANTS
  Harts = {h1, h2}
  Readers = {r1, r2}
  NoHart = NoHart
  NoReader = NoReader
  TTY_BUFFER_LEN = 2
  ReadLens = {0, 2}
  MaxBytes = 3
  Threads = {t1, t2}
  FirstThread = t1
  SigHarts = {h1, h2}
  NoOne = NoOne
  Signal <- MCSignal
  Ignored = {3}
  Unhandled = {2}
  Actions <- MCActions
  MaskArgs <- MCMaskArgs
  Floats = {1, 2}
  MaxDepth = 2
  MaxOps = 3
INVARIANTS NoSleepOnInput   MaskRestored
SYMMETRY Perms
CHECK_DEADLOCK FALSE
