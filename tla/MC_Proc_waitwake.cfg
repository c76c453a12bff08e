\* exit() racing its parent's exit(): init, one child P, and P's child,
\* under Proc!Fairness.
CONSTANTS
  h1 = h1
  h2 = h2
  Harts <- MCHarts
  N = 3
  InitLive = 2
  MaxPid = 3
  UserOps = {"fork", "exit", "wait"}
  KillArgs = {}
  AllocOutcomes = {"ok"}
  CopyoutOk = {TRUE}
  NoProc = NoProc
  NoHart = NoHart
  NoChan = NoChan
  SL = SL
SPECIFICATION Spec
PROPERTIES
  WaitWakeup
