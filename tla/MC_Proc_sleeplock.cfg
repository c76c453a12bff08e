\* Two processes contend for one sleep lock on two harts; kill() may wake
\* the sleeper, which then tests the lock again.  Liveness is checked under
\* Proc!Fairness, so there is no symmetry (it is unsound for liveness).
CONSTANTS
  h1 = h1
  h2 = h2
  Harts <- MCHarts
  N = 2
  InitLive = 2
  MaxPid = 2
  UserOps = {"sleeplock", "kill"}
  KillArgs = {2}
  AllocOutcomes = {"ok"}
  CopyoutOk = {TRUE}
  NoProc = NoProc
  NoHart = NoHart
  NoChan = NoChan
  SL = SL
SPECIFICATION Spec
INVARIANTS
  TypeOK
  NoSharedContext
  SleepLockMutex
  NoLostWakeup
PROPERTIES
  SleeperWoken
