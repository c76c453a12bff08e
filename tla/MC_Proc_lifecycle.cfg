\* fork/exit/wait/kill on three slots and two harts: init and one child
\* at the start, pids up to 4, allocation failures that roll back.
CONSTANTS
  h1 = h1
  h2 = h2
  Harts <- MCHarts
  N = 3
  InitLive = 2
  MaxPid = 4
  UserOps = {"fork", "exit", "wait", "kill"}
  KillArgs = {3}
  AllocOutcomes = {"ok", "pagetable"}
  CopyoutOk = {TRUE, FALSE}
  NoProc = NoProc
  NoHart = NoHart
  NoChan = NoChan
  SL = SL
SPECIFICATION Spec
INVARIANTS
  OrphansAdopted
SYMMETRY HartSymmetry
