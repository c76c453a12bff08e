\* Process 2 reads the console on one hart while the uart interrupt may
\* deliver any key on either hart, and process 1 may kill the reader.  A
\* two-byte buffer with indices modulo 4 makes a full buffer, the ^D
\* push-back and every wrap of the indices reachable.
CONSTANTS
  h1 = h1
  h2 = h2
  Harts <- MCHarts
  N = 2
  InitLive = 2
  MaxPid = 2
  UserOps = {"kill"}
  KillArgs = {2}
  AllocOutcomes = {"ok"}
  CopyoutOk = {TRUE}
  NoProc = NoProc
  NoHart = NoHart
  NoChan = NoChan
  SL = SL
  InputBuf = 2
  IdxMod = 4
  Keys = {"a", "nl", "eof", "bs", "kill"}
  Readers = {2}
  ReadLens = {1, 2}
  ReadCopyoutOk = {TRUE, FALSE}
  CONS = CONS
  Nul = Nul
SPECIFICATION ConsSpec
INVARIANTS
  ConsTypeOK
  ConsNoLostWakeup
PROPERTIES
  ConsRefines
