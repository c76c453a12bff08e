\* Two harts and two processes: initproc, preempted in user mode, and its
\* child at forkret; timer interrupts in user and kernel mode on either hart.
CONSTANTS
  h1 = h1
  h2 = h2
  Harts <- MCHarts
  NP = 2
  TL = TL
  CL = CL
  NoOwner = NoOwner
SPECIFICATION Spec
INVARIANTS
  LockedIntrOff
  IntrRestored
  NoPanic
SYMMETRY HartSymmetry
