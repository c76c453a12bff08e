-------------------------------- MODULE Intr --------------------------------
(***************************************************************************)
(* Interrupt enabling on each hart across spinlocks, traps and context     *)
(* switches: push_off/pop_off (intr.c), acquire/release (spinlock.c),      *)
(* the scheduler loop, sched, yield, forkret, sleep and wakeup (proc.c),   *)
(* usertrap, kerneltrap and devintr's timer case (trap.c), and timer_tick  *)
(* (timer.c).                                                              *)
(*                                                                         *)
(* A hart runs one context at a time: its scheduler (the context named by  *)
(* the hart itself) or a process.  swtch moves a hart from one context to  *)
(* the other; the process's own state (pc, the local intena of sched, the  *)
(* trap it is handling) travels with it to whichever hart runs it next.    *)
(* ie[h] is the SIE bit of sstatus, noff[h] and intena[h] the fields of    *)
(* struct cpu.  Each spinlock is the hart that holds it (lk->cpu).         *)
(*                                                                         *)
(* A process's system call is abstracted to the lock patterns the kernel   *)
(* uses: a critical section on a lock CL that wakes the sleepers on it     *)
(* (as consoleintr does on cons.lock), and sleep(chan, CL) (as             *)
(* consoleread does).  ticks itself is left out: nothing here reads it and *)
(* no sleeper waits on it (sys_sleep is not among the sources), so         *)
(* timer_tick is its lock pattern, tickslock and then every p->lock in     *)
(* wakeup(&ticks).                                                         *)
(***************************************************************************)
EXTENDS Integers, FiniteSets

CONSTANTS
  NP,        \* NPROC: process slots 1..NP, all in use
  Harts,     \* the harts
  TL,        \* tickslock
  CL,        \* the lock of the system call's condition (e.g. cons.lock)
  NoOwner    \* lk->cpu == 0

Procs == 1..NP
Ctx == Procs \cup Harts           \* a process, or the scheduler of a hart
Locks == Procs \cup {TL, CL}      \* p->lock for each slot, tickslock, CL

ASSUME NP \in Nat \ {0} /\ Harts \cap Procs = {} /\ NoOwner \notin Harts

VARIABLES
  ie,        \* ie[h]: sstatus.SIE of hart h
  noff,      \* mycpu()->noff
  intena,    \* mycpu()->intena
  owner,     \* owner[l]: the hart holding spinlock l, or NoOwner
  ctx,       \* ctx[h]: the context hart h runs
  cur,       \* mycpu()->proc, 0 when none
  state,     \* p->state
  pc,        \* pc[c]: where context c is in its kernel path
  idx,       \* idx[c]: the p of the loop context c is in
  saved,     \* saved[p]: the local intena of sched() in process p
  trap,      \* trap[c]: "none", or the trap handler c is in ("user" or "kernel")
  spie,      \* spie[c]: the sstatus kerneltrap saved (its SPIE bit)
  tpc,       \* tpc[c]: where kerneltrap returns to
  panicked   \* "no", or the message of a kernel panic

vars == <<ie, noff, intena, owner, ctx, cur, state, pc, idx, saved, trap,
          spie, tpc, panicked>>

PcVals == {"s_top", "s_acq", "s_test", "s_back", "forkret", "fr_ret", "user",
           "sys", "cs_wake", "cs_rel", "sl_lock", "sl_rel", "sl_sched",
           "sl_wake", "sl_reacq", "tt_acq", "tt_wake", "tt_rel", "y_acq",
           "y_sched", "y_rel", "y_ret"}

-----------------------------------------------------------------------------
(* Initial state: both harts have entered scheduler() after trapinithart() *)
(* set SIE; initproc (slot 1) was preempted in user mode by the timer and  *)
(* yielded, and its child (slot 2 on) has been forked and not run yet.     *)
Init ==
  /\ ie = [h \in Harts |-> TRUE]
  /\ noff = [h \in Harts |-> 0]
  /\ intena = [h \in Harts |-> FALSE]
  /\ owner = [l \in Locks |-> NoOwner]
  /\ ctx = [h \in Harts |-> h]
  /\ cur = [h \in Harts |-> 0]
  /\ state = [p \in Procs |-> "RUNNABLE"]
  /\ pc = [c \in Ctx |-> IF c \in Harts THEN "s_top"
                         ELSE IF c = 1 THEN "y_rel" ELSE "forkret"]
  /\ idx = [c \in Ctx |-> 1]
  /\ saved = [p \in Procs |-> FALSE]
  /\ trap = [c \in Ctx |-> IF c = 1 THEN "user" ELSE "none"]
  /\ spie = [c \in Ctx |-> FALSE]
  /\ tpc = [c \in Ctx |-> "s_top"]
  /\ panicked = "no"

-----------------------------------------------------------------------------
(* push_off(): old = intr_get(); intr_off(); if noff == 0, intena = old;  *)
(* noff += 1.  acquire(lk) is push_off, the holding() check that panics,  *)
(* and the spin: a hart whose lock is held by another has no step.         *)
PushOff(h) ==
  /\ ie' = [ie EXCEPT ![h] = FALSE]
  /\ intena' = [intena EXCEPT ![h] = IF noff[h] = 0 THEN ie[h] ELSE @]
  /\ noff' = [noff EXCEPT ![h] = @ + 1]

(* A mutation: interrupts back on at the release of an inner lock too.     *)
PopOffEager(h) ==
  /\ noff' = [noff EXCEPT ![h] = @ - 1]
  /\ ie' = [ie EXCEPT ![h] = IF intena[h] THEN TRUE ELSE @]
  /\ UNCHANGED intena

(* pop_off(): (panics if interruptible or noff < 1) noff -= 1; if noff     *)
(* reaches 0 and intena, intr_on().                                        *)
PopOff(h) ==
  /\ noff' = [noff EXCEPT ![h] = @ - 1]
  /\ ie' = [ie EXCEPT ![h] = IF noff[h] = 1 /\ intena[h] THEN TRUE ELSE @]
  /\ UNCHANGED intena

(* A panic stops the kernel: panicked is set and nothing else changes.     *)
Panic(msg) ==
  /\ panicked' = msg
  /\ UNCHANGED <<ie, noff, intena, owner, ctx, cur, state, pc, idx, saved,
                 trap, spie, tpc>>

(* acquire(l) on hart h, followed by the step's other effects rest: panic  *)
(* "acquire" if h holds l already; wait while another hart holds it.       *)
AcquireThen(h, l, rest) ==
  IF owner[l] = h THEN Panic("acquire")
  ELSE /\ owner[l] = NoOwner
       /\ owner' = [owner EXCEPT ![l] = h]
       /\ PushOff(h)
       /\ rest
       /\ UNCHANGED panicked

(* release(l) on hart h, then rest: panic "release" unless h holds l, and  *)
(* pop_off's panics.                                                       *)
ReleaseThen(h, l, rest) ==
  CASE owner[l] # h -> Panic("release")
    [] ie[h] -> Panic("pop_off - interruptible")
    [] noff[h] < 1 -> Panic("pop_off")
    [] OTHER -> /\ owner' = [owner EXCEPT ![l] = NoOwner]
                /\ PopOff(h)
                /\ rest
                /\ UNCHANGED panicked

Running == panicked = "no"
Goto(c, l) == pc' = [pc EXCEPT ![c] = l]
(* Hart h runs process p in its own context.                               *)
RunsProc(h, p) == ctx[h] = p /\ p \in Procs

-----------------------------------------------------------------------------
(* sched() in process p on hart h: panics unless it holds p->lock, noff is *)
(* 1, p is not RUNNING and interrupts are off; then intena = mycpu()->     *)
(* intena and swtch to the scheduler, to resume at label next.            *)
SchedChecks(h, p, st) ==
  CASE owner[p] # h -> "sched p->lock"
    [] noff[h] # 1 -> "sched locks"
    [] st = "RUNNING" -> "sched running"
    [] ie[h] -> "sched interruptible"
    [] OTHER -> "no"

(* The swtch out: p's context is saved with its intena, h's scheduler      *)
(* context resumes.                                                        *)
SwtchOut(h, p, next) ==
  /\ saved' = [saved EXCEPT ![p] = intena[h]]
  /\ ctx' = [ctx EXCEPT ![h] = h]
  /\ pc' = [pc EXCEPT ![p] = next]

(* A mutation: sched without mycpu()->intena = intena after swtch.         *)
SchedResumeNoRestore(h, p) == intena[h]

(* The swtch in: the scheduler switches to p.  A process first run starts  *)
(* in forkret with the hart's intena as the scheduler left it; any other   *)
(* returns from swtch inside sched(), which restores its own intena.       *)
SchedResume(h, p) == IF pc[p] = "forkret" THEN intena[h] ELSE saved[p]

-----------------------------------------------------------------------------
(* scheduler(): the top of for(;;) is intr_on().  (The intr_on and wfi     *)
(* after a pass that found nothing come back to the same place.)           *)
SchedTop(h) ==
  /\ Running /\ ctx[h] = h /\ pc[h] = "s_top"
  /\ ie' = [ie EXCEPT ![h] = TRUE]
  /\ idx' = [idx EXCEPT ![h] = 1]
  /\ Goto(h, "s_acq")
  /\ UNCHANGED <<noff, intena, owner, ctx, cur, state, saved, trap, spie, tpc,
                 panicked>>

(* scheduler(): acquire(&p->lock) for the next slot, or back to the top.   *)
SchedAcq(h) ==
  /\ Running /\ ctx[h] = h /\ pc[h] = "s_acq"
  /\ IF idx[h] <= NP
     THEN AcquireThen(h, idx[h],
            /\ Goto(h, "s_test")
            /\ UNCHANGED <<ctx, cur, state, idx, saved, trap, spie, tpc>>)
     ELSE /\ Goto(h, "s_top")
          /\ UNCHANGED <<ie, noff, intena, owner, ctx, cur, state, idx, saved,
                         trap, spie, tpc, panicked>>

(* scheduler(): a RUNNABLE p is set RUNNING, c->proc = p, and swtch runs   *)
(* it; any other slot is released.                                         *)
SchedTest(h) ==
  LET p == idx[h] IN
  /\ Running /\ ctx[h] = h /\ pc[h] = "s_test"
  /\ IF state[p] = "RUNNABLE"
     THEN /\ state' = [state EXCEPT ![p] = "RUNNING"]
          /\ cur' = [cur EXCEPT ![h] = p]
          /\ ctx' = [ctx EXCEPT ![h] = p]
          /\ intena' = [intena EXCEPT ![h] = SchedResume(h, p)]
          /\ Goto(h, "s_back")
          /\ UNCHANGED <<ie, noff, owner, idx, saved, trap, spie, tpc, panicked>>
     ELSE ReleaseThen(h, p,
            /\ idx' = [idx EXCEPT ![h] = @ + 1]
            /\ Goto(h, "s_acq")
            /\ UNCHANGED <<ctx, cur, state, saved, trap, spie, tpc>>)

(* scheduler(), back from swtch: c->proc = 0, release(&p->lock).           *)
SchedBack(h) ==
  /\ Running /\ ctx[h] = h /\ pc[h] = "s_back"
  /\ ReleaseThen(h, idx[h],
       /\ cur' = [cur EXCEPT ![h] = 0]
       /\ idx' = [idx EXCEPT ![h] = @ + 1]
       /\ Goto(h, "s_acq")
       /\ UNCHANGED <<ctx, state, saved, trap, spie, tpc>>)

(* sched() from yield ("y_sched") or sleep ("sl_sched").                   *)
Sched(h, p) ==
  LET m == SchedChecks(h, p, state[p]) IN
  /\ Running /\ RunsProc(h, p) /\ pc[p] \in {"y_sched", "sl_sched"}
  /\ IF m = "no"
     THEN /\ SwtchOut(h, p, IF pc[p] = "y_sched" THEN "y_rel" ELSE "sl_wake")
          /\ UNCHANGED <<ie, noff, intena, owner, cur, state, idx, trap, spie,
                         tpc, panicked>>
     ELSE Panic(m)

(* forkret(): release(&myproc()->lock).  (The first call's fat32_init is   *)
(* the file system's and is left out.)                                     *)
ForkRet(h, p) ==
  /\ Running /\ RunsProc(h, p) /\ pc[p] = "forkret"
  /\ ReleaseThen(h, p,
       /\ Goto(p, "fr_ret")
       /\ UNCHANGED <<ctx, cur, state, idx, saved, trap, spie, tpc>>)

(* usertrapret(): intr_off(), then sret to user mode with SPIE set, which  *)
(* turns interrupts on.  Reached from forkret, from a system call that     *)
(* returns (usertrap: which_dev == 0, no yield) and after usertrap's yield.*)
UserRet(h, p) ==
  /\ Running /\ RunsProc(h, p)
  /\ \/ pc[p] \in {"fr_ret", "sys"}
     \/ pc[p] = "y_ret" /\ trap[p] = "user"
  /\ ie' = [ie EXCEPT ![h] = TRUE]
  /\ trap' = [trap EXCEPT ![p] = "none"]
  /\ Goto(p, "user")
  /\ UNCHANGED <<noff, intena, owner, ctx, cur, state, idx, saved, spie, tpc,
                 panicked>>

(* usertrap() for an ecall: the trap clears SIE, then intr_on() and        *)
(* syscall().                                                              *)
Ecall(h, p) ==
  /\ Running /\ RunsProc(h, p) /\ pc[p] = "user"
  /\ ie' = [ie EXCEPT ![h] = TRUE]
  /\ Goto(p, "sys")
  /\ UNCHANGED <<noff, intena, owner, ctx, cur, state, idx, saved, trap, spie,
                 tpc, panicked>>

(* usertrap() for the timer: the trap clears SIE; devintr() calls          *)
(* timer_tick().                                                           *)
UserTimer(h, p) ==
  /\ Running /\ RunsProc(h, p) /\ pc[p] = "user"
  /\ ie' = [ie EXCEPT ![h] = FALSE]
  /\ trap' = [trap EXCEPT ![p] = "user"]
  /\ Goto(p, "tt_acq")
  /\ UNCHANGED <<noff, intena, owner, ctx, cur, state, idx, saved, spie, tpc,
                 panicked>>

(* kernelvec/kerneltrap(): a timer interrupt taken in kernel mode, in the  *)
(* scheduler or a process, wherever SIE is set.  kerneltrap saves sepc and *)
(* sstatus (whose SPIE is the SIE before the trap) and calls devintr().    *)
KernelTimer(h) ==
  LET c == ctx[h] IN
  /\ Running /\ ie[h] /\ pc[c] # "user" /\ trap[c] = "none"
  /\ ie' = [ie EXCEPT ![h] = FALSE]
  /\ trap' = [trap EXCEPT ![c] = "kernel"]
  /\ spie' = [spie EXCEPT ![c] = ie[h]]
  /\ tpc' = [tpc EXCEPT ![c] = pc[c]]
  /\ Goto(c, "tt_acq")
  /\ UNCHANGED <<noff, intena, owner, ctx, cur, state, idx, saved, panicked>>

(* timer_tick(): acquire(&tickslock); ticks++.                             *)
TickAcq(h) ==
  LET c == ctx[h] IN
  /\ Running /\ pc[c] = "tt_acq"
  /\ AcquireThen(h, TL,
       /\ idx' = [idx EXCEPT ![c] = 1]
       /\ Goto(c, "tt_wake")
       /\ UNCHANGED <<ctx, cur, state, saved, trap, spie, tpc>>)

(* wakeup(&ticks), one slot per step: acquire(&p->lock), test, release.    *)
(* Nobody sleeps on &ticks here, so only the locking is left.              *)
TickWake(h) ==
  LET c == ctx[h]
      q == idx[c] IN
  /\ Running /\ pc[c] = "tt_wake"
  /\ IF owner[q] = h THEN Panic("acquire")
     ELSE /\ owner[q] = NoOwner
          /\ idx' = [idx EXCEPT ![c] = @ + 1]
          /\ Goto(c, IF q = NP THEN "tt_rel" ELSE "tt_wake")
          /\ UNCHANGED <<ie, noff, intena, owner, ctx, cur, state, saved, trap,
                         spie, tpc, panicked>>

(* release(&tickslock); devintr() returns 2.  usertrap() then yields;      *)
(* kerneltrap() yields only if myproc() != 0 and it is RUNNING.            *)
TickRel(h) ==
  LET c == ctx[h] IN
  /\ Running /\ pc[c] = "tt_rel"
  /\ ReleaseThen(h, TL,
       /\ Goto(c, IF trap[c] = "user" \/ (cur[h] # 0 /\ state[cur[h]] = "RUNNING")
                  THEN "y_acq" ELSE "y_ret")
       /\ UNCHANGED <<ctx, cur, state, idx, saved, trap, spie, tpc>>)

(* kerneltrap(): w_sepc, w_sstatus(sstatus), and sret, which sets SIE to   *)
(* the saved SPIE; the interrupted code resumes.                           *)
KernelRet(h) ==
  LET c == ctx[h] IN
  /\ Running /\ pc[c] = "y_ret" /\ trap[c] = "kernel"
  /\ ie' = [ie EXCEPT ![h] = spie[c]]
  /\ trap' = [trap EXCEPT ![c] = "none"]
  /\ Goto(c, tpc[c])
  /\ UNCHANGED <<noff, intena, owner, ctx, cur, state, idx, saved, spie, tpc,
                 panicked>>

(* yield(): acquire(&p->lock); p->state = RUNNABLE; then sched().          *)
Yield(h, p) ==
  /\ Running /\ RunsProc(h, p) /\ pc[p] = "y_acq"
  /\ AcquireThen(h, p,
       /\ state' = [state EXCEPT ![p] = "RUNNABLE"]
       /\ Goto(p, "y_sched")
       /\ UNCHANGED <<ctx, cur, idx, saved, trap, spie, tpc>>)

(* yield(), back from sched(): release(&p->lock).                          *)
YieldRel(h, p) ==
  /\ Running /\ RunsProc(h, p) /\ pc[p] = "y_rel"
  /\ ReleaseThen(h, p,
       /\ Goto(p, "y_ret")
       /\ UNCHANGED <<ctx, cur, state, idx, saved, trap, spie, tpc>>)

-----------------------------------------------------------------------------
(* A system call's critical section: acquire(CL), wakeup(chan) over every  *)
(* slot, release(CL).                                                      *)
SysCs(h, p) ==
  /\ Running /\ RunsProc(h, p) /\ pc[p] = "sys"
  /\ AcquireThen(h, CL,
       /\ idx' = [idx EXCEPT ![p] = 1]
       /\ Goto(p, "cs_wake")
       /\ UNCHANGED <<ctx, cur, state, saved, trap, spie, tpc>>)

(* wakeup(chan), one slot per step: a SLEEPING process becomes RUNNABLE.   *)
CsWake(h, p) ==
  LET q == idx[p] IN
  /\ Running /\ RunsProc(h, p) /\ pc[p] = "cs_wake"
  /\ IF owner[q] = h THEN Panic("acquire")
     ELSE /\ owner[q] = NoOwner
          /\ state' = [state EXCEPT ![q] = IF @ = "SLEEPING" THEN "RUNNABLE" ELSE @]
          /\ idx' = [idx EXCEPT ![p] = @ + 1]
          /\ Goto(p, IF q = NP THEN "cs_rel" ELSE "cs_wake")
          /\ UNCHANGED <<ie, noff, intena, owner, ctx, cur, saved, trap, spie,
                         tpc, panicked>>

(* The end of the system call: release(CL).                                *)
CsRel(h, p) ==
  /\ Running /\ RunsProc(h, p) /\ pc[p] = "cs_rel"
  /\ ReleaseThen(h, CL,
       /\ Goto(p, "sys")
       /\ UNCHANGED <<ctx, cur, state, idx, saved, trap, spie, tpc>>)

(* A system call that waits: acquire(CL), then sleep(chan, CL).            *)
SysSleep(h, p) ==
  /\ Running /\ RunsProc(h, p) /\ pc[p] = "sys"
  /\ AcquireThen(h, CL,
       /\ Goto(p, "sl_lock")
       /\ UNCHANGED <<ctx, cur, state, idx, saved, trap, spie, tpc>>)

(* sleep(): lk != &p->lock, so acquire(&p->lock).                          *)
SleepLock(h, p) ==
  /\ Running /\ RunsProc(h, p) /\ pc[p] = "sl_lock"
  /\ AcquireThen(h, p,
       /\ Goto(p, "sl_rel")
       /\ UNCHANGED <<ctx, cur, state, idx, saved, trap, spie, tpc>>)

(* A mutation: sleep() that keeps lk across sched().                       *)
SleepRelNoRelease(h, p) ==
  /\ state' = [state EXCEPT ![p] = "SLEEPING"]
  /\ Goto(p, "sl_sched")
  /\ UNCHANGED <<ie, noff, intena, owner, ctx, cur, idx, saved, trap, spie, tpc,
                 panicked>>

(* sleep(): release(lk); p->chan = chan; p->state = SLEEPING; sched().     *)
SleepRel(h, p) ==
  ReleaseThen(h, CL,
    /\ state' = [state EXCEPT ![p] = "SLEEPING"]
    /\ Goto(p, "sl_sched")
    /\ UNCHANGED <<ctx, cur, idx, saved, trap, spie, tpc>>)

SleepRelease(h, p) ==
  /\ Running /\ RunsProc(h, p) /\ pc[p] = "sl_rel"
  /\ SleepRel(h, p)

(* sleep(), back from sched(): p->chan = 0; release(&p->lock).             *)
SleepWake(h, p) ==
  /\ Running /\ RunsProc(h, p) /\ pc[p] = "sl_wake"
  /\ ReleaseThen(h, p,
       /\ Goto(p, "sl_reacq")
       /\ UNCHANGED <<ctx, cur, state, idx, saved, trap, spie, tpc>>)

(* sleep(): acquire(lk) again; the system call ends with release(CL).     *)
SleepReacq(h, p) ==
  /\ Running /\ RunsProc(h, p) /\ pc[p] = "sl_reacq"
  /\ AcquireThen(h, CL,
       /\ Goto(p, "cs_rel")
       /\ UNCHANGED <<ctx, cur, state, idx, saved, trap, spie, tpc>>)

-----------------------------------------------------------------------------
Next ==
  \/ \E h \in Harts :
       \/ SchedTop(h) \/ SchedAcq(h) \/ SchedTest(h) \/ SchedBack(h)
       \/ KernelTimer(h) \/ TickAcq(h) \/ TickWake(h) \/ TickRel(h)
       \/ KernelRet(h)
  \/ \E h \in Harts, p \in Procs :
       \/ Sched(h, p) \/ ForkRet(h, p) \/ UserRet(h, p) \/ Ecall(h, p)
       \/ UserTimer(h, p) \/ Yield(h, p) \/ YieldRel(h, p)
       \/ SysCs(h, p) \/ CsWake(h, p) \/ CsRel(h, p) \/ SysSleep(h, p)
       \/ SleepLock(h, p) \/ SleepRelease(h, p) \/ SleepWake(h, p)
       \/ SleepReacq(h, p)

Spec == Init /\ [][Next]_vars

-----------------------------------------------------------------------------
(* acquire/release/push_off/pop_off: the contract of spinlock.c.  On every *)
(* hart noff counts the spinlocks the hart holds, across the locks taken   *)
(* in one context and released in the other around swtch, and interrupts   *)
(* are off while it holds any.                                             *)
LockedIntrOff ==
  \A h \in Harts :
    /\ noff[h] = Cardinality({l \in Locks : owner[l] = h})
    /\ noff[h] > 0 => ~ie[h]

(* sched()'s save and restore of intena: wherever a context resumes on     *)
(* another hart, a trap handler (usertrap, kerneltrap) keeps interrupts    *)
(* off until its sret, and a system call whose sleep() returned, or whose  *)
(* critical section ended, runs with interrupts on as it did before.       *)
IntrRestored ==
  \A h \in Harts :
    LET c == ctx[h] IN
    /\ trap[c] # "none" => ~ie[h]
    /\ pc[c] \in {"sys", "sl_reacq"} /\ trap[c] = "none" => ie[h]

(* The assertions of acquire, release, pop_off and sched never fire:      *)
(* sleep() gives up its condition lock before sched(), and no path enters *)
(* sched() with a second lock held or with interrupts on.                  *)
NoPanic == panicked = "no"

=============================================================================
