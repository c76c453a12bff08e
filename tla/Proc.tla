-------------------------------- MODULE Proc --------------------------------
(***************************************************************************)
(* The process table, the per-hart scheduler loop, sleep/wakeup and the    *)
(* sleep lock of src/kernel/proc.c and src/kernel/sleeplock.c.             *)
(*                                                                         *)
(* Slots 1..N are the entries of proc[NPROC]; slot InitProc is initproc.   *)
(* Each slot's spinlock p->lock is modelled by the hart holding it         *)
(* (spinlock.cpu), because xv6 locks belong to harts, not to processes:    *)
(* the scheduler acquires p->lock and the process releases it after        *)
(* swtch, and vice versa.  Every acquire is a step of its own, so a hart   *)
(* spinning on a held lock simply has no enabled step.  Code between two   *)
(* lock operations that touches only state guarded by the locks the hart   *)
(* holds is folded into one step.                                          *)
(*                                                                         *)
(* A hart is in its scheduler loop ("scan"), running the process           *)
(* cpuProc[h] ("run"), or has just come back from swtch to the scheduler   *)
(* ("back").  A process's position in its kernel path is pc[p].            *)
(***************************************************************************)
EXTENDS Integers, FiniteSets

CONSTANTS
  N,              \* NPROC: number of process slots
  Harts,          \* the harts (NCPU)
  MaxPid,         \* bound on allocpid(): a fork is started only if every fork
                  \* in progress can still get a pid <= MaxPid
  UserOps,        \* system calls the user programs may make
  KillArgs,       \* pids user programs pass to kill()
  AllocOutcomes,  \* outcomes of the allocations in allocproc/fork
  CopyoutOk,      \* outcomes of copyout2 of the exit status in wait()
  InitLive,       \* number of live processes in the initial state
  NoProc, NoHart, NoChan, SL   \* model values

Procs == 1..N
InitProc == 1
Chans == Procs \cup {SL, NoChan}
States == {"UNUSED", "SLEEPING", "RUNNABLE", "RUNNING", "ZOMBIE"}

ASSUME /\ N \in Nat \ {0}
       /\ InitLive \in 1..N
       /\ MaxPid \in Nat /\ MaxPid >= InitLive
       /\ UserOps \subseteq {"fork", "exit", "wait", "kill", "sleeplock"}
       /\ KillArgs \subseteq 0..MaxPid /\ 1 \notin KillArgs
       /\ AllocOutcomes \subseteq {"ok", "trapframe", "pagetable"}
       /\ CopyoutOk \subseteq BOOLEAN /\ CopyoutOk # {}

VARIABLES
  state, parent, chan, killed, pid,   \* fields of struct proc under p->lock
  lock,       \* lock[p]: hart holding proc[p].lock, or NoHart
  cpuProc,    \* cpus[h].proc
  hpc,        \* "scan" | "run" | "back"
  hidx,       \* the scheduler loop's cursor p
  pc,         \* kernel program counter of each process
  idx,        \* loop cursor of the process's current kernel path
  op,         \* exit(): original_parent
  havekids,   \* wait(): havekids
  target,     \* kill(): the pid argument
  nextpid,    \* allocpid()'s counter
  lk,         \* sleeplock.lk: hart holding the sleep lock's spinlock
  slLocked,   \* sleeplock.locked
  slPid,      \* sleeplock.pid
  killedPids  \* history: pids some kill() call has succeeded on

procVars == <<state, parent, chan, killed, pid>>
vars == <<state, parent, chan, killed, pid, lock, cpuProc, hpc, hidx, pc,
          idx, op, havekids, target, nextpid, lk, slLocked, slPid, killedPids>>

Labels == {"user", "forkret", "yield_user", "yield_cs", "zombie", "idle",
           "fork_scan", "exit_wakeinit", "exit_getparent", "exit_lockparent",
           "exit_lockself", "exit_reparent", "wait_lock", "wait_scan",
           "wait_wake", "kill_scan", "acq_lk", "acq_test", "acq_sleep",
           "acq_wake", "acq_relk", "cs", "rel_scan"}

-----------------------------------------------------------------------------
(* Initial state: userinit() has run (slot 1 holds initproc, RUNNABLE, at  *)
(* forkret) and initproc has forked InitLive-1 children, which have not    *)
(* run yet, before it was preempted by a timer interrupt.                  *)
Init ==
  /\ state = [p \in Procs |-> IF p <= InitLive THEN "RUNNABLE" ELSE "UNUSED"]
  /\ parent = [p \in Procs |-> IF 1 < p /\ p <= InitLive THEN InitProc ELSE NoProc]
  /\ chan = [p \in Procs |-> NoChan]
  /\ killed = [p \in Procs |-> FALSE]
  /\ pid = [p \in Procs |-> IF p <= InitLive THEN p ELSE 0]
  /\ lock = [p \in Procs |-> NoHart]
  /\ cpuProc = [h \in Harts |-> NoProc]
  /\ hpc = [h \in Harts |-> "scan"]
  /\ hidx = [h \in Harts |-> 1]
  /\ pc = [p \in Procs |-> IF p = InitProc /\ InitLive > 1 THEN "yield_user"
                           ELSE IF p <= InitLive THEN "forkret" ELSE "idle"]
  /\ idx = [p \in Procs |-> 1]
  /\ op = [p \in Procs |-> NoProc]
  /\ havekids = [p \in Procs |-> FALSE]
  /\ target = [p \in Procs |-> 0]
  /\ nextpid = InitLive + 1
  /\ lk = NoHart
  /\ slLocked = FALSE
  /\ slPid = 0
  /\ killedPids = {}

-----------------------------------------------------------------------------
(* Helpers.                                                                *)
Free(p) == lock[p] = NoHart
(* A mutation: the scheduler's p++ without the wrap of for(;;).         *)
NextSlotNoWrap(i) == i + 1
NextSlot(i) == IF i = N THEN 1 ELSE i + 1
Goto(p, l) == pc' = [pc EXCEPT ![p] = l]
Swtch(h) == hpc' = [hpc EXCEPT ![h] = "back"]

(* wakeup1(p): wake p if it sleeps in wait() on itself.                    *)
Wakeup1(st, p) == IF chan[p] = p /\ st[p] = "SLEEPING"
                  THEN [st EXCEPT ![p] = "RUNNABLE"] ELSE st

(* A mutation: freeproc() forgetting p->killed = 0.                       *)
FreeProcKeepKilled(p) ==
  /\ state' = [state EXCEPT ![p] = "UNUSED"]
  /\ pid' = [pid EXCEPT ![p] = 0]
  /\ parent' = [parent EXCEPT ![p] = NoProc]
  /\ chan' = [chan EXCEPT ![p] = NoChan]
  /\ UNCHANGED killed

(* freeproc(p): clears every field guarded by p->lock; the slot is UNUSED. *)
FreeProc(p) ==
  /\ state' = [state EXCEPT ![p] = "UNUSED"]
  /\ pid' = [pid EXCEPT ![p] = 0]
  /\ parent' = [parent EXCEPT ![p] = NoProc]
  /\ chan' = [chan EXCEPT ![p] = NoChan]
  /\ killed' = [killed EXCEPT ![p] = FALSE]

-----------------------------------------------------------------------------
(* scheduler(): one iteration of the inner loop over proc[].               *)
(* acquire(&p->lock); not RUNNABLE; release(&p->lock).                     *)
SchedSkip(h) ==
  /\ hpc[h] = "scan"
  /\ Free(hidx[h])
  /\ state[hidx[h]] # "RUNNABLE"
  /\ hidx' = [hidx EXCEPT ![h] = NextSlot(hidx[h])]
  /\ UNCHANGED <<procVars, lock, cpuProc, hpc, pc, idx, op, havekids, target,
                 nextpid, lk, slLocked, slPid, killedPids>>

(* A mutation: the scheduler taking a RUNNABLE slot without waiting for   *)
(* p->lock to be free, e.g. while the hart that set it RUNNABLE is still   *)
(* switching away from it.                                                 *)
SchedRunUnlocked(h) ==
  LET i == hidx[h] IN
  /\ hpc[h] = "scan"
  /\ state[i] = "RUNNABLE"
  /\ lock' = [lock EXCEPT ![i] = h]
  /\ state' = [state EXCEPT ![i] = "RUNNING"]
  /\ cpuProc' = [cpuProc EXCEPT ![h] = i]
  /\ hpc' = [hpc EXCEPT ![h] = "run"]
  /\ UNCHANGED <<parent, chan, killed, pid, hidx, pc, idx, op, havekids,
                 target, nextpid, lk, slLocked, slPid, killedPids>>

(* acquire(&p->lock); RUNNABLE: state = RUNNING, c->proc = p, swtch to p.  *)
SchedRun(h) ==
  LET i == hidx[h] IN
  /\ hpc[h] = "scan"
  /\ Free(i)
  /\ state[i] = "RUNNABLE"
  /\ lock' = [lock EXCEPT ![i] = h]
  /\ state' = [state EXCEPT ![i] = "RUNNING"]
  /\ cpuProc' = [cpuProc EXCEPT ![h] = i]
  /\ hpc' = [hpc EXCEPT ![h] = "run"]
  /\ UNCHANGED <<parent, chan, killed, pid, hidx, pc, idx, op, havekids, target,
                 nextpid, lk, slLocked, slPid, killedPids>>

(* Back from swtch: c->proc = 0; release(&p->lock); next slot.             *)
SchedResume(h) ==
  /\ hpc[h] = "back"
  /\ lock[hidx[h]] = h
  /\ lock' = [lock EXCEPT ![hidx[h]] = NoHart]
  /\ cpuProc' = [cpuProc EXCEPT ![h] = NoProc]
  /\ hpc' = [hpc EXCEPT ![h] = "scan"]
  /\ hidx' = [hidx EXCEPT ![h] = NextSlot(hidx[h])]
  /\ UNCHANGED <<procVars, pc, idx, op, havekids, target, nextpid, lk,
                 slLocked, slPid, killedPids>>

-----------------------------------------------------------------------------
(* Steps of the process p that hart h is running.                          *)
Running(h, p) == hpc[h] = "run" /\ cpuProc[h] = p

(* A mutation: the return from yield() always goes back to user space,    *)
(* leaving a sleep-lock critical section without releasing the lock.      *)
ReturnFromSwtchToUser(h, p) ==
  /\ Running(h, p)
  /\ pc[p] \in {"forkret", "yield_user", "yield_cs"}
  /\ lock[p] = h
  /\ lock' = [lock EXCEPT ![p] = NoHart]
  /\ Goto(p, "user")
  /\ UNCHANGED <<procVars, cpuProc, hpc, hidx, idx, op, havekids, target,
                 nextpid, lk, slLocked, slPid, killedPids>>

(* forkret() / the tail of yield(): release(&p->lock), then usertrapret.   *)
(* yield() called from kerneltrap inside a sleep-lock critical section     *)
(* returns to that critical section.                                       *)
ReturnFromSwtch(h, p) ==
  /\ Running(h, p)
  /\ pc[p] \in {"forkret", "yield_user", "yield_cs"}
  /\ lock[p] = h
  /\ lock' = [lock EXCEPT ![p] = NoHart]
  /\ Goto(p, IF pc[p] = "yield_cs" THEN "cs" ELSE "user")
  /\ UNCHANGED <<procVars, cpuProc, hpc, hidx, idx, op, havekids, target,
                 nextpid, lk, slLocked, slPid, killedPids>>

(* Timer interrupt: devintr() returns 2 and usertrap()/kerneltrap() call   *)
(* yield(): acquire(&p->lock); state = RUNNABLE; sched().  In usertrap a   *)
(* killed process exits instead (UserKilled).                              *)
TimerYield(h, p) ==
  /\ Running(h, p)
  /\ \/ pc[p] = "user" /\ ~killed[p]
     \/ pc[p] = "cs"
  /\ Free(p)
  /\ lock' = [lock EXCEPT ![p] = h]
  /\ state' = [state EXCEPT ![p] = "RUNNABLE"]
  /\ Swtch(h)
  /\ Goto(p, IF pc[p] = "cs" THEN "yield_cs" ELSE "yield_user")
  /\ UNCHANGED <<parent, chan, killed, pid, cpuProc, hidx, idx, op, havekids,
                 target, nextpid, lk, slLocked, slPid, killedPids>>

(* usertrap(): if (p->killed) exit(-1).                                    *)
UserKilled(h, p) ==
  /\ Running(h, p)
  /\ pc[p] = "user"
  /\ killed[p]
  /\ p # InitProc
  /\ Goto(p, "exit_wakeinit")
  /\ UNCHANGED <<procVars, lock, cpuProc, hpc, hidx, idx, op, havekids, target,
                 nextpid, lk, slLocked, slPid, killedPids>>

(* A system call from user mode (usertrap(), scause 8, not killed).        *)
Syscall(h, p) ==
  /\ Running(h, p)
  /\ pc[p] = "user"
  /\ ~killed[p]
  /\ \/ /\ "fork" \in UserOps
        /\ nextpid + Cardinality({q \in Procs : pc[q] = "fork_scan"}) <= MaxPid
        /\ Goto(p, "fork_scan")
        /\ idx' = [idx EXCEPT ![p] = 1]
        /\ UNCHANGED target
     \/ /\ "exit" \in UserOps
        /\ p # InitProc
        /\ Goto(p, "exit_wakeinit")
        /\ UNCHANGED <<idx, target>>
     \/ /\ "wait" \in UserOps
        /\ Goto(p, "wait_lock")
        /\ UNCHANGED <<idx, target>>
     \/ /\ "kill" \in UserOps
        /\ \E k \in KillArgs : target' = [target EXCEPT ![p] = k]
        /\ Goto(p, "kill_scan")
        /\ idx' = [idx EXCEPT ![p] = 1]
     \/ /\ "sleeplock" \in UserOps
        /\ Goto(p, "acq_lk")
        /\ UNCHANGED <<idx, target>>
  /\ UNCHANGED <<procVars, lock, cpuProc, hpc, hidx, op, havekids, nextpid,
                 lk, slLocked, slPid, killedPids>>

-----------------------------------------------------------------------------
(* fork() -> allocproc(): for each slot, acquire(&p->lock); UNUSED ->      *)
(* found; otherwise release(&p->lock).  At found, allocpid() (under        *)
(* pid_lock), then the allocations, each of which may fail:                *)
(*   "trapframe": kalloc() of the trapframe fails; allocproc releases the  *)
(*                lock and returns NULL with p->pid already assigned;      *)
(*   "pagetable": proc_pagetable/proc_kpagetable or uvmcopy fails and      *)
(*                freeproc() clears the slot;                              *)
(*   "ok":        the child is set up (parent, trapframe copy, files,      *)
(*                cwd), state = RUNNABLE, release(&np->lock).              *)
(* allocproc never clears p->killed: only freeproc() does.                 *)
ForkFound(i, p, o) ==
  /\ nextpid' = nextpid + 1
  /\ CASE o = "ok" ->
            /\ state' = [state EXCEPT ![i] = "RUNNABLE"]
            /\ pid' = [pid EXCEPT ![i] = nextpid]
            /\ parent' = [parent EXCEPT ![i] = p]
            /\ pc' = [pc EXCEPT ![i] = "forkret", ![p] = "user"]
            /\ UNCHANGED <<chan, killed>>
       [] o = "trapframe" ->
            /\ pid' = [pid EXCEPT ![i] = nextpid]
            /\ Goto(p, "user")
            /\ UNCHANGED <<state, parent, chan, killed>>
       [] o = "pagetable" ->
            /\ FreeProc(i)
            /\ Goto(p, "user")

ForkScan(h, p) ==
  LET i == idx[p] IN
  /\ Running(h, p)
  /\ pc[p] = "fork_scan"
  /\ i <= N
  /\ Free(i)
  /\ IF state[i] = "UNUSED"
     THEN /\ \E o \in AllocOutcomes : ForkFound(i, p, o)
          /\ UNCHANGED idx
     ELSE /\ idx' = [idx EXCEPT ![p] = i + 1]
          /\ UNCHANGED <<procVars, pc, nextpid>>
  /\ UNCHANGED <<lock, cpuProc, hpc, hidx, op, havekids, target, lk, slLocked,
                 slPid, killedPids>>

(* allocproc() found no UNUSED slot: fork returns -1.                      *)
ForkFull(h, p) ==
  /\ Running(h, p)
  /\ pc[p] = "fork_scan"
  /\ idx[p] = N + 1
  /\ Goto(p, "user")
  /\ UNCHANGED <<procVars, lock, cpuProc, hpc, hidx, idx, op, havekids, target,
                 nextpid, lk, slLocked, slPid, killedPids>>

-----------------------------------------------------------------------------
(* exit(status).  Closing the open files and eput(cwd) touch no state of   *)
(* this module and are left out.                                           *)
(* acquire(&initproc->lock); wakeup1(initproc); release(&initproc->lock).  *)
ExitWakeInit(h, p) ==
  /\ Running(h, p)
  /\ pc[p] = "exit_wakeinit"
  /\ Free(InitProc)
  /\ state' = Wakeup1(state, InitProc)
  /\ Goto(p, "exit_getparent")
  /\ UNCHANGED <<parent, chan, killed, pid, lock, cpuProc, hpc, hidx, idx, op,
                 havekids, target, nextpid, lk, slLocked, slPid, killedPids>>

(* acquire(&p->lock); original_parent = p->parent; release(&p->lock).      *)
ExitGetParent(h, p) ==
  /\ Running(h, p)
  /\ pc[p] = "exit_getparent"
  /\ Free(p)
  /\ op' = [op EXCEPT ![p] = parent[p]]
  /\ Goto(p, "exit_lockparent")
  /\ UNCHANGED <<procVars, lock, cpuProc, hpc, hidx, idx, havekids, target,
                 nextpid, lk, slLocked, slPid, killedPids>>

(* acquire(&original_parent->lock).                                        *)
ExitLockParent(h, p) ==
  /\ Running(h, p)
  /\ pc[p] = "exit_lockparent"
  /\ Free(op[p])
  /\ lock' = [lock EXCEPT ![op[p]] = h]
  /\ Goto(p, "exit_lockself")
  /\ UNCHANGED <<procVars, cpuProc, hpc, hidx, idx, op, havekids, target,
                 nextpid, lk, slLocked, slPid, killedPids>>

(* acquire(&p->lock); then reparent(p) starts.                             *)
ExitLockSelf(h, p) ==
  /\ Running(h, p)
  /\ pc[p] = "exit_lockself"
  /\ Free(p)
  /\ lock' = [lock EXCEPT ![p] = h]
  /\ idx' = [idx EXCEPT ![p] = 1]
  /\ Goto(p, "exit_reparent")
  /\ UNCHANGED <<procVars, cpuProc, hpc, hidx, op, havekids, target, nextpid,
                 lk, slLocked, slPid, killedPids>>

(* A mutation: reparent() that gives no child to init.                    *)
ReparentNone(h, p) ==
  /\ Running(h, p)
  /\ pc[p] = "exit_reparent"
  /\ idx[p] <= N
  /\ idx' = [idx EXCEPT ![p] = idx[p] + 1]
  /\ UNCHANGED <<procVars, lock, cpuProc, hpc, hidx, pc, op, havekids, target,
                 nextpid, lk, slLocked, slPid, killedPids>>

(* reparent(p): for each slot whose parent (read without its lock) is p:   *)
(* acquire(&pp->lock); pp->parent = initproc; release(&pp->lock).          *)
Reparent(h, p) ==
  LET i == idx[p] IN
  /\ Running(h, p)
  /\ pc[p] = "exit_reparent"
  /\ i <= N
  /\ IF parent[i] = p
     THEN /\ Free(i)
          /\ parent' = [parent EXCEPT ![i] = InitProc]
     ELSE UNCHANGED parent
  /\ idx' = [idx EXCEPT ![p] = i + 1]
  /\ UNCHANGED <<state, chan, killed, pid, lock, cpuProc, hpc, hidx, pc, op,
                 havekids, target, nextpid, lk, slLocked, slPid, killedPids>>

(* wakeup1(original_parent); p->xstate = status; p->state = ZOMBIE;        *)
(* release(&original_parent->lock); sched().                               *)
ExitZombie(h, p) ==
  /\ Running(h, p)
  /\ pc[p] = "exit_reparent"
  /\ idx[p] = N + 1
  /\ state' = [Wakeup1(state, op[p]) EXCEPT ![p] = "ZOMBIE"]
  /\ lock' = [lock EXCEPT ![op[p]] = NoHart]
  /\ Swtch(h)
  /\ Goto(p, "zombie")
  /\ UNCHANGED <<parent, chan, killed, pid, cpuProc, hidx, idx, op, havekids,
                 target, nextpid, lk, slLocked, slPid, killedPids>>

-----------------------------------------------------------------------------
(* wait(addr): acquire(&p->lock), then the scan over proc[].               *)
WaitLock(h, p) ==
  /\ Running(h, p)
  /\ pc[p] = "wait_lock"
  /\ Free(p)
  /\ lock' = [lock EXCEPT ![p] = h]
  /\ idx' = [idx EXCEPT ![p] = 1]
  /\ havekids' = [havekids EXCEPT ![p] = FALSE]
  /\ Goto(p, "wait_scan")
  /\ UNCHANGED <<procVars, cpuProc, hpc, hidx, op, target, nextpid, lk,
                 slLocked, slPid, killedPids>>

(* One slot of the scan: if np->parent == p (read without np's lock):      *)
(* acquire(&np->lock); havekids = 1; a ZOMBIE child is reaped: copyout2    *)
(* of its xstate (failure returns -1 and leaves the zombie), freeproc(np), *)
(* release both locks, return its pid; otherwise release(&np->lock).       *)
WaitScan(h, p) ==
  LET i == idx[p] IN
  /\ Running(h, p)
  /\ pc[p] = "wait_scan"
  /\ i <= N
  /\ IF parent[i] = p
     THEN /\ Free(i)
          /\ IF state[i] = "ZOMBIE"
             THEN /\ \E ok \in CopyoutOk :
                       IF ok THEN /\ FreeProc(i)
                                  /\ pc' = [pc EXCEPT ![i] = "idle", ![p] = "user"]
                             ELSE /\ UNCHANGED procVars
                                  /\ Goto(p, "user")
                  /\ lock' = [lock EXCEPT ![p] = NoHart]
                  /\ UNCHANGED <<idx, havekids>>
             ELSE /\ havekids' = [havekids EXCEPT ![p] = TRUE]
                  /\ idx' = [idx EXCEPT ![p] = i + 1]
                  /\ UNCHANGED <<procVars, lock, pc>>
     ELSE /\ idx' = [idx EXCEPT ![p] = i + 1]
          /\ UNCHANGED <<procVars, lock, pc, havekids>>
  /\ UNCHANGED <<cpuProc, hpc, hidx, op, target, nextpid, lk, slLocked, slPid,
                 killedPids>>

(* End of the scan: no children or killed: release(&p->lock), return -1;   *)
(* otherwise sleep(p, &p->lock): p->chan = p; SLEEPING; sched().           *)
WaitEnd(h, p) ==
  /\ Running(h, p)
  /\ pc[p] = "wait_scan"
  /\ idx[p] = N + 1
  /\ IF ~havekids[p] \/ killed[p]
     THEN /\ lock' = [lock EXCEPT ![p] = NoHart]
          /\ Goto(p, "user")
          /\ UNCHANGED <<state, chan, hpc>>
     ELSE /\ chan' = [chan EXCEPT ![p] = p]
          /\ state' = [state EXCEPT ![p] = "SLEEPING"]
          /\ Swtch(h)
          /\ Goto(p, "wait_wake")
          /\ UNCHANGED lock
  /\ UNCHANGED <<parent, killed, pid, cpuProc, hidx, idx, op, havekids, target,
                 nextpid, lk, slLocked, slPid, killedPids>>

(* Back from sched() in sleep(): p->chan = 0; the lock is p->lock itself,  *)
(* so sleep returns holding it and wait's for(;;) scans again.             *)
WaitWake(h, p) ==
  /\ Running(h, p)
  /\ pc[p] = "wait_wake"
  /\ chan' = [chan EXCEPT ![p] = NoChan]
  /\ idx' = [idx EXCEPT ![p] = 1]
  /\ havekids' = [havekids EXCEPT ![p] = FALSE]
  /\ Goto(p, "wait_scan")
  /\ UNCHANGED <<state, parent, killed, pid, lock, cpuProc, hpc, hidx, op,
                 target, nextpid, lk, slLocked, slPid, killedPids>>

-----------------------------------------------------------------------------
(* kill(pid): for each slot, acquire(&p->lock); on a pid match set         *)
(* killed, make a SLEEPING process RUNNABLE, release and return 0;         *)
(* otherwise release.                                                      *)
KillScan(h, p) ==
  LET i == idx[p] IN
  /\ Running(h, p)
  /\ pc[p] = "kill_scan"
  /\ i <= N
  /\ Free(i)
  /\ IF pid[i] = target[p]
     THEN /\ killed' = [killed EXCEPT ![i] = TRUE]
          /\ state' = [state EXCEPT ![i] = IF @ = "SLEEPING" THEN "RUNNABLE" ELSE @]
          /\ killedPids' = killedPids \cup {target[p]}
          /\ Goto(p, "user")
          /\ UNCHANGED idx
     ELSE /\ idx' = [idx EXCEPT ![p] = i + 1]
          /\ UNCHANGED <<killed, state, killedPids, pc>>
  /\ UNCHANGED <<parent, chan, pid, lock, cpuProc, hpc, hidx, op, havekids,
                 target, nextpid, lk, slLocked, slPid>>

(* No slot has the pid: kill returns -1.                                   *)
KillMiss(h, p) ==
  /\ Running(h, p)
  /\ pc[p] = "kill_scan"
  /\ idx[p] = N + 1
  /\ Goto(p, "user")
  /\ UNCHANGED <<procVars, lock, cpuProc, hpc, hidx, idx, op, havekids, target,
                 nextpid, lk, slLocked, slPid, killedPids>>

-----------------------------------------------------------------------------
(* acquiresleep(lk): acquire(&lk->lk).                                     *)
AcqLk(h, p) ==
  /\ Running(h, p)
  /\ pc[p] = "acq_lk"
  /\ lk = NoHart
  /\ lk' = h
  /\ Goto(p, "acq_test")
  /\ UNCHANGED <<procVars, lock, cpuProc, hpc, hidx, idx, op, havekids, target,
                 nextpid, slLocked, slPid, killedPids>>

(* while (lk->locked) is false: locked = 1; pid = myproc()->pid;           *)
(* release(&lk->lk).                                                       *)
AcqGrant(h, p) ==
  /\ Running(h, p)
  /\ pc[p] = "acq_test"
  /\ ~slLocked
  /\ slLocked' = TRUE
  /\ slPid' = pid[p]
  /\ lk' = NoHart
  /\ Goto(p, "cs")
  /\ UNCHANGED <<procVars, lock, cpuProc, hpc, hidx, idx, op, havekids, target,
                 nextpid, killedPids>>

(* The lock is held: sleep(lk, &lk->lk) begins with acquire(&p->lock);     *)
(* release(lk).  Holding p->lock from here until sched() is what keeps a   *)
(* releaser's wakeup from passing p before p is SLEEPING.                  *)
AcqSleep(h, p) ==
  /\ Running(h, p)
  /\ pc[p] = "acq_test"
  /\ slLocked
  /\ Free(p)
  /\ lock' = [lock EXCEPT ![p] = h]
  /\ lk' = NoHart
  /\ Goto(p, "acq_sleep")
  /\ UNCHANGED <<procVars, cpuProc, hpc, hidx, idx, op, havekids, target,
                 nextpid, slLocked, slPid, killedPids>>

(* p->chan = chan; p->state = SLEEPING; sched().                           *)
AcqBlock(h, p) ==
  /\ Running(h, p)
  /\ pc[p] = "acq_sleep"
  /\ chan' = [chan EXCEPT ![p] = SL]
  /\ state' = [state EXCEPT ![p] = "SLEEPING"]
  /\ Swtch(h)
  /\ Goto(p, "acq_wake")
  /\ UNCHANGED <<parent, killed, pid, lock, cpuProc, hidx, idx, op, havekids,
                 target, nextpid, lk, slLocked, slPid, killedPids>>

(* Back from sched(): p->chan = 0; release(&p->lock).                      *)
AcqWake(h, p) ==
  /\ Running(h, p)
  /\ pc[p] = "acq_wake"
  /\ chan' = [chan EXCEPT ![p] = NoChan]
  /\ lock' = [lock EXCEPT ![p] = NoHart]
  /\ Goto(p, "acq_relk")
  /\ UNCHANGED <<state, parent, killed, pid, cpuProc, hpc, hidx, idx, op,
                 havekids, target, nextpid, lk, slLocked, slPid, killedPids>>

(* A mutation: `if (lk->locked)` in place of `while`: after waking, the    *)
(* lock is taken without testing locked again.                             *)
AcqRelkIf(h, p) ==
  /\ Running(h, p)
  /\ pc[p] = "acq_relk"
  /\ lk = NoHart
  /\ slLocked' = TRUE
  /\ slPid' = pid[p]
  /\ Goto(p, "cs")
  /\ UNCHANGED <<procVars, lock, cpuProc, hpc, hidx, idx, op, havekids, target,
                 nextpid, lk, killedPids>>

(* The end of sleep(): acquire(lk); back to the test of the while loop.    *)
AcqRelk(h, p) ==
  /\ Running(h, p)
  /\ pc[p] = "acq_relk"
  /\ lk = NoHart
  /\ lk' = h
  /\ Goto(p, "acq_test")
  /\ UNCHANGED <<procVars, lock, cpuProc, hpc, hidx, idx, op, havekids, target,
                 nextpid, slLocked, slPid, killedPids>>

(* releasesleep(lk): acquire(&lk->lk); locked = 0; pid = 0; then the loop  *)
(* of wakeup(lk) starts.                                                   *)
RelStart(h, p) ==
  /\ Running(h, p)
  /\ pc[p] = "cs"
  /\ lk = NoHart
  /\ lk' = h
  /\ slLocked' = FALSE
  /\ slPid' = 0
  /\ idx' = [idx EXCEPT ![p] = 1]
  /\ Goto(p, "rel_scan")
  /\ UNCHANGED <<procVars, lock, cpuProc, hpc, hidx, op, havekids, target,
                 nextpid, killedPids>>

(* A mutation: wakeup() testing a slot without acquiring its lock.         *)
RelScanNoLock(h, p) ==
  LET i == idx[p] IN
  /\ Running(h, p)
  /\ pc[p] = "rel_scan"
  /\ i <= N
  /\ state' = [state EXCEPT ![i] = IF @ = "SLEEPING" /\ chan[i] = SL
                                   THEN "RUNNABLE" ELSE @]
  /\ idx' = [idx EXCEPT ![p] = i + 1]
  /\ UNCHANGED <<parent, chan, killed, pid, lock, cpuProc, hpc, hidx, pc, op,
                 havekids, target, nextpid, lk, slLocked, slPid, killedPids>>

(* wakeup(lk), one slot: acquire(&p->lock); SLEEPING on lk -> RUNNABLE;    *)
(* release(&p->lock).                                                      *)
RelScan(h, p) ==
  LET i == idx[p] IN
  /\ Running(h, p)
  /\ pc[p] = "rel_scan"
  /\ i <= N
  /\ Free(i)
  /\ state' = [state EXCEPT ![i] = IF @ = "SLEEPING" /\ chan[i] = SL
                                   THEN "RUNNABLE" ELSE @]
  /\ idx' = [idx EXCEPT ![p] = i + 1]
  /\ UNCHANGED <<parent, chan, killed, pid, lock, cpuProc, hpc, hidx, pc, op,
                 havekids, target, nextpid, lk, slLocked, slPid, killedPids>>

(* release(&lk->lk) after the wakeup loop.                                 *)
RelDone(h, p) ==
  /\ Running(h, p)
  /\ pc[p] = "rel_scan"
  /\ idx[p] = N + 1
  /\ lk' = NoHart
  /\ Goto(p, "user")
  /\ UNCHANGED <<procVars, lock, cpuProc, hpc, hidx, idx, op, havekids, target,
                 nextpid, slLocked, slPid, killedPids>>

-----------------------------------------------------------------------------
(* The scheduler loop of hart h.                                           *)
Sched(h) == SchedSkip(h) \/ SchedRun(h) \/ SchedResume(h)

(* Every kernel step of process p on hart h past the return from swtch:   *)
(* everything it does between entering the kernel and returning to user   *)
(* mode, except being preempted.                                           *)
KernelPath(h, p) ==
  \/ UserKilled(h, p)
  \/ ForkScan(h, p) \/ ForkFull(h, p)
  \/ ExitWakeInit(h, p) \/ ExitGetParent(h, p) \/ ExitLockParent(h, p)
  \/ ExitLockSelf(h, p) \/ Reparent(h, p) \/ ExitZombie(h, p)
  \/ WaitLock(h, p) \/ WaitScan(h, p) \/ WaitEnd(h, p) \/ WaitWake(h, p)
  \/ KillScan(h, p) \/ KillMiss(h, p)
  \/ AcqLk(h, p) \/ AcqGrant(h, p) \/ AcqSleep(h, p) \/ AcqBlock(h, p)
  \/ AcqWake(h, p) \/ AcqRelk(h, p)
  \/ RelStart(h, p) \/ RelScan(h, p) \/ RelDone(h, p)

(* Every step hart h can take.                                            *)
HartStep(h) ==
  \/ Sched(h)
  \/ \E p \in Procs : \/ ReturnFromSwtch(h, p) \/ KernelPath(h, p)
                      \/ Syscall(h, p) \/ TimerYield(h, p)

Next == \E h \in Harts : HartStep(h)

(* Fairness.  Each hart runs its scheduler loop and the kernel code of the *)
(* process it runs; the timer interrupt preempts a process in user mode or *)
(* in a sleep-lock critical section.  These steps can be disabled while    *)
(* another hart holds a spinlock they acquire, so they are strongly fair:  *)
(* a spinlock that is released infinitely often is eventually won.  The    *)
(* return from swtch is separate from the rest of the kernel path, so that *)
(* a process preempted and resumed forever still makes progress.           *)
(* User programs are not required to make system calls.                    *)
Fairness ==
  /\ \A h \in Harts : SF_vars(Sched(h))
  /\ \A p \in Procs : SF_vars(\E h \in Harts : ReturnFromSwtch(h, p))
  /\ \A p \in Procs : SF_vars(\E h \in Harts : KernelPath(h, p))
  /\ \A p \in Procs : SF_vars(\E h \in Harts : TimerYield(h, p))

Spec == Init /\ [][Next]_vars /\ Fairness

-----------------------------------------------------------------------------
(* The types of the variables, for a composition that adds kernel paths  *)
(* (labels) and sleep channels.                                            *)
ProcTypeOK(labels, chans) ==
  /\ state \in [Procs -> States]
  /\ parent \in [Procs -> Procs \cup {NoProc}]
  /\ chan \in [Procs -> chans]
  /\ killed \in [Procs -> BOOLEAN]
  /\ pid \in [Procs -> 0..MaxPid]
  /\ lock \in [Procs -> Harts \cup {NoHart}]
  /\ cpuProc \in [Harts -> Procs \cup {NoProc}]
  /\ hpc \in [Harts -> {"scan", "run", "back"}]
  /\ hidx \in [Harts -> Procs]
  /\ pc \in [Procs -> labels]
  /\ idx \in [Procs -> 1..N+1]
  /\ op \in [Procs -> Procs \cup {NoProc}]
  /\ havekids \in [Procs -> BOOLEAN]
  /\ target \in [Procs -> 0..MaxPid]
  /\ nextpid \in 1..MaxPid+1
  /\ lk \in Harts \cup {NoHart}
  /\ slLocked \in BOOLEAN
  /\ slPid \in 0..MaxPid
  /\ killedPids \subseteq 0..MaxPid

(* Every variable of proc.c and sleeplock.c has its type.                *)
TypeOK == ProcTypeOK(Labels, Chans)

(* scheduler()/sched(): a process's saved context is in use by at most one *)
(* hart (two harts never have the same c->proc, even while one of them is  *)
(* still switching away from it), and a process is RUNNING exactly when a  *)
(* hart is running it.  This is what holding p->lock across swtch buys.    *)
NoSharedContext ==
  /\ \A h1, h2 \in Harts :
       h1 # h2 /\ cpuProc[h1] = cpuProc[h2] => cpuProc[h1] = NoProc
  /\ \A p \in Procs :
       state[p] = "RUNNING" <=> \E h \in Harts : Running(h, p)

(* acquiresleep/releasesleep: at most one process is inside a sleep-lock  *)
(* critical section (including while preempted in it), and the lock's     *)
(* locked/pid fields name it.                                              *)
InCS(p) == pc[p] \in {"cs", "yield_cs"}
SleepLockMutex ==
  \A p \in Procs :
    InCS(p) => /\ slLocked /\ slPid = pid[p]
               /\ \A q \in Procs \ {p} : ~InCS(q)

(* sleep()/wakeup() on the sleep lock lose no wakeup: a process asleep on  *)
(* the lock's channel either waits for a holder that will release it, or a *)
(* releaser's wakeup loop has yet to reach its slot.                       *)
NoLostWakeup ==
  \A p \in Procs :
    state[p] = "SLEEPING" /\ chan[p] = SL =>
      \/ slLocked
      \/ \E q \in Procs : pc[q] = "rel_scan" /\ idx[q] <= p

(* Every process blocked in acquiresleep() is eventually woken.            *)
SleeperWoken ==
  \A p \in Procs :
    state[p] = "SLEEPING" /\ chan[p] = SL ~> state[p] # "SLEEPING"

(* exit()/reparent(): no live process is an orphan: its parent slot holds *)
(* a process that has not yet become a ZOMBIE (children are handed to init *)
(* before the parent turns ZOMBIE), so wait() in the parent can reap it.   *)
OrphansAdopted ==
  \A c \in Procs \ {InitProc} :
    state[c] # "UNUSED" =>
      /\ parent[c] \in Procs
      /\ state[parent[c]] \notin {"UNUSED", "ZOMBIE"}

(* kill()/allocproc()/freeproc(): a live process is marked killed only if  *)
(* kill() was called on its pid; the flag never survives into a new        *)
(* process allocated in the same slot.                                     *)
KilledOnlyByKill ==
  \A p \in Procs :
    state[p] # "UNUSED" /\ killed[p] => pid[p] \in killedPids

(* exit()/wait(): a parent asleep in wait() while it has a ZOMBIE child is *)
(* eventually woken to reap it.                                            *)
WaitWakeup ==
  \A p \in Procs :
    (state[p] = "SLEEPING" /\ chan[p] = p
       /\ \E c \in Procs : parent[c] = p /\ state[c] = "ZOMBIE")
    ~> state[p] # "SLEEPING"

=============================================================================
