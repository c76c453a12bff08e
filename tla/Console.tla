------------------------------- MODULE Console -------------------------------
(***************************************************************************)
(* The console input path of src/kernel/console.c composed with the        *)
(* processes and harts of Proc: consoleread() in a process's kernel path,  *)
(* consoleintr() in the uart interrupt of a hart (devintr() in trap.c),    *)
(* and the sleep/wakeup on &cons.r between them.                           *)
(*                                                                         *)
(* cons.lock is modelled like the locks of Proc, by the hart holding it.   *)
(* An interrupt is taken only on a hart with interrupts enabled (no        *)
(* spinlock held, push_off/pop_off of intr.c); while a hart is in the      *)
(* interrupt handler, neither its scheduler nor its process takes a step.  *)
(*                                                                         *)
(* The uint indices cons.r, cons.w and cons.e are kept modulo IdxMod, a    *)
(* multiple of INPUT_BUF standing for 2^32: the code only adds and         *)
(* subtracts them, compares them for equality, compares e - r with         *)
(* INPUT_BUF and indexes buf with % INPUT_BUF, and each of these gives the *)
(* same result modulo IdxMod as modulo 2^32 while at most INPUT_BUF        *)
(* characters are held.  The output side (consputc echo, consolewrite) and *)
(* ^P (procdump) change no state of this module and are left out; '\r'    *)
(* and the character 0 are dropped by consoleintr and are left out too.    *)
(***************************************************************************)
EXTENDS Proc, Sequences

CONSTANTS
  InputBuf,       \* INPUT_BUF
  IdxMod,         \* modulus of the uint indices (2^32, scaled down)
  Keys,           \* characters the uart delivers
  Readers,        \* the processes whose programs read the console
  ReadLens,       \* n passed to consoleread()
  ReadCopyoutOk,  \* outcomes of either_copyout() in consoleread()
  CONS,           \* model value: the sleep channel &cons.r
  Nul             \* model value: the zero bytes of the static cons.buf

ASSUME /\ InputBuf \in Nat \ {0}
       /\ IdxMod \in Nat /\ IdxMod > InputBuf /\ IdxMod % InputBuf = 0
       /\ Keys \subseteq {"a", "nl", "eof", "bs", "kill"} /\ Keys # {}
       /\ Readers \subseteq 1..N
       /\ ReadLens \subseteq Nat \ {0}
       /\ ReadCopyoutOk \subseteq BOOLEAN /\ ReadCopyoutOk # {}

(* The keys that consoleintr() stores in the buffer (its default case).    *)
Stored == Keys \ {"bs", "kill"}

ConsLabels == {"cr_acq", "cr_loop", "cr_plock", "cr_sleep", "cr_wake", "cr_relk"}

VARIABLES
  cbuf, cr, cw, ce,  \* cons.buf, cons.r, cons.w, cons.e
  clk,               \* cons.lock: the hart holding it, or NoHart
  ipc,               \* per hart: "none", or in consoleintr: "acq" (the
                     \* acquire of cons.lock), "wake" (the wakeup loop)
  iidx,              \* the cursor of that wakeup loop
  rn, rtarget        \* consoleread(): n and target

consVars == <<cbuf, cr, cw, ce, clk, ipc, iidx, rn, rtarget>>
allVars == <<vars, consVars>>

(* The fields of Proc that the console path never touches.                 *)
procRest == <<parent, killed, pid, cpuProc, hidx, idx, op, havekids, target,
              nextpid, lk, slLocked, slPid, killedPids>>

(* consoleinit(): e = w = r = 0; buf is zero in the static data.           *)
ConsInit ==
  /\ cbuf = [i \in 0..InputBuf-1 |-> Nul]
  /\ cr = 0 /\ cw = 0 /\ ce = 0
  /\ clk = NoHart
  /\ ipc = [h \in Harts |-> "none"]
  /\ iidx = [h \in Harts |-> 1]
  /\ rn = [p \in Procs |-> 0]
  /\ rtarget = [p \in Procs |-> 0]

-----------------------------------------------------------------------------
(* A mutation: the indices kept as unbounded integers, as if they could    *)
(* never wrap.                                                             *)
UNoWrap(x) == x

(* uint arithmetic on the indices.                                         *)
U(x) == x % IdxMod
Slot(x) == U(x) % InputBuf
Dist(a, b) == U(b - a)

(* A mutation: cons.e - cons.r evaluated as a signed difference.           *)
HasRoomSigned == ce - cr < InputBuf

(* consoleintr(): cons.e - cons.r < INPUT_BUF.                             *)
HasRoom == Dist(cr, ce) < InputBuf

(* ^U: while (e != w && buf[(e-1) % INPUT_BUF] != '\n') e--.               *)
RECURSIVE KillBack(_)
KillBack(e) ==
  IF e # cw /\ cbuf[Slot(e - 1)] # "nl" THEN KillBack(U(e - 1)) ELSE e

(* A mutation: push_off() that does not disable interrupts.                *)
IntrOnNoPushOff(h) == ipc[h] = "none"

(* push_off()/pop_off(): interrupts are off on hart h while it holds a    *)
(* spinlock (noff > 0) or handles a trap.  Otherwise the interrupt is      *)
(* allowed: this also admits the stretches where the code still has them  *)
(* off with no lock held (a trap before intr_on or sret), which only adds  *)
(* behaviours; Intr models those stretches exactly.                       *)
IntrOn(h) ==
  /\ ipc[h] = "none"
  /\ \A p \in Procs : lock[p] # h
  /\ lk # h
  /\ clk # h

-----------------------------------------------------------------------------
(* devintr(): the uart interrupt with a character; consoleintr(c) calls    *)
(* acquire(&cons.lock), which disables interrupts and spins.               *)
IntrEnter(h) ==
  /\ IntrOn(h)
  /\ ipc' = [ipc EXCEPT ![h] = "acq"]
  /\ UNCHANGED <<vars, cbuf, cr, cw, ce, clk, iidx, rn, rtarget>>

(* A mutation: the commit sets w = e but forgets wakeup(&cons.r).          *)
StoreKeyNoWakeup(h, c) ==
  LET e1 == U(ce + 1) IN
  /\ cbuf' = [cbuf EXCEPT ![Slot(ce)] = c]
  /\ ce' = e1
  /\ cw' = IF c \in {"nl", "eof"} \/ e1 = U(cr + InputBuf) THEN e1 ELSE cw
  /\ ipc' = [ipc EXCEPT ![h] = "none"]
  /\ UNCHANGED <<clk, iidx>>

(* The store of a character in consoleintr's default case: room is left,   *)
(* buf[e++ % INPUT_BUF] = c; on '\n', ^D or a full buffer w = e and the    *)
(* wakeup(&cons.r) loop starts with cons.lock held; otherwise release.     *)
StoreKey(h, c) ==
  LET e1 == U(ce + 1) IN
  /\ cbuf' = [cbuf EXCEPT ![Slot(ce)] = c]
  /\ ce' = e1
  /\ IF c \in {"nl", "eof"} \/ e1 = U(cr + InputBuf)
     THEN /\ cw' = e1
          /\ clk' = h
          /\ ipc' = [ipc EXCEPT ![h] = "wake"]
          /\ iidx' = [iidx EXCEPT ![h] = 1]
     ELSE /\ ipc' = [ipc EXCEPT ![h] = "none"]
          /\ UNCHANGED <<cw, clk, iidx>>

(* consoleintr(c) with cons.lock acquired: ^U kills the line, ^H erases a  *)
(* character, any other character is stored if there is room; without a   *)
(* commit, release(&cons.lock) ends the handler in the same step.          *)
ConsIntr(h, c) ==
  /\ ipc[h] = "acq"
  /\ clk = NoHart
  /\ IF c \in Stored /\ HasRoom
     THEN StoreKey(h, c)
     ELSE /\ ce' = CASE c = "kill" -> KillBack(ce)
                     [] c = "bs" /\ ce # cw -> U(ce - 1)
                     [] OTHER -> ce
          /\ ipc' = [ipc EXCEPT ![h] = "none"]
          /\ UNCHANGED <<cbuf, cw, clk, iidx>>
  /\ UNCHANGED <<vars, cr, rn, rtarget>>

(* wakeup(&cons.r), one slot: acquire(&p->lock); SLEEPING on &cons.r ->    *)
(* RUNNABLE; release(&p->lock).                                            *)
IntrWakeScan(h) ==
  LET i == iidx[h] IN
  /\ ipc[h] = "wake"
  /\ i <= N
  /\ Free(i)
  /\ state' = [state EXCEPT ![i] = IF @ = "SLEEPING" /\ chan[i] = CONS
                                   THEN "RUNNABLE" ELSE @]
  /\ iidx' = [iidx EXCEPT ![h] = i + 1]
  /\ UNCHANGED <<procRest, chan, lock, hpc, pc, cbuf, cr, cw, ce, clk, ipc,
                 rn, rtarget>>

(* The end of consoleintr(): release(&cons.lock); back from the trap.      *)
IntrWakeDone(h) ==
  /\ ipc[h] = "wake"
  /\ iidx[h] = N + 1
  /\ clk' = NoHart
  /\ ipc' = [ipc EXCEPT ![h] = "none"]
  /\ iidx' = [iidx EXCEPT ![h] = 1]
  /\ UNCHANGED <<vars, cbuf, cr, cw, ce, rn, rtarget>>

-----------------------------------------------------------------------------
(* sys_read() on the console: fileread() calls consoleread(1, addr, n);    *)
(* target = n.                                                             *)
ReadSyscall(h, p) ==
  /\ Running(h, p)
  /\ p \in Readers
  /\ pc[p] = "user"
  /\ ~killed[p]
  /\ \E n \in ReadLens : rn' = [rn EXCEPT ![p] = n]
                        /\ rtarget' = [rtarget EXCEPT ![p] = n]
  /\ Goto(p, "cr_acq")
  /\ UNCHANGED <<procRest, state, chan, lock, hpc, cbuf, cr, cw, ce, clk,
                 ipc, iidx>>

(* consoleread() returns to user space; its locals n and target are dead  *)
(* from here on and are cleared.                                           *)
Return(p) ==
  /\ Goto(p, "user")
  /\ rn' = [rn EXCEPT ![p] = 0]
  /\ rtarget' = [rtarget EXCEPT ![p] = 0]

(* consoleread(): acquire(&cons.lock).                                     *)
ReadAcquire(h, p) ==
  /\ Running(h, p)
  /\ pc[p] = "cr_acq"
  /\ clk = NoHart
  /\ clk' = h
  /\ Goto(p, "cr_loop")
  /\ UNCHANGED <<procRest, state, chan, lock, hpc, cbuf, cr, cw, ce, ipc,
                 iidx, rn, rtarget>>

(* while (r == w): a killed process releases cons.lock and returns -1.     *)
ReadKilled(h, p) ==
  /\ Running(h, p)
  /\ pc[p] = "cr_loop"
  /\ cr = cw
  /\ killed[p]
  /\ clk' = NoHart
  /\ Return(p)
  /\ UNCHANGED <<procRest, state, chan, lock, hpc, cbuf, cr, cw, ce, ipc,
                 iidx>>

(* while (r == w), not killed: sleep(&cons.r, &cons.lock) is called.  The *)
(* test of p->killed is made without p->lock, which sleep() takes next.    *)
ReadWait(h, p) ==
  /\ Running(h, p)
  /\ pc[p] = "cr_loop"
  /\ cr = cw
  /\ ~killed[p]
  /\ Goto(p, "cr_plock")
  /\ UNCHANGED <<procRest, state, chan, lock, hpc, consVars>>

(* sleep(&cons.r, &cons.lock) begins with acquire(&p->lock);               *)
(* release(&cons.lock).                                                    *)
ReadSleep(h, p) ==
  /\ Running(h, p)
  /\ pc[p] = "cr_plock"
  /\ Free(p)
  /\ lock' = [lock EXCEPT ![p] = h]
  /\ clk' = NoHart
  /\ Goto(p, "cr_sleep")
  /\ UNCHANGED <<procRest, state, chan, hpc, cbuf, cr, cw, ce, ipc, iidx, rn,
                 rtarget>>

(* p->chan = &cons.r; p->state = SLEEPING; sched().                        *)
ReadBlock(h, p) ==
  /\ Running(h, p)
  /\ pc[p] = "cr_sleep"
  /\ chan' = [chan EXCEPT ![p] = CONS]
  /\ state' = [state EXCEPT ![p] = "SLEEPING"]
  /\ Swtch(h)
  /\ Goto(p, "cr_wake")
  /\ UNCHANGED <<procRest, lock, consVars>>

(* Back from sched(): p->chan = 0; release(&p->lock).                      *)
ReadWake(h, p) ==
  /\ Running(h, p)
  /\ pc[p] = "cr_wake"
  /\ chan' = [chan EXCEPT ![p] = NoChan]
  /\ lock' = [lock EXCEPT ![p] = NoHart]
  /\ Goto(p, "cr_relk")
  /\ UNCHANGED <<procRest, state, hpc, consVars>>

(* The end of sleep(): acquire(&cons.lock); the while loop tests again.    *)
ReadRelock(h, p) ==
  /\ Running(h, p)
  /\ pc[p] = "cr_relk"
  /\ clk = NoHart
  /\ clk' = h
  /\ Goto(p, "cr_loop")
  /\ UNCHANGED <<procRest, state, chan, lock, hpc, cbuf, cr, cw, ce, ipc,
                 iidx, rn, rtarget>>

(* One iteration with input: c = buf[r++ % INPUT_BUF].  ^D: pushed back    *)
(* (r--) if something was read already, then break.  Otherwise             *)
(* either_copyout(); on failure break; --n; break on '\n' or n == 0.  A    *)
(* break releases cons.lock and returns target - n.                        *)
ReadTake(h, p) ==
  LET c == cbuf[Slot(cr)]
      n1 == rn[p] - 1
  IN
  /\ Running(h, p)
  /\ pc[p] = "cr_loop"
  /\ cr # cw
  /\ \E ok \in ReadCopyoutOk :
       LET stop == c = "eof" \/ ~ok \/ c = "nl" \/ n1 = 0 IN
       /\ cr' = IF c = "eof" /\ rn[p] < rtarget[p] THEN cr ELSE U(cr + 1)
       /\ IF stop
          THEN /\ clk' = NoHart
               /\ Return(p)
          ELSE /\ rn' = [rn EXCEPT ![p] = n1]
               /\ UNCHANGED <<clk, rtarget, pc>>
  /\ UNCHANGED <<procRest, state, chan, lock, hpc, cbuf, cw, ce, ipc, iidx>>

(* The steps of consoleread() in the kernel path of p.                     *)
ReadPath(h, p) ==
  \/ ReadAcquire(h, p) \/ ReadKilled(h, p) \/ ReadWait(h, p) \/ ReadSleep(h, p)
  \/ ReadBlock(h, p) \/ ReadWake(h, p) \/ ReadRelock(h, p) \/ ReadTake(h, p)

-----------------------------------------------------------------------------
(* The interrupt handler steps of hart h after the uart interrupt.         *)
IntrPath(h) ==
  \/ \E c \in Keys : ConsIntr(h, c)
  \/ IntrWakeScan(h) \/ IntrWakeDone(h)

(* A hart outside an interrupt handler takes the steps of Proc, or those   *)
(* of consoleread() for the process it runs.                               *)
HartConsStep(h) ==
  /\ ipc[h] = "none"
  /\ \/ HartStep(h) /\ UNCHANGED consVars
     \/ \E p \in Procs : ReadSyscall(h, p) \/ ReadPath(h, p)

ConsNext ==
  \E h \in Harts : HartConsStep(h) \/ IntrEnter(h) \/ IntrPath(h)

ConsSpec == Init /\ ConsInit /\ [][ConsNext]_allVars

-----------------------------------------------------------------------------
(* Every variable of Proc and of the console has its type.                 *)
ConsTypeOK ==
  /\ ProcTypeOK(Labels \cup ConsLabels, Chans \cup {CONS})
  /\ cbuf \in [0..InputBuf-1 -> Stored \cup {Nul}]
  /\ {cr, cw, ce} \subseteq 0..IdxMod-1
  /\ clk \in Harts \cup {NoHart}
  /\ ipc \in [Harts -> {"none", "acq", "wake"}]
  /\ iidx \in [Harts -> 1..N+1]
  /\ rn \in [Procs -> Nat] /\ rtarget \in [Procs -> Nat]

(* The ring cons.buf[r..w) is the committed queue and [w..e) the line      *)
(* being edited.                                                           *)
QOf == [i \in 1..Dist(cr, cw) |-> cbuf[Slot(cr + i - 1)]]
LineOf == [i \in 1..Dist(cw, ce) |-> cbuf[Slot(cw + i - 1)]]

Abstract == INSTANCE ConsoleSpec WITH q <- QOf, line <- LineOf, Chars <- Stored

(* consoleintr()/consoleread() implement ConsoleSpec: through every wrap   *)
(* of the uint indices, a reader gets exactly the committed characters in  *)
(* the order they were typed, ^H and ^U never reach into committed input,  *)
(* and no stored character overwrites one not yet read.                   *)
ConsRefines == Abstract!Spec

(* sleep(&cons.r)/wakeup(&cons.r) lose no wakeup: a reader asleep on       *)
(* &cons.r while committed input is waiting has a wakeup loop of           *)
(* consoleintr() still to reach its slot.                                  *)
ConsNoLostWakeup ==
  \A p \in Procs :
    state[p] = "SLEEPING" /\ chan[p] = CONS /\ cr # cw =>
      \E h \in Harts : ipc[h] = "wake" /\ iidx[h] <= p

(* acquire(): `if (holding(lk)) panic("acquire")` never fires in the      *)
(* uart interrupt: consoleintr() does not spin on cons.lock, nor its       *)
(* wakeup loop on a p->lock, that the interrupted code of its own hart     *)
(* holds.  push_off() in every acquire() is what keeps the interrupt off   *)
(* while a lock is held.                                                   *)
NoAcquirePanic ==
  \A h \in Harts :
    /\ ipc[h] = "acq" => clk # h
    /\ ipc[h] = "wake" => \A p \in Procs : lock[p] # h

(* kill() and consoleread(): a killed process is not left asleep on        *)
(* &cons.r (kill makes a SLEEPING process RUNNABLE, and consoleread tests  *)
(* p->killed before every sleep), so it returns -1 without waiting for     *)
(* input.                                                                  *)
KilledReaderAwake ==
  \A p \in Procs : ~(killed[p] /\ state[p] = "SLEEPING" /\ chan[p] = CONS)

=============================================================================
