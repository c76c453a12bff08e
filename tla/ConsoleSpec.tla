----------------------------- MODULE ConsoleSpec -----------------------------
(***************************************************************************)
(* What the console input buffer of src/kernel/console.c promises, stated  *)
(* without the ring: typed characters collect in an edit line; a newline,  *)
(* an end-of-file or a full buffer commits the line to the queue readers   *)
(* take from; backspace and kill-line edit only the uncommitted line; at   *)
(* most InputBuf characters are held at any time.                          *)
(***************************************************************************)
EXTENDS Sequences, SequencesExt

CONSTANTS
  InputBuf,   \* capacity of the buffer (INPUT_BUF)
  Chars       \* characters that are stored ("nl" and "eof" among them)

VARIABLES
  q,      \* committed characters, oldest first
  line    \* the line being edited

vars == <<q, line>>

Held == Len(q) + Len(line)

Init == q = <<>> /\ line = <<>>

(* A stored character: appended if there is room; the line is committed   *)
(* on a newline, an end-of-file, or when the buffer becomes full.          *)
Type(c) ==
  /\ Held < InputBuf
  /\ IF c \in {"nl", "eof"} \/ Held + 1 = InputBuf
     THEN q' = q \o Append(line, c) /\ line' = <<>>
     ELSE line' = Append(line, c) /\ UNCHANGED q

(* Backspace: the last uncommitted character is removed.                  *)
Erase ==
  /\ line # <<>>
  /\ line' = Front(line)
  /\ UNCHANGED q

(* Kill-line: the uncommitted line is discarded.                           *)
KillLine ==
  /\ line' = <<>>
  /\ UNCHANGED q

(* A reader takes the oldest committed character.                          *)
Take ==
  /\ q # <<>>
  /\ q' = Tail(q)
  /\ UNCHANGED line

Next == (\E c \in Chars : Type(c)) \/ Erase \/ KillLine \/ Take

Spec == Init /\ [][Next]_vars
=============================================================================
