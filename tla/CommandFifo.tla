---------------------------- MODULE CommandFifo ----------------------------
(***************************************************************************)
(* What the keyboard driver promises its callers, without ring, registers, *)
(* interrupts or bytes: a queue of bounded length whose commands are       *)
(* started one at a time, each once and in the order they were accepted.   *)
(***************************************************************************)
EXTENDS Integers, Sequences

CONSTANTS
  Commands,  \* what may be queued
  Capacity   \* how many commands may be queued or under way

VARIABLES
  waiting,   \* commands accepted and not started, oldest first
  busy,      \* a command has been started and is not finished
  started    \* all commands started so far

vars == <<waiting, busy, started>>

Init == waiting = <<>> /\ busy = FALSE /\ started = <<>>

Accept(c) ==
  /\ Len(waiting) + (IF busy THEN 1 ELSE 0) < Capacity
  /\ waiting' = Append(waiting, c)
  /\ UNCHANGED <<busy, started>>

\* The next command is started by the caller when none is under way, and by the
\* acknowledgement of the one before it when one is.
Start ==
  /\ waiting # <<>>
  /\ waiting' = Tail(waiting)
  /\ started' = Append(started, Head(waiting))
  /\ busy' = TRUE

\* The last acknowledgement: nothing may be left waiting.
Finish ==
  /\ busy /\ waiting = <<>>
  /\ busy' = FALSE
  /\ UNCHANGED <<waiting, started>>

Next == (\E c \in Commands : Accept(c)) \/ Start \/ Finish

Spec == Init /\ [][Next]_vars
=============================================================================
