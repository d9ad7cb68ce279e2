---------------------------- MODULE AnswerOrder ----------------------------
(***************************************************************************)
(* What a dialogue promises whose answers name no command: each command is *)
(* given up or takes one answer, and answers are taken in the order of the *)
(* commands they were meant for, each at most once and never before its    *)
(* command. It does not promise that a command takes its own answer.       *)
(* AtDialog and MqttClient implement it.                                   *)
(***************************************************************************)
EXTENDS Integers

CONSTANT Depth   \* how many commands may wait for an answer at a time

VARIABLES
  issued,      \* the number of commands issued
  waiting,     \* how many of them wait for an answer
  last,        \* the command whose answer was taken last; 0: none yet
  givenUp      \* the number of commands given up

vars == <<issued, waiting, last, givenUp>>

Init == issued = 0 /\ waiting = 0 /\ last = 0 /\ givenUp = 0

Issue ==
  /\ waiting < Depth
  /\ waiting' = waiting + 1
  /\ issued' = issued + 1
  /\ UNCHANGED <<last, givenUp>>

Answer ==
  /\ waiting > 0
  /\ last' \in (last+1)..issued
  /\ waiting' = waiting - 1
  /\ UNCHANGED <<issued, givenUp>>

GiveUp ==
  /\ waiting > 0
  /\ givenUp' = givenUp + 1
  /\ waiting' = waiting - 1
  /\ UNCHANGED <<issued, last>>

Next == Issue \/ Answer \/ GiveUp

Spec == Init /\ [][Next]_vars

\* The number of commands that took an answer.
Answered == issued - givenUp - waiting

\* A command takes over the answer of an earlier one only if some command was
\* given up, and it is never further behind than the number of those.
LagBounded == last >= Answered
=============================================================================
