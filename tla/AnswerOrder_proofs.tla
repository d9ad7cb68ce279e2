------------------------- MODULE AnswerOrder_proofs -------------------------
(***************************************************************************)
(* Proofs about AnswerOrder: how far behind a command's answer can be, for *)
(* any number of commands and any number of them waiting at a time.        *)
(***************************************************************************)
EXTENDS AnswerOrder, TLAPS

\* LagBounded is not inductive alone: an answer must be known not to come from a
\* command that was never issued.
IInv ==
  /\ issued \in Nat /\ waiting \in Nat /\ last \in Nat /\ givenUp \in Nat
  /\ last <= issued
  /\ LagBounded

\* Every step keeps the counts consistent.
LEMMA Step == IInv /\ [Next]_vars => IInv'
<1> SUFFICES ASSUME IInv, [Next]_vars PROVE IInv'
  OBVIOUS
<1> USE DEF IInv, LagBounded, Answered
<1>1. CASE Issue
  BY <1>1 DEF Issue
<1>2. CASE Answer
  BY <1>2 DEF Answer
<1>3. CASE GiveUp
  BY <1>3 DEF GiveUp
<1>4. CASE UNCHANGED vars
  BY <1>4 DEF vars
<1> QED
  BY <1>1, <1>2, <1>3, <1>4 DEF Next

\* The answer a command takes is at most as many commands behind as commands have
\* been given up before it.
THEOREM LagIsBounded == Spec => []LagBounded
<1>1. Init => IInv
  BY DEF Init, IInv, LagBounded, Answered
<1>2. IInv => LagBounded
  BY DEF IInv
<1> QED
  BY <1>1, <1>2, Step, PTL DEF Spec
=============================================================================
