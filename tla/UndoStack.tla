------------------------------- MODULE UndoStack -------------------------------
(***************************************************************************)
(* What the activation history promises (ADR-0030): the states a server    *)
(* went through are a stack.  An activation pushes the state it made, a    *)
(* rollback pops: it returns to exactly the state under the top.           *)
(***************************************************************************)
EXTENDS Naturals, Sequences

VARIABLES
  stack,  \* the active state first, the one it came from next
  last    \* how the active state came about: "none", "push" or "pop"

Init == stack = <<>> /\ last = "none"

Push == stack' # <<>> /\ Tail(stack') = stack /\ last' = "push"
\* The oldest state has nothing under it to return to.
Pop == Len(stack) > 1 /\ stack' = Tail(stack) /\ last' = "pop"

Next == Push \/ Pop

Spec == Init /\ [][Next]_<<stack, last>>
================================================================================
