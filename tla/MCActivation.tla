----------------------------- MODULE MCActivation -----------------------------
(* Small instances of Activation.                                          *)
EXTENDS Activation, TLC

CONSTANTS r1, r2

Sym == Permutations(Runs)

\* B and C both enforce, so that one can replace the other without a change of
\* Postfix.
ActionOf == [A |-> "accept", B |-> "tempfail", C |-> "tempfail"]
Actions == [c \in Configs |-> ActionOf[c]]
================================================================================
