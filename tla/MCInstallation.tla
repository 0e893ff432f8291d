---------------------------- MODULE MCInstallation ----------------------------
(* A small instance of Installation: two releases and two configurations.  *)
EXTENDS Installation, TLC

CONSTANTS r1, v1, v2, A, B

\* The unit of a release is that of the one before it, as usual.
SameUnit == [c \in Releases |-> "unit"]

Sym == Permutations(Releases) \cup Permutations(Configs)
=============================================================================
