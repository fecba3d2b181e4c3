----------------------------- MODULE MCGetClone -----------------------------
(* Instances of GetClone for TLC.                                          *)
EXTENDS GetClone, TLC

CONSTANTS p1, p2, p3, a, b

\* Every process is asked for the one destination.
SameTarget == [p \in Procs |-> <<a>>]
\* Two processes that meet the two destinations in opposite orders.
Crossed    == (p1 :> <<a, b>>) @@ (p2 :> <<b, a>>)
\* The same target several times.
Thrice     == [p \in Procs |-> <<a, a, a>>]

Nobody == [p \in Procs |-> FALSE]
OnlyP1 == [p \in Procs |-> p = p1]

\* Lock files differ in nothing but their identity.
Symmetry == Permutations(Inodes)
=============================================================================
