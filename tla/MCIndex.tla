------------------------------ MODULE MCIndex -------------------------------
(* Instances of Index: a root, a directory x in it, a directory y in x.     *)
EXTENDS Index, TLC

CONSTANTS r, x, y, l1, l2

Chain == [p \in Paths \ {Root} |-> IF p = x THEN r ELSE x]
Fork == [p \in Paths \ {Root} |-> r]
Symmetry == Permutations(Procs)
ExcludeX == [p \in Procs |-> IF p = l2 THEN {x} ELSE {}]
NoExclusion == [p \in Procs |-> {}]
=============================================================================
