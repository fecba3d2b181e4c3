------------------------------- MODULE MCPool -------------------------------
(* The trees the pool is checked on.                                       *)
EXTENDS PoolInv

CONSTANTS a, b, c, d, e, f

\* a above c and d, b above e, and f beside them.
Broad == [x \in Dirs |-> CASE x = a -> {c, d} [] x = b -> {e} [] OTHER -> {}]

\* a with three directories below it: a batch to steal from.
Wide == [x \in Dirs |-> IF x = a THEN {b, c, d} ELSE {}]

\* a above b, and c beside it: the smallest tree that passes the budget.
Line == [x \in Dirs |-> IF x = a THEN {b} ELSE {}]
=============================================================================
