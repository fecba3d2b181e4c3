----------------------------- MODULE MCRepoLife -----------------------------
(* Instances of RepoLife for TLC.                                          *)
EXTENDS RepoLife, TLC

CONSTANTS p1, a, rm1, mk1, mk2

Twice  == [p \in Procs |-> <<a, a>>]
Nobody == [p \in Procs |-> FALSE]
OnlyP1 == [p \in Procs |-> p = p1]
Kinds  == [x \in Commands |-> IF x = rm1 THEN "rm" ELSE "create"]
AtA    == [x \in Commands |-> a]
=============================================================================
