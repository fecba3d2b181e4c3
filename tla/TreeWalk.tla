------------------------------ MODULE TreeWalk ------------------------------
(***************************************************************************)
(* What the walk below one root promises its caller (src/walk/mod.rs,      *)
(* walk_root), with no mention of threads, queues or descriptors: every    *)
(* directory that is found is taken up exactly once, one that is given up  *)
(* makes the listing short, and the walk is over when none is left.        *)
(***************************************************************************)
CONSTANTS Dirs, Children, Initial

VARIABLES frontier,     \* directories found and not settled
          short,        \* the listing lacks a subtree, and says so
          over          \* the walk has returned

Init == frontier = Initial /\ short = FALSE /\ over = FALSE

\* A directory is read, and what is below it follows.
Read(d) == frontier' = (frontier \ {d}) \cup Children[d] /\ UNCHANGED short

\* It is listed as a repository, or is gone: nothing follows.
Settle(d) == frontier' = frontier \ {d} /\ UNCHANGED short

\* It cannot be read.
Drop(d) == frontier' = frontier \ {d} /\ short' = TRUE

Visit(d) == /\ ~over /\ UNCHANGED over
            /\ d \in frontier
            /\ Read(d) \/ Settle(d) \/ Drop(d)

Return == frontier = {} /\ over' = TRUE /\ UNCHANGED <<frontier, short>>

Next == Return \/ \E d \in Dirs : Visit(d)

Spec == Init /\ [][Next]_<<frontier, short, over>>
=============================================================================
