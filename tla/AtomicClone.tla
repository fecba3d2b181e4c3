---------------------------- MODULE AtomicClone ----------------------------
(***************************************************************************)
(* What `scap get` promises about a destination, with no mention of locks, *)
(* temporary directories, git children or crashes: a destination becomes a *)
(* whole clone in one step, from nothing (or from an empty directory), and *)
(* is never seen in between.  It is what README.md:50 and CHANGELOG.md:76  *)
(* call "Atomic clone via temp-dir + rename".                              *)
(***************************************************************************)
CONSTANT Dests              \* the destination directories of the targets
VARIABLE dest               \* what each destination holds

\* "absent": no such path; "empty": an empty directory; "other": something
\* that is neither empty nor a repository; "whole": a complete clone.
Init == dest \in [Dests -> {"absent", "empty", "other", "whole"}]

Publish(d) == /\ dest[d] \in {"absent", "empty"}
              /\ dest' = [dest EXCEPT ![d] = "whole"]

Next == \E d \in Dests : Publish(d)

Spec == Init /\ [][Next]_dest
=============================================================================
