------------------------------- MODULE PoolInv -------------------------------
(***************************************************************************)
(* The inductive invariant of Pool: where a directory can be, who holds    *)
(* what, and what each shared counter counts.  The runs check it, and      *)
(* PoolProofs proves it.                                                   *)
(***************************************************************************)
EXTENDS Pool, Integers

\* TypeOK, with counters that may be negative: that they are not is a consequence
\* of what they count.
Labels ==
    /\ state \in [Dirs -> States]
    /\ pc \in [Workers -> PCs]

Values ==
    /\ owner \in [Dirs -> Workers \cup {Injector}]
    /\ parked \subseteq Dirs
    /\ liveFds \in Int /\ inFlight \in Int /\ sleepers \in Int
    /\ lock \in Workers \cup {Injector}
    /\ pos \in [Workers -> 0 .. N + 1]
    /\ job \in [Workers -> Dirs \cup {NoDir}]
    /\ child \in [Workers -> Dirs \cup {NoDir}]
    /\ incomplete \in BOOLEAN

Typed == Labels /\ Values

Busy     == {"open", "list", "read", "openat", "push", "wake", "retire", "unwind"}
Finished == {"read", "listed", "gone", "dropped", "lost"}

\* A worker that is busy has a directory, which nobody else has and which is
\* running until it has been listed.
Hands ==
    /\ \A w \in Workers :
          /\ pc[w] \in Busy <=> job[w] # NoDir
          /\ pc[w] \in {"open", "list"} => state[job[w]] = "running"
          /\ pc[w] \in Busy \ {"open", "list"} => state[job[w]] \in Finished
    /\ \A v, w \in Workers : job[v] = job[w] /\ job[v] # NoDir => v = w
    /\ \A d \in Dirs : state[d] = "running" => \E w \in Workers : job[w] = d

\* What is between two steps of a worker is with a worker at that step.
Pending ==
    /\ \A d \in Dirs :
          /\ state[d] = "entry" => owner[d] \in Workers /\ pc[owner[d]] \in {"read", "openat"}
          /\ state[d] = "found" =>
                owner[d] \in Workers /\ pc[owner[d]] \in {"read", "openat", "push"}
    /\ \A w \in Workers :
          /\ pc[w] = "openat" <=> child[w] # NoDir
          /\ pc[w] = "openat" => state[child[w]] = "entry" /\ owner[child[w]] = w

\* Nothing below a directory is known before it is listed.
Below ==
    \A d \in Dirs : state[d] \in {"unseen", "entry", "found", "queued", "running"} =>
        \A c \in Children[d] : state[c] = "unseen"

Shape == Typed /\ Hands /\ Pending /\ Below

-----------------------------------------------------------------------------
(* What the counters count.                                                *)

\* in_flight: what is queued or in the hands of a worker, and what one has
\* counted and not yet pushed.
Counted == {d \in Dirs : \/ state[d] = "queued"
                         \/ state[d] = "found" /\ pc[owner[d]] = "push"
                         \/ \E w \in Workers : job[w] = d}

Sleeping == {w \in Workers : pc[w] \in {"recheck", "asleep", "awake"}}

Unwound == {"unwind", "unwindFinal", "panicked"}

InFlightCounts == inFlight = Cardinality(Counted)

SleepersCount == sleepers = Cardinality(Sleeping)

\* Where the job of a parked directory is.
ParkedAt(d) ==
    \/ state[d] \in {"found", "queued"}
    \/ \E w \in Workers : job[w] = d /\ pc[w] = "open"

\* A parked descriptor belongs to a job not yet opened; live_fds may count more
\* than these, when a panic has closed some.
ParkedCounts ==
    /\ \A d \in parked : ParkedAt(d)
    /\ Cardinality(parked) <= liveFds
    /\ (\A w \in Workers : pc[w] \notin Unwound) => Cardinality(parked) = liveFds

\* Once a worker has left, nothing is counted.
Exit == (\E w \in Workers : pc[w] = "done") => inFlight = 0

\* How a directory may end.
Settled ==
    /\ \A d \in Dirs :
          /\ state[d] = "dropped" => incomplete
          /\ state[d] = "lost" => \E w \in Workers : pc[w] \in Unwound
          /\ state[d] = "read" => \A c \in Children[d] : state[c] # "unseen"
    /\ \A d \in Initial : state[d] # "unseen"

\* The workers between the budget and their openat.
Opening == {w \in Workers : pc[w] = "openat"}

FdBound == liveFds + Cardinality(Opening) <= FdCap + N - 1

\* The counters of src/walk/pool.rs and sys.rs never drift from what they count,
\* whatever is stolen, skipped, parked or lost in a panic, and everything found is
\* where somebody will see to it.
IInv ==
    /\ Shape
    /\ InFlightCounts /\ SleepersCount /\ ParkedCounts
    /\ Exit /\ Settled /\ FdBound
==============================================================================
