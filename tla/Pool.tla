-------------------------------- MODULE Pool --------------------------------
(***************************************************************************)
(* The work-stealing pool that walks one root: src/walk/pool.rs, with the  *)
(* descriptor budget of src/walk/sys.rs (Walker::run, queue_child).        *)
(*                                                                         *)
(* A job is a directory.  Reading it finds its children, which go to the   *)
(* reader's own queue; idle workers steal, spin and park.  The walk is     *)
(* over when `in_flight`, the number of directories found and not yet      *)
(* retired, is zero.  The entry rules are abstracted to Children (what a   *)
(* plain directory has below it) and Repos (what they call a repository).  *)
(***************************************************************************)
EXTENDS Naturals, FiniteSets

CONSTANTS
    N,              \* worker threads (after the clamp to 1 .. MAX_THREADS)
    Dirs,           \* the directories below the root
    Children,       \* [Dirs -> SUBSET Dirs]
    Initial,        \* the jobs queued before any worker starts
    Repos,          \* the directories that hold a `.git`
    SearchOnly,     \* repositories of mode 0111: no openat, but a statat
    Faulty,         \* directories that may fail to open or read, or vanish
    Panics,         \* directories whose reading panics
    Detect,         \* DetectStrategy
    FdCap,          \* fd_cap: parked descriptors past which jobs carry a path
    NoDir

Workers == 1 .. N
Injector == 0       \* the owner of a job in the seed queue; also "no worker"

ASSUME PoolAssumption ==
    /\ N \in Nat \ {0} /\ FdCap \in Nat
    /\ IsFiniteSet(Dirs) /\ NoDir \notin Dirs
    /\ Children \in [Dirs -> SUBSET Dirs]
    /\ Initial \subseteq Dirs /\ Faulty \subseteq Dirs /\ Panics \subseteq Dirs
    /\ SearchOnly \subseteq Repos /\ Repos \subseteq Dirs
    /\ Detect \in {"OpenScan", "StatFirst"}
    \* a directory has one parent, and an initial one has none of these
    /\ \A d, e \in Dirs : d # e => Children[d] \cap Children[e] = {}
    /\ \A d \in Dirs : Children[d] \cap Initial = {} /\ d \notin Children[d]
    \* rule (i): nothing below a repository is looked at
    /\ \A d \in Repos : Children[d] = {}

VARIABLES
    state,      \* how far each directory has come
    owner,      \* whose hands or queue it is in (Injector: the seed queue)
    parked,     \* directories whose job carries an open descriptor
    liveFds,    \* live_fds: the shared count of them
    inFlight,   \* in_flight
    sleepers,   \* Park.sleepers
    lock,       \* who holds Park.mutex (Injector: nobody)
    pc,         \* where each worker is
    pos,        \* how many queues find_job has found empty
    job,        \* the directory the worker is on
    child,      \* the child it is opening
    incomplete  \* Out.incomplete, merged

vars == <<state, owner, parked, liveFds, inFlight, sleepers, lock, pc, pos,
          job, child, incomplete>>
dirs == <<state, owner, parked, liveFds, incomplete>>
park == <<sleepers, lock>>
mine == <<pos, job, child>>

\* unseen: not found yet; entry: in the listing being gone through; found: in
\* `children`, not pushed; queued; running; read; listed: a repository; gone:
\* removed before it was opened; dropped: an error kept it from being walked;
\* lost: a panic did.
States == {"unseen", "entry", "found", "queued", "running", "read", "listed",
           "gone", "dropped", "lost"}
PCs == {"find", "open", "list", "read", "openat", "push", "wake", "retire",
        "final", "unwind", "unwindFinal", "check", "park", "recheck",
        "asleep", "awake", "done", "panicked"}

Queue(q)    == {d \in Dirs : state[d] = "queued" /\ owner[d] = q}
Entries(w)  == {d \in Dirs : state[d] = "entry" /\ owner[d] = w}
Found(w)    == {d \in Dirs : state[d] = "found" /\ owner[d] = w}
Goto(w, l)  == pc' = [pc EXCEPT ![w] = l]

\* run: in_flight counts the initial jobs before the first worker starts.
\* walk_root seeds the root's children, some with descriptors; walk_subtrees
\* seeds recorded paths, none with.
Init ==
    /\ state = [d \in Dirs |-> IF d \in Initial THEN "queued" ELSE "unseen"]
    /\ owner = [d \in Dirs |-> Injector]
    /\ parked \in SUBSET (Initial \ SearchOnly)
    /\ Cardinality(parked) <= FdCap
    /\ liveFds = Cardinality(parked)
    /\ inFlight = Cardinality(Initial)
    /\ sleepers = 0
    /\ lock = Injector
    /\ pc = [w \in Workers |-> "find"]
    /\ pos = [w \in Workers |-> 0]
    /\ job = [w \in Workers |-> NoDir]
    /\ child = [w \in Workers |-> NoDir]
    /\ incomplete = FALSE

-----------------------------------------------------------------------------
(* find_job: the worker's own queue, the seed queue, then every other      *)
(* worker's, one after the other.  A steal moves a batch.                  *)

Source(w) == IF pos[w] = 0 THEN w ELSE pos[w] - 1

TakeJob(w, batch, d) ==
    /\ owner' = [e \in Dirs |-> IF e \in batch THEN w ELSE owner[e]]
    /\ state' = [state EXCEPT ![d] = "running"]
    /\ job' = [job EXCEPT ![w] = d]
    /\ pos' = [pos EXCEPT ![w] = 0]
    /\ Goto(w, "open")
    /\ UNCHANGED <<parked, liveFds, incomplete, inFlight, park, child>>

Pop(w) ==
    /\ pc[w] = "find" /\ pos[w] = 0
    /\ \E d \in Queue(w) : TakeJob(w, {d}, d)

Steal(w) ==
    /\ pc[w] = "find" /\ pos[w] # 0
    /\ \E batch \in SUBSET Queue(Source(w)) : \E d \in batch : TakeJob(w, batch, d)

LookFurther(w) ==
    /\ pc[w] = "find"
    /\ Queue(Source(w)) = {}
    /\ IF pos[w] = N + 1
       THEN pos' = [pos EXCEPT ![w] = 0] /\ Goto(w, "check")
       ELSE pos' = [pos EXCEPT ![w] = @ + 1] /\ UNCHANGED pc
    /\ UNCHANGED <<dirs, inFlight, park, job, child>>

-----------------------------------------------------------------------------
(* Walker::run and read_dir: opening the directory and listing it.         *)

\* Mutant of OpenParked: the shared count is not taken down.
KeepDescriptor(w) ==
    /\ pc[w] = "open" /\ job[w] \in parked
    /\ parked' = parked \ {job[w]}
    /\ Goto(w, "list")
    /\ UNCHANGED <<state, owner, liveFds, incomplete, inFlight, park, mine>>

\* The job gives its descriptor back.
OpenParked(w) ==
    /\ pc[w] = "open" /\ job[w] \in parked
    /\ liveFds' = liveFds - 1
    /\ parked' = parked \ {job[w]}
    /\ Goto(w, "list")
    /\ UNCHANGED <<state, owner, incomplete, inFlight, park, mine>>

\* Mutant of Reopen: the count is taken down for a job without a descriptor.
ReopenGivesBack(w) ==
    /\ pc[w] = "open" /\ job[w] \notin parked \cup SearchOnly
    /\ liveFds' = liveFds - 1
    /\ Goto(w, "list")
    /\ UNCHANGED <<state, owner, parked, incomplete, inFlight, park, mine>>

\* It has none: opened again by path, from the root.
Reopen(w) ==
    /\ pc[w] = "open" /\ job[w] \notin parked \cup SearchOnly
    /\ Goto(w, "list")
    /\ UNCHANGED <<dirs, inFlight, park, mine>>

\* Skipping the directory makes the listing short, unless it is gone.
SkipJob(w, outcome) ==
    /\ state' = [state EXCEPT ![job[w]] = outcome]
    /\ incomplete' = (incomplete \/ outcome = "dropped")
    /\ Goto(w, "retire")
    /\ UNCHANGED <<owner, parked, liveFds, inFlight, park, mine>>

ReopenFails(w) ==
    /\ pc[w] = "open" /\ job[w] \notin parked
    /\ \/ job[w] \in Faulty \cup SearchOnly /\ SkipJob(w, "dropped")
       \/ job[w] \in Faulty /\ SkipJob(w, "gone")

ListingFails(w) ==
    /\ pc[w] = "list" /\ job[w] \in Faulty
    /\ SkipJob(w, "dropped")

List(w) ==
    /\ pc[w] = "list"
    /\ state' = [d \in Dirs |-> IF d \in Children[job[w]] THEN "entry" ELSE
                               IF d = job[w] THEN IF d \in Repos THEN "listed" ELSE "read"
                               ELSE state[d]]
    /\ owner' = [d \in Dirs |-> IF d \in Children[job[w]] THEN w ELSE owner[d]]
    /\ Goto(w, "read")
    /\ UNCHANGED <<parked, liveFds, incomplete, inFlight, park, mine>>

-----------------------------------------------------------------------------
(* The entries of the directory, one at a time, in directory order.        *)

\* Deviation D-6: a repository is listed without being opened.
StatFirst(w) ==
    /\ pc[w] = "read" /\ Detect = "StatFirst"
    /\ \E c \in Entries(w) \cap Repos : state' = [state EXCEPT ![c] = "listed"]
    /\ UNCHANGED <<owner, parked, liveFds, incomplete, inFlight, park, pc, mine>>

ToQueue(w) == {c \in Entries(w) : c \notin Repos \/ Detect = "OpenScan"}

\* queue_child: the budget is looked at first ...
PastBudget(w) ==
    /\ pc[w] = "read"
    /\ liveFds >= FdCap
    /\ \E c \in ToQueue(w) : state' = [state EXCEPT ![c] = "found"]
    /\ UNCHANGED <<owner, parked, liveFds, incomplete, inFlight, park, pc, mine>>

\* Mutant of WithinBudget: off by one.
AtBudget(w) ==
    /\ pc[w] = "read"
    /\ liveFds <= FdCap
    /\ \E c \in ToQueue(w) : child' = [child EXCEPT ![w] = c]
    /\ Goto(w, "openat")
    /\ UNCHANGED <<dirs, inFlight, park, pos, job>>

WithinBudget(w) ==
    /\ pc[w] = "read"
    /\ liveFds < FdCap
    /\ \E c \in ToQueue(w) : child' = [child EXCEPT ![w] = c]
    /\ Goto(w, "openat")
    /\ UNCHANGED <<dirs, inFlight, park, pos, job>>

\* Mutant of Settle: a dropped child is not noted.
SettleSilently(w, outcome) ==
    /\ state' = [state EXCEPT ![child[w]] = outcome]
    /\ child' = [child EXCEPT ![w] = NoDir]
    /\ Goto(w, "read")
    /\ UNCHANGED <<owner, incomplete, inFlight, park, pos, job>>

\* ... and the descriptor counted after the openat.
Settle(w, outcome) ==
    /\ state' = [state EXCEPT ![child[w]] = outcome]
    /\ incomplete' = (incomplete \/ outcome = "dropped")
    /\ child' = [child EXCEPT ![w] = NoDir]
    /\ Goto(w, "read")
    /\ UNCHANGED <<owner, inFlight, park, pos, job>>

OpenChild(w) ==
    /\ pc[w] = "openat" /\ child[w] \notin SearchOnly
    /\ liveFds' = liveFds + 1
    /\ parked' = parked \cup {child[w]}
    /\ Settle(w, "found")

\* EMFILE and ENFILE queue the child by path; EACCES on a repository lists it;
\* ENOENT and its like mean it is gone; any other error drops it.
OpenFails(w) ==
    /\ pc[w] = "openat"
    /\ UNCHANGED <<parked, liveFds>>
    /\ \/ child[w] \in SearchOnly /\ Settle(w, "listed")
       \/ child[w] \in Faulty /\ \E o \in {"found", "gone", "dropped"} : Settle(w, o)

\* The Retire guard still runs; the children read so far are dropped with
\* their descriptors, which live_fds goes on counting.
Panic(w) ==
    /\ pc[w] \in {"open", "list", "read", "openat"} /\ job[w] \in Panics
    /\ pc[w] = "open" => job[w] \notin parked
    /\ LET gone == Entries(w) \cup Found(w) \cup {job[w]} IN
         /\ state' = [d \in Dirs |-> IF d \in gone THEN "lost" ELSE state[d]]
         /\ parked' = parked \ gone
    /\ child' = [child EXCEPT ![w] = NoDir]
    /\ Goto(w, "unwind")
    /\ UNCHANGED <<owner, liveFds, incomplete, inFlight, park, pos, job>>

-----------------------------------------------------------------------------
(* Counting, pushing and waking; then the Retire guard.                    *)

\* Mutant of ReadDone: one is counted, not children.len().
CountOne(w) ==
    /\ pc[w] = "read" /\ Entries(w) = {}
    /\ inFlight' = inFlight + IF Found(w) = {} THEN 0 ELSE 1
    /\ Goto(w, IF Found(w) = {} THEN "retire" ELSE "push")
    /\ UNCHANGED <<dirs, park, mine>>

ReadDone(w) ==
    /\ pc[w] = "read" /\ Entries(w) = {}
    /\ inFlight' = inFlight + Cardinality(Found(w))
    /\ Goto(w, IF Found(w) = {} THEN "retire" ELSE "push")
    /\ UNCHANGED <<dirs, park, mine>>

Push(w) ==
    /\ pc[w] = "push"
    /\ \E c \in Found(w) : state' = [state EXCEPT ![c] = "queued"]
    /\ UNCHANGED <<owner, parked, liveFds, incomplete, inFlight, park, pc, mine>>

\* Park::wake looks at the sleepers without the lock.
Pushed(w) ==
    /\ pc[w] = "push" /\ Found(w) = {}
    /\ Goto(w, IF sleepers > 0 THEN "wake" ELSE "retire")
    /\ UNCHANGED <<dirs, inFlight, park, mine>>

NotifyAll == [v \in Workers |-> IF pc[v] = "asleep" THEN "awake" ELSE pc[v]]

Wake(w) ==
    /\ pc[w] = "wake" /\ lock = Injector
    /\ pc' = [NotifyAll EXCEPT ![w] = "retire"]
    /\ UNCHANGED <<dirs, inFlight, park, mine>>

\* Mutant of Retire: not a guard, so an unwinding worker skips it.
RetireUnguarded(w) ==
    /\ pc[w] \in {"retire", "unwind"}
    /\ inFlight' = IF pc[w] = "retire" THEN inFlight - 1 ELSE inFlight
    /\ Goto(w, IF pc[w] = "unwind" THEN "panicked"
               ELSE IF inFlight = 1 THEN "final" ELSE "find")
    /\ owner' = [owner EXCEPT ![job[w]] = Injector]
    /\ job' = [job EXCEPT ![w] = NoDir]
    /\ UNCHANGED <<state, parked, liveFds, incomplete, park, pos, child>>

\* Retire::drop.  The last one out wakes the sleepers.
Retire(w) ==
    /\ pc[w] \in {"retire", "unwind"}
    /\ inFlight' = inFlight - 1
    /\ Goto(w, IF pc[w] = "retire"
               THEN IF inFlight = 1 THEN "final" ELSE "find"
               ELSE IF inFlight = 1 THEN "unwindFinal" ELSE "panicked")
    /\ owner' = [owner EXCEPT ![job[w]] = Injector]
    /\ job' = [job EXCEPT ![w] = NoDir]
    /\ UNCHANGED <<state, parked, liveFds, incomplete, park, pos, child>>

WakeAllFinal(w) ==
    /\ pc[w] \in {"final", "unwindFinal"} /\ lock = Injector
    /\ pc' = [NotifyAll EXCEPT ![w] = IF pc[w] = "final" THEN "find" ELSE "panicked"]
    /\ UNCHANGED <<dirs, inFlight, park, mine>>

-----------------------------------------------------------------------------
(* Idle.                                                                   *)

\* Mutant of Check: a worker that finds nothing leaves.
LeaveWhenIdle(w) ==
    /\ pc[w] = "check"
    /\ Goto(w, "done")
    /\ UNCHANGED <<dirs, inFlight, park, mine>>

Check(w) ==
    /\ pc[w] = "check"
    /\ IF inFlight = 0
       THEN Goto(w, "done")
       ELSE \E l \in {"find", "park"} : Goto(w, l)   \* a spin, or the last one
    /\ UNCHANGED <<dirs, inFlight, park, mine>>

Lock(w) ==
    /\ pc[w] = "park" /\ lock = Injector
    /\ lock' = w
    /\ sleepers' = sleepers + 1
    /\ Goto(w, "recheck")
    /\ UNCHANGED <<dirs, inFlight, mine>>

\* Mutant of Recheck: in_flight is not looked at again under the lock.
WaitUnchecked(w) ==
    /\ pc[w] = "recheck"
    /\ lock' = Injector
    /\ Goto(w, "asleep")
    /\ UNCHANGED <<dirs, inFlight, sleepers, mine>>

Recheck(w) ==
    /\ pc[w] = "recheck"
    /\ lock' = Injector
    /\ IF inFlight = 0
       THEN sleepers' = sleepers - 1 /\ Goto(w, "done")
       ELSE Goto(w, "asleep") /\ UNCHANGED sleepers
    /\ UNCHANGED <<dirs, inFlight, mine>>

\* The wait runs into PARK_TIMEOUT.
Timeout(w) ==
    /\ pc[w] = "asleep"
    /\ Goto(w, "awake")
    /\ UNCHANGED <<dirs, inFlight, park, mine>>

WakeUp(w) ==
    /\ pc[w] = "awake" /\ lock = Injector
    /\ sleepers' = sleepers - 1
    /\ Goto(w, "find")
    /\ UNCHANGED <<dirs, inFlight, lock, mine>>

-----------------------------------------------------------------------------
Work(w) ==
    \/ Pop(w) \/ Steal(w) \/ LookFurther(w)
    \/ OpenParked(w) \/ Reopen(w) \/ ReopenFails(w) \/ ListingFails(w) \/ List(w)
    \/ StatFirst(w) \/ PastBudget(w) \/ WithinBudget(w)
    \/ OpenChild(w) \/ OpenFails(w) \/ Panic(w)
    \/ ReadDone(w) \/ Push(w) \/ Pushed(w) \/ Wake(w)
    \/ Retire(w) \/ WakeAllFinal(w)
    \/ Check(w) \/ Lock(w) \/ Recheck(w) \/ WakeUp(w)

Ended == \A w \in Workers : pc[w] \in {"done", "panicked"}

\* run joins every worker and returns, or panics in its turn.
Join == Ended /\ UNCHANGED vars

Next == Join \/ \E w \in Workers : Work(w) \/ Timeout(w)

Spec == Init /\ [][Next]_vars

\* A thread that can run does, and one that waits for the mutex gets it in the
\* end.  Nothing is assumed of PARK_TIMEOUT.
Mutex(w) == Wake(w) \/ WakeAllFinal(w) \/ Lock(w) \/ WakeUp(w)
FairSpec == Spec /\ \A w \in Workers : WF_vars(Work(w)) /\ SF_vars(Mutex(w))

\* Here it does run out.
TimedSpec == FairSpec /\ \A w \in Workers : WF_vars(Timeout(w))

-----------------------------------------------------------------------------
(* Properties.                                                             *)

\* Where everything is.
TypeOK ==
    /\ state \in [Dirs -> States]
    /\ owner \in [Dirs -> Workers \cup {Injector}]
    /\ parked \subseteq Dirs
    /\ liveFds \in Nat /\ inFlight \in Nat
    /\ sleepers \in 0 .. N
    /\ lock \in Workers \cup {Injector}
    /\ pc \in [Workers -> PCs]
    /\ pos \in [Workers -> 0 .. N + 1]
    /\ job \in [Workers -> Dirs \cup {NoDir}]
    /\ child \in [Workers -> Dirs \cup {NoDir}]
    /\ incomplete \in BOOLEAN

\* The termination test of `work` (in_flight == 0) never sees a transient
\* zero: once one worker has left, nobody has work, or will have any.
NoEarlyExit ==
    (\E w \in Workers : pc[w] = "done") =>
        /\ \A d \in Dirs : state[d] \notin {"entry", "found", "queued", "running"}
        /\ \A w \in Workers : job[w] = NoDir

\* The descriptors parked or about to be stay within the soft bound that the
\* comment on Ctx.fd_cap gives, fd_cap + N - 1.
FdSoftBound ==
    liveFds + Cardinality({w \in Workers : pc[w] = "openat"}) <= FdCap + N - 1

\* Every parked descriptor is taken back by the time the walk returns.
DescriptorsGivenBack ==
    (\A w \in Workers : pc[w] = "done") => liveFds = 0 /\ parked = {}

\* A walk that returns and does not call itself incomplete has settled every
\* directory it knew of: the index may be written from it (Out.incomplete).
CompleteOrFlagged ==
    (\A w \in Workers : pc[w] = "done") /\ ~incomplete =>
        \A d \in Dirs :
            d \in Initial \/ (\E e \in Dirs : d \in Children[e] /\ state[e] = "read")
            => state[d] \in {"read", "listed", "gone"}

\* What mod.rs says of DetectStrategy: open-and-scan does not drop a repository
\* of mode 0111 that stat-first would list.
SearchOnlyListed == \A d \in SearchOnly : state[d] # "dropped"

\* The walk returns: no sleeper is left behind, with the timed wait never
\* running out (FairSpec), and after a panic with it (TimedSpec).
EveryWorkerEnds == <>Ended

\* The pool implements the walk it is a walk of.
Walk == INSTANCE TreeWalk WITH
    frontier <- {d \in Dirs : state[d] \in {"entry", "found", "queued", "running"}},
    short    <- incomplete,
    over     <- \E w \in Workers : pc[w] = "done"

WalkSpec == Walk!Spec
=============================================================================
