----------------------------- MODULE GetClone ------------------------------
(***************************************************************************)
(* `scap get`: any number of processes cloning into the same roots.        *)
(* src/cmd/get.rs (process_target, clone_with_lock, run_parallel) and      *)
(* src/vcs/git.rs (clone, dest_is_git_repo, stale_tmp_paths).              *)
(*                                                                         *)
(* Each process runs one worker, or up to PARALLEL_WORKERS with `-P`; a    *)
(* worker takes targets off its process's queue and, for each, either      *)
(* finds the destination cloned already or clones it:                      *)
(*                                                                         *)
(*   scan, sweep     delete `<name>.tmp-<pid>` of pids that are not alive  *)
(*   open, lock      open `.scap-lock-<name>`, flock it or exit 75         *)
(*   clone, wait     git clone into `<name>.tmp-<own pid>`                 *)
(*   rename          rename that directory onto the destination            *)
(*   cleanup         after an error: delete the temporary directory        *)
(*   unlock, unlink  release the flock, then unlink the lock file by name  *)
(*                                                                         *)
(* A process may be killed between any two steps.  Its flocks go with it,  *)
(* its files and its git children stay.                                    *)
(***************************************************************************)
EXTENDS Naturals, Sequences, FiniteSets

CONSTANTS
    Dests,          \* destination directories
    Procs,          \* the scap processes; each is its own pid
    Inodes,         \* identities of lock files
    NoInode,        \* no lock file / no open descriptor
    Leftovers,      \* pids under which an older run left temporary directories
    FlockFails,     \* destinations on a file system where flock may fail
    Targets,        \* [Procs -> Seq(Dests)]: the destinations of the arguments
    Parallel,       \* [Procs -> BOOLEAN]: run with `-P`
    Update          \* [Procs -> BOOLEAN]: run with `-u`

PARALLEL_WORKERS == 6

ASSUME ConstantsAssumption ==
    /\ Targets \in [Procs -> Seq(Dests) \ {<< >>}]
    /\ Parallel \in [Procs -> BOOLEAN]
    /\ Update \in [Procs -> BOOLEAN]
    /\ NoInode \notin Inodes
    /\ Leftovers \subseteq Procs
    /\ FlockFails \subseteq Dests
    /\ "none" \notin Procs /\ "moved" \notin Procs

NumWorkers(p) ==
    IF ~Parallel[p] THEN 1
    ELSE IF Len(Targets[p]) < PARALLEL_WORKERS THEN Len(Targets[p])
         ELSE PARALLEL_WORKERS

\* A worker is named by its process and its number.
Workers == {t \in Procs \X (1 .. PARALLEL_WORKERS) : t[2] <= NumWorkers(t[1])}

VARIABLES
    dest,       \* what each destination holds
    tmp,        \* what `<name>.tmp-<pid>` holds, per destination and pid
    lockPath,   \* the inode `.scap-lock-<name>` names, or NoInode
    status,     \* the life of each process, and how it exited
    next,       \* per process: index of the next target in its queue
    pc,         \* where each worker is
    job,        \* index of the target the worker took last (0: none yet)
    result,     \* "ok" or "err": the outcome carried to the unlock
    stale,      \* pids whose temporary directories the worker will delete
    victim,     \* pid whose temporary directory it is deleting right now
    spared,     \* pids whose leftovers its sweep did not see or not delete
    fd,         \* inode of the lock file it has open
    git         \* its `git clone` child, which may outlive the process

files    == <<dest, tmp, lockPath>>
queues   == <<next, job>>
deleting == <<stale, victim, spared>>
vars == <<files, status, queues, pc, result, deleting, fd, git>>

DestStates   == {"absent", "empty", "other", "partial", "whole"}
TmpStates    == {"absent", "junk", "partial", "whole"}   \* junk: an older run's
Running(p)   == status[p] = "running"
Dest(t)      == Targets[t[1]][job[t]]
At(t, label) == Running(t[1]) /\ pc[t] = label
Goto(t, l)   == pc' = [pc EXCEPT ![t] = l]

\* The flock belongs to the open file description, so it is held from
\* try_lock to unlock and is gone the moment the process is.
HoldsLock(t) == pc[t] \in {"clone", "wait", "rename", "cleanup", "cleaning",
                           "unlock"}
\* Mutant: as if opening the file were holding the lock.
OpenedByOther(t) == \E u \in Workers : u # t /\ fd[u] = fd[t]

LockBusy(t)  == \E u \in Workers : HoldsLock(u) /\ fd[u] = fd[t]

Init ==
    /\ dest \in [Dests -> DestStates \ {"partial"}]
    /\ tmp \in [Dests -> [Procs -> {"absent", "junk"}]]
    /\ \A d \in Dests, p \in Procs : tmp[d][p] = "junk" => p \in Leftovers
    /\ lockPath \in [Dests -> Inodes \cup {NoInode}]
    /\ \A d, e \in Dests : lockPath[d] = lockPath[e] =>
           d = e \/ lockPath[d] = NoInode
    /\ status = [p \in Procs |-> "unborn"]
    /\ next   = [p \in Procs |-> 1]
    /\ pc     = [t \in Workers |-> "next"]
    /\ job    = [t \in Workers |-> 0]
    /\ result = [t \in Workers |-> "ok"]
    /\ stale  = [t \in Workers |-> {}]
    /\ victim = [t \in Workers |-> "none"]
    /\ spared = [t \in Workers |-> {}]
    /\ fd     = [t \in Workers |-> NoInode]
    /\ git    = [t \in Workers |-> "none"]

-----------------------------------------------------------------------------
(* Processes.                                                              *)

\* A pid is not handed out while some scap is between finding it dead and
\* deleting its directory; apart from that a leftover may be of any pid.
Launch(p) ==
    /\ status[p] = "unborn"
    /\ \A t \in Workers : p \notin stale[t] /\ victim[t] # p
    /\ status' = [status EXCEPT ![p] = "running"]
    /\ UNCHANGED <<files, queues, pc, result, deleting, fd, git>>

\* The process is gone, with every worker in it: descriptors close, nothing
\* is cleaned up, git children run on.
Die(p, how) ==
    /\ status' = [status EXCEPT ![p] = how]
    /\ pc'     = [t \in Workers |-> IF t[1] = p THEN "gone" ELSE pc[t]]
    /\ stale'  = [t \in Workers |-> IF t[1] = p THEN {} ELSE stale[t]]
    /\ victim' = [t \in Workers |-> IF t[1] = p THEN "none" ELSE victim[t]]
    /\ spared' = [t \in Workers |-> IF t[1] = p THEN {} ELSE spared[t]]
    /\ fd'     = [t \in Workers |-> IF t[1] = p THEN NoInode ELSE fd[t]]
    /\ UNCHANGED <<files, queues, result, git>>

Kill(p) == Running(p) /\ Die(p, "killed")

\* thread::scope has joined every worker and run returns Ok.
Exit(p) ==
    /\ Running(p)
    /\ \A t \in Workers : t[1] = p => pc[t] = "gone"
    /\ Die(p, "ok")

\* process_target returns r: `-P` logs an error and goes on, a sequential
\* run stops at the first one.
Return(t, r) ==
    IF r = "err" /\ ~Parallel[t[1]]
    THEN /\ Goto(t, "gone")
         /\ status' = [status EXCEPT ![t[1]] = "failed"]
    ELSE Goto(t, "next") /\ UNCHANGED status

-----------------------------------------------------------------------------
(* Taking a target and looking at its destination.                         *)

\* Mutant: the end of the queue is not noticed.
TakePastEnd(t) ==
    /\ At(t, "next")
    /\ job' = [job EXCEPT ![t] = next[t[1]]]
    /\ next' = [next EXCEPT ![t[1]] = @ + 1]
    /\ Goto(t, "check")
    /\ UNCHANGED <<files, status, result, deleting, fd, git>>

\* Mutant: the target is read but stays in the queue.
TakeAgain(t) ==
    /\ At(t, "next")
    /\ next[t[1]] <= Len(Targets[t[1]])
    /\ job' = [job EXCEPT ![t] = next[t[1]]]
    /\ Goto(t, "check")
    /\ UNCHANGED <<files, status, next, result, deleting, fd, git>>

Take(t) ==
    /\ At(t, "next")
    /\ next[t[1]] <= Len(Targets[t[1]])
    /\ job' = [job EXCEPT ![t] = next[t[1]]]
    /\ next' = [next EXCEPT ![t[1]] = @ + 1]
    /\ Goto(t, "check")
    /\ UNCHANGED <<files, status, result, deleting, fd, git>>

Finish(t) ==
    /\ At(t, "next")
    /\ next[t[1]] > Len(Targets[t[1]])
    /\ Goto(t, "gone")
    /\ UNCHANGED <<files, status, queues, result, deleting, fd, git>>

\* dest_is_git_repo looks for `.git` alone: part of a clone may pass or not.
LooksLikeRepo(d) == dest[d] \in {"whole", "partial"}
MayLookAbsent(d) == dest[d] # "whole"

\* A repository is there: fetched or pulled under -u, skipped otherwise.
Existing(t) ==
    /\ At(t, "check")
    /\ LooksLikeRepo(Dest(t))
    /\ \E r \in IF Update[t[1]] THEN {"ok", "err"} ELSE {"ok"} : Return(t, r)
    /\ UNCHANGED <<files, queues, result, deleting, fd, git>>

Missing(t) ==
    /\ At(t, "check")
    /\ MayLookAbsent(Dest(t))
    /\ Goto(t, "scan")
    /\ UNCHANGED <<files, status, queues, result, deleting, fd, git>>

-----------------------------------------------------------------------------
(* Deleting directories: remove_dir_all empties the directory it opened,   *)
(* wherever that has been moved since, then removes the name.              *)

\* Children writing under <<d, p>> find their files gone and can only fail.
Doomed(d, p) ==
    [u \in Workers |-> IF u[1] = p /\ git[u] = "writing" /\ Dest(u) = d
                       THEN "doomed" ELSE git[u]]

StartDelete(t, p) ==
    LET d == Dest(t) IN
    /\ victim' = [victim EXCEPT ![t] = p]
    /\ tmp' = [tmp EXCEPT ![d][p] = IF @ = "junk" THEN "junk" ELSE "partial"]
    /\ git' = Doomed(d, p)

EndDelete(t) ==
    LET d == Dest(t) IN
    /\ victim' = [victim EXCEPT ![t] = "none"]
    /\ IF victim[t] = "moved"
       THEN /\ dest' = [dest EXCEPT ![d] = "empty"]
            /\ UNCHANGED tmp
       ELSE /\ tmp' = [tmp EXCEPT ![d][victim[t]] = "absent"]
            /\ UNCHANGED dest

\* Mutant: every temporary directory is stale, alive pid or not.
ScanAll(t) ==
    /\ At(t, "scan")
    /\ stale' = [stale EXCEPT ![t] =
                    {p \in Procs : tmp[Dest(t)][p] # "absent"}]
    /\ Goto(t, "sweep")
    /\ UNCHANGED <<files, status, queues, result, victim, spared, fd, git>>

Abandoned(t) == {p \in Procs : tmp[Dest(t)][p] # "absent" /\ ~Running(p)}

\* stale_tmp_paths: the directories whose pid is not alive, listed before
\* the first of them is deleted.  A parent that cannot be read has none, and
\* an entry whose readdir fails is passed over.
Scan(t) ==
    /\ At(t, "scan")
    /\ \E seen \in SUBSET Abandoned(t) :
          /\ stale'  = [stale EXCEPT ![t] = seen]
          /\ spared' = [spared EXCEPT ![t] = Abandoned(t) \ seen]
    /\ Goto(t, "sweep")
    /\ UNCHANGED <<files, status, queues, result, victim, fd, git>>

SweepStart(t, p) ==
    /\ At(t, "sweep") /\ victim[t] = "none"
    /\ p \in stale[t]
    /\ stale' = [stale EXCEPT ![t] = @ \ {p}]
    /\ IF tmp[Dest(t)][p] # "absent"
       THEN StartDelete(t, p)
       ELSE UNCHANGED <<tmp, victim, git>>     \* another sweeper was faster
    /\ UNCHANGED <<dest, lockPath, status, queues, pc, result, spared, fd>>

SweepEnd(t) ==
    /\ At(t, "sweep") /\ victim[t] # "none"
    /\ EndDelete(t)
    /\ UNCHANGED <<lockPath, status, queues, pc, result, stale, spared, fd, git>>

\* A stale directory cannot be deleted, or not to its end: what is left of
\* it stays, and the sweep goes on with the next.
SweepFails(t) ==
    /\ At(t, "sweep")
    /\ \E p \in Procs :
          /\ \/ /\ victim[t] = p
                /\ victim' = [victim EXCEPT ![t] = "none"]
                /\ UNCHANGED stale
             \/ /\ victim[t] = "none" /\ p \in stale[t]
                /\ stale' = [stale EXCEPT ![t] = @ \ {p}]
                /\ UNCHANGED victim
          /\ spared' = [spared EXCEPT ![t] = @ \cup {p}]
    /\ UNCHANGED <<files, status, queues, pc, result, fd, git>>

\* Mutant: the sweep stops after the first leftover.
SweepFirst(t) ==
    /\ At(t, "sweep") /\ victim[t] = "none"
    /\ Goto(t, "open")
    /\ stale' = [stale EXCEPT ![t] = {}]
    /\ UNCHANGED <<files, status, queues, result, victim, spared, fd, git>>

SweepDone(t) ==
    /\ At(t, "sweep") /\ victim[t] = "none" /\ stale[t] = {}
    /\ Goto(t, "open")
    /\ UNCHANGED <<files, status, queues, result, deleting, fd, git>>

-----------------------------------------------------------------------------
(* The lock file.                                                          *)

Fresh(i) == /\ \A d \in Dests : lockPath[d] # i
            /\ \A u \in Workers : fd[u] # i

OpenLock(t) ==
    LET d == Dest(t) IN
    /\ At(t, "open")
    /\ IF lockPath[d] = NoInode
       THEN \E i \in Inodes :
              /\ Fresh(i)
              /\ lockPath' = [lockPath EXCEPT ![d] = i]
              /\ fd' = [fd EXCEPT ![t] = i]
       ELSE /\ fd' = [fd EXCEPT ![t] = lockPath[d]]
            /\ UNCHANGED lockPath
    /\ Goto(t, "lock")
    /\ UNCHANGED <<dest, tmp, status, queues, result, deleting, git>>

\* The parent cannot be created or the lock file cannot be opened.
OpenFails(t) ==
    /\ At(t, "open")
    /\ Return(t, "err")
    /\ UNCHANGED <<files, queues, result, deleting, fd, git>>

TryLock(t) ==
    /\ At(t, "lock")
    /\ ~LockBusy(t)
    /\ Goto(t, "clone")
    /\ UNCHANGED <<files, status, queues, result, deleting, fd, git>>

\* try_lock failed: process::exit(75), whatever the other workers are doing.
\* is_err() does not tell a lock that is held from a flock that failed.
TempFail(t) ==
    /\ At(t, "lock")
    /\ LockBusy(t) \/ Dest(t) \in FlockFails
    /\ Die(t[1], "tempfail")

Unlock(t) ==
    /\ At(t, "unlock")
    /\ Goto(t, "unlink")
    /\ UNCHANGED <<files, status, queues, result, deleting, fd, git>>

\* The lock file is removed by name, whoever's file that is by now.
Unlink(t) ==
    /\ At(t, "unlink")
    /\ lockPath' = [lockPath EXCEPT ![Dest(t)] = NoInode]
    /\ fd' = [fd EXCEPT ![t] = NoInode]
    /\ Return(t, result[t])
    /\ UNCHANGED <<dest, tmp, queues, result, deleting, git>>

-----------------------------------------------------------------------------
(* Cloning under the lock.                                                 *)

Clone(t) ==
    /\ At(t, "clone")
    /\ git' = [git EXCEPT ![t] = "spawned"]
    /\ Goto(t, "wait")
    /\ UNCHANGED <<files, status, queues, result, deleting, fd>>

\* Mutant: git's exit status is not looked at.
ReapUnchecked(t) ==
    /\ At(t, "wait")
    /\ git[t] \in {"ok", "err"}
    /\ result' = [result EXCEPT ![t] = "ok"]
    /\ Goto(t, "rename")
    /\ git' = [git EXCEPT ![t] = "none"]
    /\ UNCHANGED <<files, status, queues, deleting, fd>>

Reap(t) ==
    /\ At(t, "wait")
    /\ git[t] \in {"ok", "err"}
    /\ result' = [result EXCEPT ![t] = git[t]]
    /\ Goto(t, IF git[t] = "ok" THEN "rename" ELSE "cleanup")
    /\ git' = [git EXCEPT ![t] = "none"]
    /\ UNCHANGED <<files, status, queues, deleting, fd>>

\* Mutant: what is at the destination is replaced.
CanReplace(t) == tmp[Dest(t)][t[1]] # "absent"

\* rename(2) of a directory replaces nothing, or an empty directory.
CanRename(t) == /\ tmp[Dest(t)][t[1]] # "absent"
                /\ dest[Dest(t)] \in {"absent", "empty"}

\* Whoever is deleting the temporary directory goes on deleting it under
\* its new name.
Rename(t) ==
    LET d  == Dest(t)
        p  == t[1]
        by == {u \in Workers : victim[u] = p /\ Dest(u) = d}
    IN /\ At(t, "rename")
       /\ CanRename(t)
       /\ dest' = [dest EXCEPT ![d] =
                     IF tmp[d][p] = "whole" /\ by = {} THEN "whole"
                                                       ELSE "partial"]
       /\ tmp' = [tmp EXCEPT ![d][p] = "absent"]
       /\ victim' = [u \in Workers |-> IF u \in by THEN "moved" ELSE victim[u]]
       /\ git' = Doomed(d, p)
       /\ Goto(t, "unlock")
       /\ UNCHANGED <<lockPath, status, queues, result, stale, spared, fd>>

\* Mutant: a failed rename is ignored.
RenameIgnored(t) ==
    /\ At(t, "rename")
    /\ Goto(t, "cleanup")
    /\ UNCHANGED <<files, status, queues, result, deleting, fd, git>>

\* Mutant: a failed rename returns without the cleanup.
RenameNoCleanup(t) ==
    /\ At(t, "rename")
    /\ result' = [result EXCEPT ![t] = "err"]
    /\ Goto(t, "unlock")
    /\ UNCHANGED <<files, status, queues, deleting, fd, git>>

\* The destination is taken or the temporary directory is gone, or the parent
\* cannot be made or the rename fails for a reason of the file system's.
RenameFails(t) ==
    /\ At(t, "rename")
    /\ result' = [result EXCEPT ![t] = "err"]
    /\ Goto(t, "cleanup")
    /\ UNCHANGED <<files, status, queues, deleting, fd, git>>

CleanupStart(t) ==
    /\ At(t, "cleanup")
    /\ IF tmp[Dest(t)][t[1]] # "absent"
       THEN StartDelete(t, t[1]) /\ Goto(t, "cleaning")
       ELSE Goto(t, "unlock") /\ UNCHANGED <<tmp, victim, git>>
    /\ UNCHANGED <<dest, lockPath, status, queues, result, stale, spared, fd>>

CleanupEnd(t) ==
    /\ At(t, "cleaning")
    /\ EndDelete(t)
    /\ Goto(t, "unlock")
    /\ UNCHANGED <<lockPath, status, queues, result, stale, spared, fd, git>>

-----------------------------------------------------------------------------
(* The git child: `git clone <url> <name>.tmp-<pid>`.  It refuses a target *)
(* that is there already, and on failure removes what it made if it can.   *)

GitMkdir(t) ==
    LET d == Dest(t)  p == t[1] IN
    /\ git[t] = "spawned"
    /\ IF tmp[d][p] = "absent"
       THEN /\ tmp' = [tmp EXCEPT ![d][p] = "partial"]
            /\ git' = [git EXCEPT ![t] = "writing"]
       ELSE git' = [git EXCEPT ![t] = "err"] /\ UNCHANGED tmp
    /\ UNCHANGED <<dest, lockPath, status, queues, pc, result, deleting, fd>>

GitSucceeds(t) ==
    /\ git[t] = "writing"
    /\ tmp' = [tmp EXCEPT ![Dest(t)][t[1]] = "whole"]
    /\ git' = [git EXCEPT ![t] = "ok"]
    /\ UNCHANGED <<dest, lockPath, status, queues, pc, result, deleting, fd>>

GitFails(t) ==
    LET d == Dest(t)  p == t[1] IN
    /\ git[t] \in {"writing", "doomed"}
    /\ \/ /\ tmp' = [tmp EXCEPT ![d][p] = "absent"]
          /\ git' = [Doomed(d, p) EXCEPT ![t] = "err"]
       \/ git' = [git EXCEPT ![t] = "err"] /\ UNCHANGED tmp
    /\ UNCHANGED <<dest, lockPath, status, queues, pc, result, deleting, fd>>

-----------------------------------------------------------------------------
Work(t) ==
    \/ Take(t) \/ Finish(t) \/ Existing(t) \/ Missing(t)
    \/ Scan(t) \/ (\E p \in Procs : SweepStart(t, p))
    \/ SweepEnd(t) \/ SweepFails(t) \/ SweepDone(t)
    \/ OpenLock(t) \/ OpenFails(t) \/ TryLock(t) \/ TempFail(t)
    \/ Clone(t) \/ Reap(t) \/ Rename(t) \/ RenameFails(t)
    \/ CleanupStart(t) \/ CleanupEnd(t) \/ Unlock(t) \/ Unlink(t)

GitChild(t) == GitMkdir(t) \/ GitSucceeds(t) \/ GitFails(t)

Done == /\ \A p \in Procs : status[p] \notin {"unborn", "running"}
        /\ \A t \in Workers : git[t] \notin {"spawned", "writing", "doomed"}
        /\ UNCHANGED vars

Next ==
    \/ \E p \in Procs : Launch(p) \/ Kill(p) \/ Exit(p)
    \/ \E t \in Workers : Work(t) \/ GitChild(t)
    \/ Done

Spec == Init /\ [][Next]_vars

\* The kernel keeps running every thread and every git child; it never has
\* to launch or to kill a process.
FairSpec == /\ Spec
            /\ \A p \in Procs : WF_vars(Exit(p))
            /\ \A t \in Workers : WF_vars(Work(t)) /\ WF_vars(GitChild(t))

-----------------------------------------------------------------------------
(* Properties.                                                             *)

\* Every variable stays in its type.
TypeOK ==
    /\ dest \in [Dests -> DestStates]
    /\ tmp \in [Dests -> [Procs -> TmpStates]]
    /\ lockPath \in [Dests -> Inodes \cup {NoInode}]
    /\ status \in [Procs -> {"unborn", "running", "ok", "failed", "tempfail",
                             "killed"}]
    /\ next \in [Procs -> Nat \ {0}]
    /\ \A p \in Procs : next[p] <= Len(Targets[p]) + 1
    /\ pc \in [Workers -> {"next", "check", "scan", "sweep", "open", "lock",
                           "clone", "wait", "rename", "cleanup", "cleaning",
                           "unlock", "unlink", "gone"}]
    /\ job \in [Workers -> Nat]
    /\ \A t \in Workers : job[t] < next[t[1]]
    /\ result \in [Workers -> {"ok", "err"}]
    /\ stale \in [Workers -> SUBSET Procs]
    /\ victim \in [Workers -> Procs \cup {"none", "moved"}]
    /\ spared \in [Workers -> SUBSET Procs]
    /\ fd \in [Workers -> Inodes \cup {NoInode}]
    /\ git \in [Workers -> {"none", "spawned", "writing", "doomed", "ok",
                            "err"}]

\* No -P process is asked for the same destination twice.
DistinctTargets ==
    \A p \in Procs : Parallel[p] =>
        \A i, j \in 1 .. Len(Targets[p]) : Targets[p][i] = Targets[p][j] => i = j

\* No destination ever holds part of a clone, whatever is killed when and
\* however many processes race for it (README.md:50).
DestNeverPartial == \A d \in Dests : dest[d] # "partial"

\* Nobody deletes the temporary directory a live process is cloning into:
\* stale_tmp_paths and the error cleanup only reach what is theirs.
LiveCloneUndisturbed == \A t \in Workers : Running(t[1]) => git[t] # "doomed"

\* A sequential `scap get` that exits 0 leaves every target a whole clone,
\* although the destination was looked at before the lock was taken and
\* another process may have cloned it, or failed to, in between.
OkMeansCloned ==
    \A p \in Procs : status[p] = "ok" /\ ~Parallel[p] =>
        \A i \in 1 .. Len(Targets[p]) : dest[Targets[p][i]] = "whole"

\* A process that ran to its end leaves no temporary directory of its own,
\* whichever step of the clone failed; what an older run left under the
\* same pid may stay.
NothingLeftBehind ==
    \A p \in Procs : status[p] \in {"ok", "failed"} =>
        \A d \in Dests : tmp[d][p] \in {"absent", "junk"}

\* By the time a worker opens the lock it has deleted what crashed runs left
\* beside its destination (tests/get.rs get_atomic_clone_cleans_stale_tmp),
\* several sweepers of the same leftovers notwithstanding, but for what its
\* listing missed and for the very ones it could not delete: one deletion
\* that fails keeps it from none of the others.
LeftoversSwept ==
    \A t \in Workers : \A p \in Procs :
        /\ Running(t[1]) /\ (HoldsLock(t) \/ pc[t] \in {"open", "lock"})
        /\ status[p] = "unborn"
        /\ tmp[Dest(t)][p] = "junk"
        => p \in spared[t]

\* Exit 75 says that another process is cloning one of this one's targets at
\* that moment, or that flock itself may have failed there: neither a lock
\* file left by a crash nor a lock of this process's own workers causes it.
TempfailMeansBusy ==
    [][\A p \in Procs : status'[p] = "tempfail" /\ status[p] # "tempfail" =>
         \E t \in Workers :
            /\ t[1] = p /\ At(t, "lock")
            /\ \/ Dest(t) \in FlockFails
               \/ \E u \in Workers :
                     /\ u[1] # p /\ Running(u[1])
                     /\ pc[u] \in {"clone", "wait", "rename", "cleanup",
                                   "cleaning", "unlock"}
                     /\ Dest(u) = Dest(t)]_vars

\* Every run that starts ends: nothing waits for a lock, and no worker waits
\* for anything but its own git child.
EveryRunEnds == \A p \in Procs : Running(p) ~> ~Running(p)

\* The lock, the temporary directories and the crashes implement a
\* destination that is cloned in one step.
Abstract == INSTANCE AtomicClone
AbstractSpec == Abstract!Spec
=============================================================================
