------------------------------ MODULE RepoLife ------------------------------
(***************************************************************************)
(* `scap rm` and `scap create` beside `scap get`: src/cmd/rm.rs,           *)
(* src/cmd/create.rs and is_not_exist_or_empty of src/cmd/mod.rs.  Neither *)
(* takes get's lock.                                                       *)
(*                                                                         *)
(* Both hold on to a directory, not to its name: rm empties the one it     *)
(* opened, and create's `git init` writes into the one it was started in,  *)
(* even when get has renamed a clone over it.  rm's last step, the removal *)
(* of the directory itself, goes by name.                                  *)
(***************************************************************************)
EXTENDS GetClone

CONSTANTS
    Commands,   \* the rm and create processes
    Kind,       \* [Commands -> {"rm", "create"}]
    Target      \* [Commands -> Dests]

ASSUME CommandsAssumption ==
    /\ Kind \in [Commands -> {"rm", "create"}]
    /\ Target \in [Commands -> Dests]

VARIABLES
    at,         \* where each of them is
    held,       \* is the directory it holds still at its destination, and
                \* were its files deleted ("torn") while it wrote them?
    exit,       \* how it exited
    began       \* those that have begun to change what is at their destination

commands == <<at, held, exit, began>>
lifeVars == <<vars, commands>>
get      == <<files, status, queues, pc, result, deleting, fd, git>>
getRest  == <<tmp, lockPath, status, queues, pc, result, deleting, fd, git>>

LifeInit ==
    /\ Init
    /\ at = [x \in Commands |-> "check"]
    /\ held = [x \in Commands |-> "no"]
    /\ exit = [x \in Commands |-> "none"]
    /\ began = {}

In(x)       == dest[Target[x]]
Become(x, s) == dest' = [dest EXCEPT ![Target[x]] = s]
Goes(x, l)  == at' = [at EXCEPT ![x] = l]
Step(x, l)  == Goes(x, l) /\ UNCHANGED <<held, exit, began>>
Writers(x)  == {y \in Commands : at[y] = "writing" /\ Target[y] = Target[x]}

\* The process, and the git it started, are over.
Leave(x, how) ==
    /\ Goes(x, "ended")
    /\ held' = [held EXCEPT ![x] = "no"]
    /\ exit' = [exit EXCEPT ![x] = IF @ = "killed" THEN @ ELSE how]
    /\ UNCHANGED began

\* It is killed; a git it started runs on.
KillCommand(x) ==
    /\ at[x] # "ended" /\ exit[x] = "none"
    /\ IF at[x] \in {"init", "writing"}
       THEN exit' = [exit EXCEPT ![x] = "killed"] /\ UNCHANGED <<at, held, began>>
       ELSE Leave(x, "killed")
    /\ UNCHANGED get

is_not_exist_or_empty(d) == dest[d] \in {"absent", "empty"}

-----------------------------------------------------------------------------
(* rm::run                                                                 *)

RmCheck(x) ==
    /\ at[x] = "check" /\ Kind[x] = "rm"
    /\ IF is_not_exist_or_empty(Target[x])
       THEN Leave(x, "failed")
       ELSE Step(x, "ask") \/ Leave(x, "ok")      \* --dry-run
    /\ UNCHANGED get

\* confirm: exactly "y", or anything else.
Confirm(x) ==
    /\ at[x] = "ask"
    /\ Step(x, "remove") \/ Leave(x, "failed")
    /\ UNCHANGED get

\* Files that are being written into a directory while it is emptied.
Torn(x) == [y \in Commands |-> IF y \in Writers(x) /\ held[y] = "here" THEN "torn" ELSE held[y]]

\* fs::remove_dir_all: opens the directory and starts on its files, ...
RmOpen(x) ==
    /\ at[x] = "remove"
    /\ IF In(x) = "absent"
       THEN Leave(x, "failed") /\ UNCHANGED dest
       ELSE /\ Become(x, IF In(x) = "empty" THEN "empty" ELSE "partial")
            /\ held' = [Torn(x) EXCEPT ![x] = "here"]
            /\ began' = began \cup {x}
            /\ Goes(x, "emptying") /\ UNCHANGED exit
    /\ UNCHANGED getRest

\* ... deletes what it finds, a file written since or not, ...
RmEmptied(x) ==
    /\ at[x] = "emptying"
    /\ \/ /\ IF held[x] = "here" THEN Become(x, "empty") ELSE UNCHANGED dest
          /\ held' = IF held[x] = "here" THEN Torn(x) ELSE held
       \/ /\ held[x] = "here" /\ \E y \in Commands \ {x} : Target[y] = Target[x] /\ held[y] # "no"
          /\ UNCHANGED <<dest, held>>
    /\ Goes(x, "rmdir") /\ UNCHANGED <<exit, began, getRest>>

\* ... or meets a file it may not delete, ...
RmFails(x) ==
    /\ at[x] = "emptying"
    /\ Leave(x, "failed")
    /\ UNCHANGED get

\* Mutant of Rmdir: what is in the way is no failure.
RmdirIgnored(x) ==
    /\ at[x] = "rmdir"
    /\ Goes(x, "ended")
    /\ exit' = [exit EXCEPT ![x] = "ok"]
    /\ held' = [held EXCEPT ![x] = "no"]
    /\ IF In(x) = "empty" THEN Become(x, "absent") ELSE UNCHANGED dest
    /\ UNCHANGED <<began, getRest>>

\* Mutant of Rmdir: what has come meanwhile goes too.
RmdirRetried(x) ==
    /\ at[x] = "rmdir"
    /\ Become(x, "absent")
    /\ held' = [y \in Commands |-> IF Target[y] = Target[x] THEN "no" ELSE held[y]]
    /\ exit' = [exit EXCEPT ![x] = "ok"]
    /\ Goes(x, "ended")
    /\ UNCHANGED <<began, getRest>>

\* ... and removes the directory of that name, if it is empty.
Rmdir(x) ==
    /\ at[x] = "rmdir"
    /\ Goes(x, "ended")
    /\ IF In(x) = "empty"
       THEN /\ Become(x, "absent")
            /\ held' = [y \in Commands |-> IF Target[y] = Target[x] THEN "no" ELSE held[y]]
            /\ exit' = [exit EXCEPT ![x] = "ok"]
       ELSE /\ UNCHANGED dest
            /\ held' = [held EXCEPT ![x] = "no"]
            /\ \E how \in IF In(x) = "absent" THEN {"ok", "failed"} ELSE {"failed"} :
                  exit' = [exit EXCEPT ![x] = how]
    /\ UNCHANGED <<began, getRest>>

-----------------------------------------------------------------------------
(* create::run                                                             *)

CreateCheck(x) ==
    /\ at[x] = "check" /\ Kind[x] = "create"
    /\ IF is_not_exist_or_empty(Target[x]) THEN Step(x, "mkdir") ELSE Leave(x, "failed")
    /\ UNCHANGED get

\* fs::create_dir_all is content with a directory that is there by now.
Mkdir(x) ==
    /\ at[x] = "mkdir"
    /\ \/ /\ IF In(x) = "absent" THEN Become(x, "empty") ELSE UNCHANGED dest
          /\ Step(x, "spawn")
       \/ Leave(x, "failed") /\ UNCHANGED dest
    /\ UNCHANGED getRest

\* git_init: the child changes into the directory before it becomes git.
Spawn(x) ==
    /\ at[x] = "spawn"
    /\ \/ /\ In(x) # "absent"
          /\ held' = [held EXCEPT ![x] = "here"]
          /\ Goes(x, "init") /\ UNCHANGED <<exit, began>>
       \/ Leave(x, "failed")
    /\ UNCHANGED get

\* External: git init fails in a directory that was removed or replaced, and leaves a
\* repository that is there already as it is.
InitStart(x) ==
    /\ at[x] = "init"
    /\ IF held[x] = "no"
       THEN Leave(x, "failed") /\ UNCHANGED dest
       ELSE /\ IF In(x) = "whole" THEN UNCHANGED dest ELSE Become(x, "partial")
            /\ began' = began \cup {x}
            /\ Goes(x, "writing") /\ UNCHANGED <<held, exit>>
    /\ UNCHANGED getRest

InitEnd(x) ==
    /\ at[x] = "writing"
    /\ IF held[x] = "no" THEN Leave(x, "failed") ELSE Leave(x, "ok")
    /\ CASE held[x] = "here" -> Become(x, "whole")
         [] held[x] = "torn" /\ In(x) # "whole" -> Become(x, "partial")
         [] OTHER -> UNCHANGED dest
    /\ UNCHANGED getRest

\* Mutant of InitFails: the exit status of git init is not looked at.
InitUnchecked(x) ==
    /\ at[x] \in {"init", "writing"}
    /\ Leave(x, "ok")
    /\ UNCHANGED get

InitFails(x) ==
    /\ at[x] \in {"init", "writing"}
    /\ Leave(x, "failed")
    /\ UNCHANGED get

-----------------------------------------------------------------------------
\* A clone that is renamed to d takes the place of the directory there.
Replaces(d) == \E t \in Workers : Rename(t) /\ Dest(t) = d

Beside == /\ held' = [x \in Commands |-> IF Replaces(Target[x]) THEN "no" ELSE held[x]]
          /\ UNCHANGED <<at, exit, began>>

GetRuns == /\ \/ \E p \in Procs : Launch(p) \/ Kill(p) \/ Exit(p)
              \/ \E t \in Workers : Work(t) \/ GitChild(t)
           /\ Beside

\* What a command does by itself, and what it waits for its user to do.
Proceed(x) ==
    \/ RmCheck(x) \/ RmOpen(x) \/ RmEmptied(x) \/ RmFails(x) \/ Rmdir(x)
    \/ CreateCheck(x) \/ Mkdir(x) \/ Spawn(x)
    \/ InitStart(x) \/ InitEnd(x) \/ InitFails(x)

AllOver == /\ \A p \in Procs : status[p] \notin {"unborn", "running"}
           /\ \A t \in Workers : git[t] \notin {"spawned", "writing", "doomed"}
           /\ \A x \in Commands : at[x] = "ended"

LifeNext ==
    \/ GetRuns
    \/ \E x \in Commands : Proceed(x) \/ Confirm(x) \/ KillCommand(x)
    \/ AllOver /\ UNCHANGED lifeVars

LifeSpec == LifeInit /\ [][LifeNext]_lifeVars

\* As GetClone's FairSpec; whoever is asked need not answer.
LifeFairSpec ==
    /\ LifeSpec
    /\ \A p \in Procs : WF_lifeVars(Exit(p) /\ Beside)
    /\ \A t \in Workers : WF_lifeVars(Work(t) /\ Beside) /\ WF_lifeVars(GitChild(t) /\ Beside)
    /\ \A x \in Commands : WF_lifeVars(Proceed(x))

-----------------------------------------------------------------------------
(* Properties.                                                             *)

\* A whole repository is lost only to an rm that was answered "y" and that has this very
\* directory open: a clone that lands at its name while it is deleting survives, and create
\* never harms one, whatever arrives between its check and its git init (rm.rs:24-38,
\* create.rs:26-32).
LostOnlyToRm ==
    [][\A d \in Dests : dest[d] = "whole" /\ dest'[d] # "whole" =>
         \E x \in Commands :
            /\ Kind[x] = "rm" /\ Target[x] = d
            /\ at[x] = "remove" \/ (at[x] = "emptying" /\ held[x] = "here")
            /\ at'[x] # at[x]]_lifeVars

\* Part of a repository that stays behind was reported: some rm or create of that destination
\* failed or was killed, so no user is left with half a repository and only good news.
PartialIsReported ==
    AllOver => \A d \in Dests : dest[d] = "partial" =>
        \E x \in Commands : Target[x] = d /\ exit[x] \in {"failed", "killed"}

\* A sequential get or a create that exits 0 leaves a repository at its destination, although
\* both look at it long before they fill it and get takes anything with a `.git` for one;
\* unless an rm set to work on it, or the git init that get met half way came to nothing.
OkMeansThere ==
    AllOver => \A d \in Dests :
        /\ \/ \E x \in Commands : Target[x] = d /\ Kind[x] = "create" /\ exit[x] = "ok"
           \/ \E p \in Procs : status[p] = "ok" /\ ~Parallel[p] /\ \E i \in DOMAIN Targets[p] : Targets[p][i] = d
        /\ \A x \in began : Target[x] = d => Kind[x] = "create" /\ exit[x] = "ok"
        => dest[d] = "whole"
=============================================================================
