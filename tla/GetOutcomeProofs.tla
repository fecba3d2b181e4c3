-------------------------- MODULE GetOutcomeProofs --------------------------
(***************************************************************************)
(* What a run of `get` may say when it ends, for any number of processes,  *)
(* workers, targets and destinations: exit 0, exit 75, and the directories *)
(* that are left.                                                          *)
(***************************************************************************)
EXTENDS GetCloneProofs

\* get as proved so far.
Sound == TypeInv /\ Safe /\ DestNeverPartial

LEMMA SoundAlways ==
    ASSUME DistinctTargets
    PROVE  Spec => []Sound
<1>1. TypeInv /\ Safe /\ DestNeverPartial => Sound
  BY DEF Sound
<1>2. QED
  BY SafeAlways, NeverHalfCloned, <1>1, PTL

\* A run without -P has one worker.
LEMMA Alone ==
    ASSUME NEW t \in Workers, NEW u \in Workers, t[1] = u[1], ~Parallel[t[1]]
    PROVE  t = u
BY WorkerFacts DEF Workers, NumWorkers

LEMMA HasWorker ==
    ASSUME NEW p \in Procs
    PROVE  <<p, 1>> \in Workers
<1>1. Len(Targets[p]) \in Nat \ {0}
  BY ConstantsAssumption
<1>2. QED
  BY <1>1 DEF Workers, NumWorkers, PARALLEL_WORKERS

LEMMA WholeStays ==
    ASSUME DistinctTargets, Sound, [Next]_vars, NEW d \in Dests, dest[d] = "whole"
    PROVE  dest'[d] = "whole"
BY OnlyRenames DEF Sound, TypeInv, TypeOK

\* What a worker's process has taken are destinations.
LEMMA TakenType ==
    ASSUME TypeOK, NEW t \in Workers, NEW i \in 1 .. next[t[1]] - 1
    PROVE  Targets[t[1]][i] \in Dests
<1>1. t[1] \in Procs /\ Targets[t[1]] \in Seq(Dests)
  BY WorkerFacts, ConstantsAssumption
<1>2. i \in 1 .. Len(Targets[t[1]])
  BY <1>1 DEF TypeOK
<1>3. QED
  BY <1>1, <1>2

-----------------------------------------------------------------------------
(* Exit 0.  A sequential worker has left no target behind it that is not   *)
(* whole, but for the one it is on.                                        *)

Busy(t) == Running(t[1]) /\ pc[t] \notin {"next", "gone"}

\* All that a step of get does to a worker of a run without -P: nothing; the end of its run, but
\* for a good one; a target taken; a step on with the target it is on; that target done with, for
\* a reason; or the end of the queue, and then of the run.
Rests(t) == UNCHANGED << status[t[1]], next[t[1]], pc[t], job[t], result[t] >>
Stops(t) == status'[t[1]] \in {"failed", "killed", "tempfail"}
Starts(t) ==
    /\ status[t[1]] = "unborn" /\ pc[t] = "next" /\ status'[t[1]] = "running"
    /\ UNCHANGED << next[t[1]], pc[t], job[t], result[t] >>
Takes(t) ==
    /\ Running(t[1]) /\ pc[t] = "next" /\ pc'[t] = "check"
    /\ next'[t[1]] = next[t[1]] + 1 /\ job'[t] = next[t[1]] /\ UNCHANGED status[t[1]]
GoesOn(t) ==
    /\ Busy(t) /\ Busy(t)' /\ UNCHANGED << status[t[1]], next[t[1]], job[t] >>
    /\ pc'[t] \in {"unlock", "unlink"} /\ result'[t] = "ok" =>
           \/ pc[t] \in {"unlock", "unlink", "cleanup", "cleaning"} /\ result[t] = "ok"
           \/ dest'[Dest(t)] = "whole"
    /\ pc'[t] \in {"cleanup", "cleaning"} =>
           result'[t] = "err" \/ (pc[t] \in {"cleanup", "cleaning"} /\ result'[t] = result[t])
Returns(t) ==
    /\ Busy(t) /\ pc'[t] = "next" /\ UNCHANGED << status[t[1]], next[t[1]], job[t], result[t] >>
    /\ LooksLikeRepo(Dest(t)) \/ (pc[t] = "unlink" /\ result[t] = "ok")
Leaves(t) ==
    /\ Running(t[1]) /\ pc[t] = "next" /\ pc'[t] = "gone" /\ next[t[1]] > Len(Targets[t[1]])
    /\ UNCHANGED << status[t[1]], next[t[1]], job[t], result[t] >>
Exits(t) ==
    /\ Running(t[1]) /\ pc[t] = "gone" /\ status'[t[1]] = "ok" /\ pc'[t] = "gone"
    /\ UNCHANGED << next[t[1]], job[t], result[t] >>

Moves(t) == \/ Rests(t) \/ Stops(t) \/ Starts(t) \/ Takes(t)
            \/ GoesOn(t) \/ Returns(t) \/ Leaves(t) \/ Exits(t)

\* The steps with the target in hand.
LEMMA GoesOnMoves ==
    ASSUME DistinctTargets, TypeInv, Safe, NEW t \in Workers,
           \/ Missing(t) \/ Scan(t) \/ (\E p \in Procs : SweepStart(t, p))
           \/ SweepEnd(t) \/ SweepFails(t) \/ SweepDone(t) \/ OpenLock(t) \/ TryLock(t)
           \/ Clone(t) \/ Reap(t) \/ Rename(t) \/ RenameFails(t)
           \/ CleanupStart(t) \/ CleanupEnd(t) \/ Unlock(t)
    PROVE  GoesOn(t)
<1> USE DEF At, Goto, queues, files, deleting
<1>a. /\ pc \in [Workers -> Labels] /\ result \in [Workers -> {"ok", "err"}]
      /\ \A u \in Workers : git[u] \in {"none", "spawned", "writing", "doomed", "ok", "err"}
  BY DEF TypeInv, TypeOK, Labels
<1>b. Busy(t) /\ UNCHANGED <<status, next, job>>
  BY DEF Busy, Missing, Scan, SweepStart, SweepEnd, SweepFails, SweepDone, OpenLock, TryLock,
     Clone, Reap, Rename, RenameFails, CleanupStart, CleanupEnd, Unlock
<1>c. Busy(t)'
  BY <1>a, <1>b DEF Busy, Running, Missing, Scan, SweepStart, SweepEnd, SweepFails, SweepDone, OpenLock,
     TryLock, Clone, Reap, Rename, RenameFails, CleanupStart, CleanupEnd, Unlock
<1>1. CASE \/ Missing(t) \/ Scan(t) \/ (\E p \in Procs : SweepStart(t, p))
           \/ SweepEnd(t) \/ SweepFails(t) \/ SweepDone(t) \/ OpenLock(t) \/ TryLock(t)
           \/ Clone(t)
  BY <1>a, <1>b, <1>c, <1>1 DEF GoesOn, Missing, Scan, SweepStart, SweepEnd, SweepFails, SweepDone,
     OpenLock, TryLock, Clone
<1>2. CASE Reap(t) \/ RenameFails(t)
  BY <1>a, <1>b, <1>c, <1>2 DEF GoesOn, Reap, RenameFails
<1>3. CASE Rename(t)
  <2>1. dest' = [dest EXCEPT ![Dest(t)] = "whole"] /\ job[t] # 0
    BY <1>3, RenameWhole DEF TypeInv, JobTaken, Rename
  <2>2. dest'[Dest(t)] = "whole"
    BY <2>1, DestType DEF TypeInv, TypeOK
  <2>3. QED
    BY <1>a, <1>b, <1>c, <1>3, <2>2 DEF GoesOn, Rename
<1>4. CASE CleanupStart(t) \/ CleanupEnd(t) \/ Unlock(t)
  BY <1>a, <1>b, <1>c, <1>4 DEF GoesOn, CleanupStart, CleanupEnd, Unlock
<1>5. QED
  BY <1>1, <1>2, <1>3, <1>4

LEMMA WorkMoves ==
    ASSUME DistinctTargets, TypeInv, Safe, NEW t \in Workers, ~Parallel[t[1]], Work(t)
    PROVE  Moves(t)
<1>a. /\ t[1] \in Procs /\ next \in [Procs -> Nat \ {0}] /\ job \in [Workers -> Nat]
      /\ pc \in [Workers -> Labels] /\ result[t] \in {"ok", "err"} /\ DOMAIN status = Procs
  BY WorkerFacts DEF TypeInv, TypeOK, Labels
<1>r. ASSUME NEW r \in {"ok", "err"}, Return(t, r), Busy(t), UNCHANGED <<queues, result>>,
             r = "ok" => LooksLikeRepo(Dest(t)) \/ (pc[t] = "unlink" /\ result[t] = "ok")
      PROVE  Moves(t)
  <2>1. CASE r = "err"
    BY <1>a, <1>r, <2>1 DEF Return, Moves, Stops
  <2>2. CASE r = "ok"
    BY <1>a, <1>r, <2>2 DEF Return, Goto, queues, Moves, Returns
  <2>3. QED
    BY <2>1, <2>2
<1>1. CASE Take(t)
  BY <1>a, <1>1 DEF Take, At, Goto, Moves, Takes
<1>2. CASE Finish(t)
  BY <1>a, <1>2 DEF Finish, At, Goto, queues, Moves, Leaves
<1>3. CASE Existing(t)
  BY <1>3, <1>r DEF Existing, At, Busy
<1>4. CASE OpenFails(t)
  BY <1>4, <1>r DEF OpenFails, At, Busy
<1>5. CASE Unlink(t)
  BY <1>a, <1>5, <1>r DEF Unlink, At, Busy
<1>6. CASE TempFail(t)
  BY <1>a, <1>6 DEF TempFail, Die, Moves, Stops
<1>7. QED
  BY <1>1, <1>2, <1>3, <1>4, <1>5, <1>6, GoesOnMoves DEF Work, Moves

\* What a worker's step leaves alone of another process's worker.
LEMMA StepOf ==
    ASSUME TypeOK, NEW u \in Workers, Work(u), ~TempFail(u),
           NEW t \in Workers, u[1] # t[1]
    PROVE  Rests(t)
<1> USE DEF TypeOK, Rests
<1>1. t[1] \in Procs /\ u[1] \in Procs /\ u # t
  BY WorkerFacts
<1>2. \A r : Return(u, r) => UNCHANGED <<status[t[1]], pc[t]>>
  BY <1>1 DEF Return, Goto
<1>3. \A l : Goto(u, l) => UNCHANGED pc[t]
  BY <1>1 DEF Goto
<1>4. CASE Take(u)
  BY <1>1, <1>3, <1>4 DEF Take
<1>5. CASE Existing(u) \/ OpenFails(u) \/ Unlink(u)
  BY <1>2, <1>5 DEF Existing, OpenFails, Unlink, queues
<1>6. CASE Reap(u) \/ RenameFails(u)
  BY <1>1, <1>3, <1>6 DEF Reap, RenameFails, queues
<1>7. CASE \/ Finish(u) \/ Missing(u) \/ Scan(u) \/ SweepDone(u) \/ OpenLock(u)
           \/ TryLock(u) \/ Clone(u) \/ Rename(u) \/ CleanupStart(u) \/ CleanupEnd(u)
           \/ Unlock(u) \/ SweepEnd(u) \/ SweepFails(u) \/ (\E p \in Procs : SweepStart(u, p))
  BY <1>3, <1>7 DEF Finish, Missing, Scan, SweepStart, SweepEnd, SweepFails, SweepDone, OpenLock,
     TryLock, Clone, Rename, CleanupStart, CleanupEnd, Unlock, queues
<1>8. QED
  BY <1>4, <1>5, <1>6, <1>7 DEF Work

\* The end of a process, for one of its own workers and for another's.
LEMMA DieMoves ==
    ASSUME TypeOK, NEW t \in Workers, NEW p \in Procs, Die(p, "killed") \/ Die(p, "tempfail")
    PROVE  Rests(t) \/ Stops(t)
BY WorkerFacts DEF Rests, Stops, Die, queues, TypeOK

LEMMA NextMoves ==
    ASSUME DistinctTargets, TypeInv, Safe, [Next]_vars, NEW t \in Workers, ~Parallel[t[1]]
    PROVE  Moves(t)
<1>a. t[1] \in Procs /\ TypeOK
  BY WorkerFacts DEF TypeInv
<1>b. DOMAIN status = Procs /\ \A u \in Workers : u[1] \in Procs
  BY <1>a, WorkerFacts DEF TypeOK
<1>1. ASSUME NEW p \in Procs, Launch(p) PROVE Moves(t)
  <2>1. CASE t[1] = p
    BY <1>1, <1>b, <2>1 DEF Launch, queues, Safe, Unborn, Moves, Starts
  <2>2. CASE t[1] # p
    BY <1>1, <2>2 DEF Launch, queues, Moves, Rests
  <2>3. QED
    BY <2>1, <2>2
<1>2. ASSUME NEW p \in Procs, Kill(p) PROVE Moves(t)
  BY <1>2, <1>a, DieMoves DEF Kill, Moves
<1>3. ASSUME NEW p \in Procs, Exit(p) PROVE Moves(t)
  <2>1. CASE t[1] = p
    BY <1>3, <1>b, <2>1 DEF Exit, Die, queues, Moves, Exits
  <2>2. CASE t[1] # p
    BY <1>3, <1>b, <2>2 DEF Exit, Die, queues, Moves, Rests
  <2>3. QED
    BY <2>1, <2>2
<1>4. ASSUME NEW u \in Workers, Work(u) PROVE Moves(t)
  <2>1. CASE u = t
    BY <1>4, <2>1, WorkMoves
  <2>2. CASE u # t /\ ~TempFail(u)
    BY <1>4, <1>a, <2>2, Alone, StepOf DEF Moves
  <2>3. CASE TempFail(u)
    BY <1>a, <1>b, <2>3, DieMoves DEF TempFail, Moves
  <2>4. QED
    BY <2>1, <2>2, <2>3
<1>5. CASE \E u \in Workers : GitChild(u)
  BY <1>5 DEF GitChild, GitMkdir, GitSucceeds, GitFails, queues, Moves, Rests
<1>6. CASE UNCHANGED vars
  BY <1>6 DEF vars, queues, Moves, Rests
<1>7. QED
  BY <1>1, <1>2, <1>3, <1>4, <1>5, <1>6 DEF Next, Done

\* The targets taken are cloned, or one of them is in hand.
Behind(t) ==
    status[t[1]] \in {"unborn", "running", "ok"} =>
        \A i \in 1 .. next[t[1]] - 1 :
            dest[Targets[t[1]][i]] = "whole" \/ (Busy(t) /\ i = job[t])

\* It leaves when there are no more.
NoneLeft(t) ==
    \/ status[t[1]] \in {"unborn", "running"} /\ pc[t] = "gone"
    \/ status[t[1]] = "ok"
    => next[t[1]] > Len(Targets[t[1]])

\* The outcome it carries to the end of the clone is true.
TrueResult(t) ==
    Running(t[1]) =>
        /\ pc[t] \in {"unlock", "unlink"} /\ result[t] = "ok" => dest[Dest(t)] = "whole"
        /\ pc[t] \in {"cleanup", "cleaning"} => result[t] = "err"

Honest(t) == Behind(t) /\ NoneLeft(t) /\ TrueResult(t)

OkInv == \A t \in Workers : ~Parallel[t[1]] => Honest(t)

\* Steps keep NoneLeft, whatever becomes of the destinations.
LEMMA NoneLeftStays ==
    ASSUME TypeOK, NEW t \in Workers, NoneLeft(t), Moves(t)
    PROVE  NoneLeft(t)'
<1>1. t[1] \in Procs
  BY WorkerFacts
<1>2. CASE Rests(t) \/ Stops(t) \/ Starts(t) \/ Takes(t)
  BY <1>2 DEF NoneLeft, Rests, Stops, Starts, Takes, Running
<1>3. CASE GoesOn(t) \/ Returns(t)
  BY <1>3 DEF NoneLeft, GoesOn, Returns, Busy, Running
<1>4. CASE Leaves(t) \/ Exits(t)
  BY <1>4 DEF NoneLeft, Leaves, Exits, Running
<1>5. QED
  BY <1>2, <1>3, <1>4 DEF Moves

LEMMA HonestStays ==
    ASSUME DistinctTargets, Sound, [Next]_vars, NEW t \in Workers, Honest(t), Moves(t)
    PROVE  Honest(t)'
<1> USE DEF Running
<1>1. /\ TypeOK /\ t[1] \in Procs /\ next[t[1]] \in Nat /\ job[t] \in Nat
      /\ Busy(t) => job[t] # 0 /\ Dest(t) \in Dests
  BY WorkerFacts, DestType DEF Sound, TypeInv, TypeOK, JobTaken, Busy
<1>2. \A d \in Dests : dest[d] = "whole" => dest'[d] = "whole"
  BY WholeStays
<1>3. \A i \in 1 .. next[t[1]] - 1 : Targets[t[1]][i] \in Dests
  BY <1>1, TakenType
<1>4. NoneLeft(t)'
  BY <1>1, NoneLeftStays DEF Honest
<1>5. CASE Rests(t)
  <2>1. Behind(t)'
    BY <1>2, <1>3, <1>5 DEF Honest, Behind, Busy, Rests
  <2>2. TrueResult(t)'
    BY <1>1, <1>2, <1>5 DEF Honest, TrueResult, Rests, Dest, Busy
  <2>3. QED
    BY <1>4, <2>1, <2>2 DEF Honest
<1>6. CASE Stops(t)
  BY <1>4, <1>6 DEF Honest, Behind, TrueResult, Stops
<1>7. CASE Starts(t) \/ Leaves(t) \/ Exits(t)
  <2>1. Behind(t)'
    BY <1>2, <1>3, <1>7 DEF Honest, Behind, Busy, Starts, Leaves, Exits
  <2>2. TrueResult(t)'
    BY <1>7 DEF TrueResult, Starts, Leaves, Exits
  <2>3. QED
    BY <1>4, <2>1, <2>2 DEF Honest
<1>8. CASE Takes(t)
  <2>1. Behind(t)'
    BY <1>1, <1>2, <1>3, <1>8 DEF Honest, Behind, Busy, Takes
  <2>2. TrueResult(t)'
    BY <1>8 DEF TrueResult, Takes
  <2>3. QED
    BY <1>4, <2>1, <2>2 DEF Honest
<1>9. CASE GoesOn(t)
  <2>1. UNCHANGED Dest(t) /\ Dest(t) \in Dests
    BY <1>1, <1>9 DEF GoesOn, Dest
  <2>2. Behind(t)'
    BY <1>2, <1>3, <1>9 DEF Honest, Behind, GoesOn
  <2>3. TrueResult(t)'
    BY <1>2, <1>9, <2>1 DEF Honest, TrueResult, GoesOn, Busy
  <2>4. QED
    BY <1>4, <2>2, <2>3 DEF Honest
<1>10. CASE Returns(t)
  <2>1. dest[Dest(t)] = "whole"
    BY <1>1, <1>10 DEF Returns, LooksLikeRepo, Honest, TrueResult, Busy, Sound, DestNeverPartial
  <2>2. \A i \in 1 .. next[t[1]] - 1 : dest[Targets[t[1]][i]] = "whole"
    BY <1>10, <2>1 DEF Honest, Behind, Returns, Busy, Dest
  <2>3. Behind(t)'
    BY <1>2, <1>3, <1>10, <2>2 DEF Behind, Returns
  <2>4. TrueResult(t)'
    BY <1>10 DEF TrueResult, Returns
  <2>5. QED
    BY <1>4, <2>3, <2>4 DEF Honest
<1>11. QED
  BY <1>5, <1>6, <1>7, <1>8, <1>9, <1>10 DEF Moves

LEMMA NextOk == DistinctTargets /\ Sound /\ OkInv /\ [Next]_vars => OkInv'
BY NextMoves, HonestStays DEF OkInv, Sound

\* Exit 0 of a run without -P is true of every target.
THEOREM OkIsTrue == DistinctTargets => (Spec => []OkMeansCloned)
<1> SUFFICES ASSUME DistinctTargets PROVE Spec => []OkMeansCloned
  OBVIOUS
<1>1. Init => OkInv
  <2>1. \A t \in Workers : t[1] \in Procs
    BY WorkerFacts
  <2>2. QED
    BY <2>1 DEF Init, OkInv, Honest, Behind, NoneLeft, TrueResult, Running
<1>2. Sound /\ OkInv /\ [Next]_vars => OkInv'
  BY NextOk
<1>3. Sound /\ OkInv => OkMeansCloned
  <2> SUFFICES ASSUME Sound, OkInv, NEW p \in Procs, status[p] = "ok", ~Parallel[p],
                      NEW i \in 1 .. Len(Targets[p])
               PROVE  dest[Targets[p][i]] = "whole"
    BY DEF OkMeansCloned
  <2>1. <<p, 1>> \in Workers /\ <<p, 1>>[1] = p
    BY HasWorker
  <2>2. Honest(<<p, 1>>)
    BY <2>1 DEF OkInv
  <2>3. next[p] \in Nat /\ Len(Targets[p]) \in Nat /\ next[p] > Len(Targets[p])
    BY <2>1, <2>2, ConstantsAssumption DEF Honest, NoneLeft, Sound, TypeInv, TypeOK
  <2>4. i \in 1 .. next[p] - 1
    BY <2>3
  <2>5. QED
    BY <2>1, <2>2, <2>4 DEF Honest, Behind, Busy, Running
<1>4. QED
  BY SoundAlways, <1>1, <1>2, <1>3, PTL DEF Spec

-----------------------------------------------------------------------------
(* The directories that are left.  A temporary directory of a live process *)
(* has a worker that will rename or delete it, and a process that ended by *)
(* itself has no git at work.                                              *)

HasDir(t) == Running(t[1]) /\ pc[t] \in {"wait", "rename", "cleanup", "cleaning"}

Kept == {"unborn", "running", "ok", "failed"}

DirsInHand ==
    \A p \in Procs, d \in Dests :
        status[p] \in Kept /\ tmp[d][p] \notin {"absent", "junk"} =>
            \E t \in Workers : t[1] = p /\ HasDir(t) /\ Dest(t) = d

EndedQuiet ==
    \A t \in Workers : status[t[1]] \in {"ok", "failed"} => git[t] = "none"

LeftInv == DirsInHand /\ EndedQuiet

\* A step that makes no directory, and takes no worker from the one it has.
LEMMA HandsStay ==
    ASSUME Sound, LeftInv,
           \A p \in Procs, d \in Dests :
               status'[p] \in Kept /\ tmp'[d][p] \notin {"absent", "junk"} =>
                   status[p] \in Kept /\ tmp[d][p] \notin {"absent", "junk"},
           \A t \in Workers : HasDir(t) =>
               \/ HasDir(t)' /\ UNCHANGED job[t]
               \/ status'[t[1]] \notin Kept
               \/ tmp'[Dest(t)][t[1]] \in {"absent", "junk"}
    PROVE  DirsInHand'
<1> SUFFICES ASSUME NEW p \in Procs, NEW d \in Dests,
                    status'[p] \in Kept, tmp'[d][p] \notin {"absent", "junk"}
             PROVE  \E t \in Workers : t[1] = p /\ HasDir(t)' /\ Dest(t)' = d
  BY DEF DirsInHand
<1>1. PICK t \in Workers : t[1] = p /\ HasDir(t) /\ Dest(t) = d
  BY DEF LeftInv, DirsInHand
<1>2. HasDir(t)' /\ UNCHANGED job[t]
  BY <1>1
<1>3. QED
  BY <1>1, <1>2 DEF Dest

\* A step in which no process ends by itself, and git starts in a live one only.
LEMMA QuietStays ==
    ASSUME LeftInv,
           \A t \in Workers :
               /\ status'[t[1]] \in {"ok", "failed"} => status[t[1]] \in {"ok", "failed"}
               /\ git[t] = "none" /\ ~Running(t[1]) => git'[t] = "none"
    PROVE  EndedQuiet'
BY DEF LeftInv, EndedQuiet, Running

\* process_target returns: no directory is in the worker's hands.
LEMMA ReturnLeft ==
    ASSUME Sound, LeftInv, NEW t \in Workers, Running(t[1]), ~HasDir(t),
           NEW r, Return(t, r), UNCHANGED <<tmp, job, git>>
    PROVE  LeftInv'
<1>a. /\ t[1] \in Procs
      /\ status \in [Procs -> {"unborn", "running", "ok", "failed", "tempfail", "killed"}]
      /\ pc \in [Workers -> Labels]
  BY WorkerFacts DEF Sound, TypeInv, TypeOK, Labels
<1>b. git[t] = "none"
  BY DEF Sound, Safe, GitQuiet, HasDir
<1>1. CASE r = "err" /\ ~Parallel[t[1]]
  <2>1. /\ status' = [status EXCEPT ![t[1]] = "failed"]
        /\ pc' = [pc EXCEPT ![t] = "gone"]
    BY <1>1 DEF Return, Goto
  <2>2. \A u \in Workers : u[1] = t[1] => u = t
    BY <1>1, Alone
  <2>3. \A u \in Workers : HasDir(u) => HasDir(u)'
    BY <1>a, <2>1, <2>2 DEF HasDir, Running
  <2>4. \A p \in Procs : status'[p] \in Kept => status[p] \in Kept
    BY <1>a, <2>1 DEF Kept, Running
  <2>5. DirsInHand'
    BY <2>3, <2>4, HandsStay
  <2>6. EndedQuiet'
    BY <1>a, <1>b, <2>1, <2>2, WorkerFacts DEF LeftInv, EndedQuiet
  <2>7. QED
    BY <2>5, <2>6 DEF LeftInv
<1>2. CASE ~(r = "err" /\ ~Parallel[t[1]])
  <2>1. UNCHANGED status /\ pc' = [pc EXCEPT ![t] = "next"]
    BY <1>2 DEF Return, Goto
  <2>2. \A u \in Workers : HasDir(u) => HasDir(u)'
    BY <1>a, <2>1 DEF HasDir, Running
  <2>3. DirsInHand'
    BY <2>1, <2>2, HandsStay
  <2>4. EndedQuiet'
    BY <2>1, QuietStays
  <2>5. QED
    BY <2>3, <2>4 DEF LeftInv
<1>3. QED
  BY <1>1, <1>2

\* What Doomed changes was running.
LEMMA DoomedSome ==
    ASSUME NEW d, NEW p, NEW t \in Workers
    PROVE  Doomed(d, p)[t] = "none" <=> git[t] = "none"
BY DEF Doomed

LEMMA ProcessLeft ==
    ASSUME Sound, LeftInv, NEW p \in Procs,
           Launch(p) \/ Exit(p) \/ Die(p, "killed") \/ Die(p, "tempfail")
    PROVE  LeftInv'
<1>a. status \in [Procs -> {"unborn", "running", "ok", "failed", "tempfail", "killed"}]
  BY DEF Sound, TypeInv, TypeOK
<1>b. \A t \in Workers : t[1] \in Procs
  BY WorkerFacts
<1>c. UNCHANGED <<tmp, job, git>>
  BY DEF Launch, Exit, Die, files, queues
<1>1. CASE Launch(p)
  <2>1. /\ status[p] = "unborn" /\ status' = [status EXCEPT ![p] = "running"]
        /\ UNCHANGED pc
    BY <1>1 DEF Launch
  <2>2. DirsInHand'
    BY <1>a, <1>b, <1>c, <2>1, HandsStay DEF HasDir, Running, Kept
  <2>3. EndedQuiet'
    BY <1>a, <1>b, <1>c, <2>1, QuietStays
  <2>4. QED
    BY <2>2, <2>3 DEF LeftInv
<1>2. CASE Exit(p)
  <2>1. /\ status' = [status EXCEPT ![p] = "ok"] /\ Running(p)
        /\ \A t \in Workers : t[1] = p => pc[t] = "gone"
        /\ pc' = [t \in Workers |-> IF t[1] = p THEN "gone" ELSE pc[t]]
    BY <1>2 DEF Exit, Die
  <2>2. \A t \in Workers : HasDir(t) => t[1] # p /\ HasDir(t)'
    BY <1>a, <1>b, <2>1 DEF HasDir, Running
  <2>3. DirsInHand'
    BY <1>a, <1>c, <2>1, <2>2, HandsStay DEF Running, Kept
  <2>4. \A t \in Workers : t[1] = p => git[t] = "none"
    BY <2>1 DEF Sound, Safe, GitQuiet
  <2>5. EndedQuiet'
    BY <1>a, <1>b, <1>c, <2>1, <2>4 DEF LeftInv, EndedQuiet
  <2>6. QED
    BY <2>3, <2>5 DEF LeftInv
<1>3. CASE Die(p, "killed") \/ Die(p, "tempfail")
  <2>1. PICK how \in {"killed", "tempfail"} :
           /\ status' = [status EXCEPT ![p] = how]
           /\ pc' = [t \in Workers |-> IF t[1] = p THEN "gone" ELSE pc[t]]
    BY <1>3 DEF Die
  <2>2. status'[p] \notin Kept /\ \A q \in Procs : q # p => status'[q] = status[q]
    BY <1>a, <2>1 DEF Kept
  <2>3. \A t \in Workers : HasDir(t) => HasDir(t)' \/ status'[t[1]] \notin Kept
    BY <1>b, <2>1, <2>2 DEF HasDir, Running
  <2>4. DirsInHand'
    BY <1>c, <2>2, <2>3, HandsStay
  <2>5. EndedQuiet'
    BY <1>b, <1>c, <2>1, <2>2, QuietStays DEF Kept
  <2>6. QED
    BY <2>4, <2>5 DEF LeftInv
<1>4. QED
  BY <1>1, <1>2, <1>3

\* The steps of a worker that end no process.
LEMMA WorkerLeft ==
    ASSUME DistinctTargets, Sound, LeftInv, NEW t \in Workers, Work(t), ~TempFail(t)
    PROVE  LeftInv'
<1> USE DEF At, Goto, files, queues, deleting
<1>a. /\ t[1] \in Procs /\ pc \in [Workers -> Labels]
      /\ tmp \in [Dests -> [Procs -> TmpStates]]
      /\ job[t] # 0 => Dest(t) \in Dests
      /\ \A u \in Workers : u[1] \in Procs
  BY WorkerFacts, DestType DEF Sound, TypeInv, TypeOK, Labels
<1>b. pc[t] \notin {"next", "gone"} => job[t] # 0
  BY DEF Sound, TypeInv, JobTaken
<1>1. CASE Existing(t) \/ OpenFails(t) \/ Unlink(t)
  <2>1. Running(t[1]) /\ ~HasDir(t) /\ UNCHANGED <<tmp, job, git>> /\ \E r : Return(t, r)
    BY <1>1 DEF Existing, OpenFails, Unlink, HasDir
  <2>2. QED
    BY <2>1, ReturnLeft
<1>2. CASE Take(t)
  <2>1. ~HasDir(t) /\ UNCHANGED <<tmp, status, git>>
    BY <1>2 DEF Take, HasDir
  <2>2. \A u \in Workers : u # t => UNCHANGED <<pc[u], job[u]>>
    BY <1>2 DEF Take, Sound, TypeInv, TypeOK
  <2>3. DirsInHand' /\ EndedQuiet'
    BY <2>1, <2>2, HandsStay, QuietStays DEF HasDir, Running
  <2>4. QED
    BY <2>3 DEF LeftInv
<1>3. CASE \/ Finish(t) \/ Missing(t) \/ Scan(t) \/ SweepFails(t) \/ SweepDone(t) \/ OpenLock(t)
           \/ TryLock(t) \/ RenameFails(t) \/ Unlock(t) \/ Reap(t) \/ Clone(t)
  <2>1. UNCHANGED <<tmp, status, job>> /\ Running(t[1])
    BY <1>3 DEF Finish, Missing, Scan, SweepFails, SweepDone, OpenLock, TryLock, RenameFails, Unlock,
       Reap, Clone
  <2>2. \A u \in Workers : HasDir(u) => HasDir(u)'
    BY <1>a, <1>3, <2>1 DEF Finish, Missing, Scan, SweepFails, SweepDone, OpenLock, TryLock,
       RenameFails, Unlock, Reap, Clone, HasDir, Running
  <2>3. \A u \in Workers : u # t => git'[u] = git[u]
    BY <1>3 DEF Finish, Missing, Scan, SweepFails, SweepDone, OpenLock, TryLock, RenameFails, Unlock,
       Reap, Clone, Sound, TypeInv, TypeOK
  <2>4. DirsInHand' /\ EndedQuiet'
    BY <2>1, <2>2, <2>3, HandsStay, QuietStays
  <2>5. QED
    BY <2>4 DEF LeftInv
<1>4. ASSUME NEW q \in Procs, SweepStart(t, q) PROVE LeftInv'
  <2>1. /\ UNCHANGED <<status, job, pc>> /\ job[t] # 0 /\ ~Running(q)
        /\ \A u \in Workers : git'[u] = "none" <=> git[u] = "none"
    BY <1>4, <1>b, DoomedSome DEF SweepStart, StartDelete, Sound, Safe, StaleDead
  <2>2. status[q] \in Kept => tmp[Dest(t)][q] \in {"absent", "junk"}
    BY <1>a, <2>1 DEF LeftInv, DirsInHand, HasDir
  <2>3. \A p \in Procs, d \in Dests :
           tmp'[d][p] # tmp[d][p] =>
               /\ d = Dest(t) /\ p = q /\ tmp[d][p] # "absent"
               /\ tmp[d][p] = "junk" => tmp'[d][p] = "junk"
    <3>1. CASE tmp[Dest(t)][q] = "absent"
      BY <1>4, <3>1 DEF SweepStart
    <3>2. CASE tmp[Dest(t)][q] # "absent"
      <4>1. tmp' = [tmp EXCEPT ![Dest(t)][q] = IF @ = "junk" THEN "junk" ELSE "partial"]
        BY <1>4, <3>2 DEF SweepStart, StartDelete
      <4>2. QED
        BY <1>a, <2>1, <3>2, <4>1
    <3>3. QED
      BY <3>1, <3>2
  <2>4. \A p \in Procs, d \in Dests :
           status'[p] \in Kept /\ tmp'[d][p] \notin {"absent", "junk"} =>
               status[p] \in Kept /\ tmp[d][p] \notin {"absent", "junk"}
    BY <2>1, <2>2, <2>3
  <2>5. \A u \in Workers : HasDir(u) => HasDir(u)'
    BY <2>1 DEF HasDir, Running
  <2>6. DirsInHand' /\ EndedQuiet'
    BY <2>1, <2>4, <2>5, HandsStay, QuietStays
  <2>7. QED
    BY <2>6 DEF LeftInv
<1>5. CASE SweepEnd(t) \/ CleanupEnd(t)
  <2>1. victim[t] # "moved" /\ EndDelete(t) /\ Running(t[1]) /\ job[t] # 0
    BY <1>5, <1>b DEF SweepEnd, CleanupEnd, Sound, Safe, VictimOK
  <2>2. /\ tmp' = [tmp EXCEPT ![Dest(t)][victim[t]] = "absent"]
        /\ UNCHANGED <<status, job, git>>
    BY <1>5, <2>1 DEF SweepEnd, CleanupEnd, EndDelete
  <2>3. \A p \in Procs, d \in Dests : tmp'[d][p] # tmp[d][p] => tmp'[d][p] = "absent"
    BY <1>a, <2>2
  <2>4. \A u \in Workers : u # t => UNCHANGED pc[u]
    BY <1>a, <1>5 DEF SweepEnd, CleanupEnd
  <2>5. CleanupEnd(t) => tmp'[Dest(t)][t[1]] = "absent"
    BY <1>a, <2>1, <2>2 DEF CleanupEnd, Sound, Safe, VictimOK
  <2>6. SweepEnd(t) => ~HasDir(t)
    BY DEF SweepEnd, HasDir
  <2>7. DirsInHand' /\ EndedQuiet'
    BY <1>5, <2>2, <2>3, <2>4, <2>5, <2>6, HandsStay, QuietStays DEF HasDir, Running
  <2>8. QED
    BY <2>7 DEF LeftInv
<1>6. CASE Rename(t)
  <2>1. /\ job[t] # 0 /\ UNCHANGED <<status, job>>
        /\ tmp' = [tmp EXCEPT ![Dest(t)][t[1]] = "absent"]
        /\ \A u \in Workers : u # t => UNCHANGED pc[u]
        /\ \A u \in Workers : git'[u] = "none" <=> git[u] = "none"
    BY <1>6, <1>b, DoomedSome DEF Rename
  <2>2. \A p \in Procs, d \in Dests : tmp'[d][p] # tmp[d][p] => tmp'[d][p] = "absent"
    BY <1>a, <2>1
  <2>3. tmp'[Dest(t)][t[1]] = "absent"
    BY <1>a, <2>1
  <2>4. DirsInHand' /\ EndedQuiet'
    BY <2>1, <2>2, <2>3, HandsStay, QuietStays DEF HasDir, Running
  <2>5. QED
    BY <2>4 DEF LeftInv
<1>7. CASE CleanupStart(t)
  <2>1. /\ job[t] # 0 /\ UNCHANGED <<status, job>> /\ Running(t[1]) /\ pc[t] = "cleanup"
        /\ \A u \in Workers : git'[u] = "none" <=> git[u] = "none"
    BY <1>7, <1>b, DoomedSome DEF CleanupStart, StartDelete
  <2>2. EndedQuiet'
    BY <2>1, QuietStays
  <2>3. CASE tmp[Dest(t)][t[1]] = "absent"
    <3>1. UNCHANGED tmp /\ \A u \in Workers : u # t => UNCHANGED pc[u]
      BY <1>a, <1>7, <2>3 DEF CleanupStart
    <3>2. DirsInHand'
      BY <2>1, <2>3, <3>1, HandsStay DEF HasDir, Running
    <3>3. QED
      BY <2>2, <3>2 DEF LeftInv
  <2>4. CASE tmp[Dest(t)][t[1]] # "absent"
    <3>1. /\ pc' = [pc EXCEPT ![t] = "cleaning"]
          /\ tmp' = [tmp EXCEPT ![Dest(t)][t[1]] = IF @ = "junk" THEN "junk" ELSE "partial"]
      BY <1>7, <2>4 DEF CleanupStart, StartDelete
    <3>2. \A u \in Workers : HasDir(u) => HasDir(u)' /\ Dest(u)' = Dest(u)
      BY <1>a, <2>1, <3>1 DEF HasDir, Running, Dest
    <3>3. HasDir(t)' /\ Dest(t)' = Dest(t)
      BY <2>1, <3>2 DEF HasDir
    <3>4. \A p \in Procs, d \in Dests :
             tmp'[d][p] # tmp[d][p] => p = t[1] /\ d = Dest(t)
      BY <1>a, <3>1
    <3>5. DirsInHand'
      BY <2>1, <3>2, <3>3, <3>4 DEF LeftInv, DirsInHand
    <3>6. QED
      BY <2>2, <3>5 DEF LeftInv
  <2>5. QED
    BY <2>3, <2>4
<1>8. QED
  BY <1>1, <1>2, <1>3, <1>4, <1>5, <1>6, <1>7 DEF Work

LEMMA ChildLeft ==
    ASSUME Sound, LeftInv, NEW t \in Workers, GitChild(t)
    PROVE  LeftInv'
<1>a. /\ t[1] \in Procs /\ tmp \in [Dests -> [Procs -> TmpStates]]
      /\ job[t] # 0 /\ Dest(t) \in Dests
      /\ UNCHANGED <<status, pc, job>>
  BY WorkerFacts, DestType DEF Sound, TypeInv, TypeOK, JobTaken, GitChild, GitMkdir,
     GitSucceeds, GitFails, queues
<1>b. git[t] # "none" /\ \A u \in Workers : git[u] = "none" => git'[u] = "none"
  <2>1. git[t] # "none"
    BY DEF GitChild, GitMkdir, GitSucceeds, GitFails
  <2>2. \E r : git' \in {[git EXCEPT ![t] = r], [Doomed(Dest(t), t[1]) EXCEPT ![t] = r]}
    BY DEF GitChild, GitMkdir, GitSucceeds, GitFails
  <2>3. DOMAIN git = Workers /\ DOMAIN Doomed(Dest(t), t[1]) = Workers
    BY DEF Doomed, Sound, TypeInv, TypeOK
  <2>4. \A u \in Workers : u # t => git'[u] = git[u] \/ git'[u] = Doomed(Dest(t), t[1])[u]
    BY <2>2, <2>3
  <2>5. QED
    BY <2>1, <2>4, DoomedSome
<1>c. \A u \in Workers : HasDir(u) => HasDir(u)' /\ Dest(u)' = Dest(u)
  BY <1>a DEF HasDir, Running, Dest
<1>1. status[t[1]] \in Kept => HasDir(t)
  BY <1>b DEF LeftInv, EndedQuiet, Kept, Sound, Safe, GitQuiet, Unborn, HasDir, Running
<1>2. \A p \in Procs, d \in Dests :
         tmp'[d][p] # tmp[d][p] => (p = t[1] /\ d = Dest(t)) \/ tmp'[d][p] = "absent"
  BY <1>a DEF GitChild, GitMkdir, GitSucceeds, GitFails
<1>3. DirsInHand'
  BY <1>a, <1>c, <1>1, <1>2 DEF LeftInv, DirsInHand
<1>4. EndedQuiet'
  BY <1>a, <1>b, QuietStays
<1>5. QED
  BY <1>3, <1>4 DEF LeftInv

\* A process that ran to its end, with 0 or with an error, left no directory of its own.
THEOREM NoneLeftBehind == DistinctTargets => (Spec => []NothingLeftBehind)
<1> SUFFICES ASSUME DistinctTargets PROVE Spec => []NothingLeftBehind
  OBVIOUS
<1>1. Init => LeftInv
  <2>1. \A t \in Workers : t[1] \in Procs
    BY WorkerFacts
  <2>2. QED
    BY <2>1 DEF Init, LeftInv, DirsInHand, EndedQuiet
<1>2. Sound /\ LeftInv /\ [Next]_vars => LeftInv'
  <2> SUFFICES ASSUME Sound, LeftInv, [Next]_vars PROVE LeftInv'
    OBVIOUS
  <2>1. CASE UNCHANGED vars
    BY <2>1 DEF vars, files, queues, LeftInv, DirsInHand, EndedQuiet, HasDir, Running, Dest
  <2>2. ASSUME NEW t \in Workers, TempFail(t) PROVE LeftInv'
    BY <2>2, ProcessLeft, WorkerFacts DEF TempFail
  <2>3. QED
    BY <2>1, <2>2, ProcessLeft, WorkerLeft, ChildLeft DEF Next, Kill, Done
<1>3. Sound /\ LeftInv => NothingLeftBehind
  BY DEF LeftInv, DirsInHand, NothingLeftBehind, HasDir, Kept, Running
<1>4. QED
  BY SoundAlways, <1>1, <1>2, <1>3, PTL DEF Spec

-----------------------------------------------------------------------------
(* The sweep.  What an older run left beside its destination is on a       *)
(* worker's list, or being deleted by it, until it opens the lock; or the  *)
(* worker knows nothing of it or has given it up.                          *)

Late(t) == HoldsLock(t) \/ pc[t] \in {"open", "lock"}

\* t need not fear a leftover of p, unless it missed it or could not delete it.
SweptOf(t, p) ==
    /\ Running(t[1]) /\ status[p] = "unborn" /\ tmp[Dest(t)][p] = "junk"
    /\ p \notin spared[t]
    =>
        /\ pc[t] = "sweep" => p \in stale[t] \/ victim[t] = p
        /\ ~Late(t)

SweptInv == \A t \in Workers, p \in Procs : SweptOf(t, p)

\* Nobody makes a leftover, and an unborn process was never born.
LEMMA JunkIsOld ==
    ASSUME DistinctTargets, Sound, [Next]_vars, NEW d \in Dests, NEW p \in Procs
    PROVE  /\ tmp'[d][p] = "junk" => tmp[d][p] = "junk"
           /\ status'[p] = "unborn" => status[p] = "unborn"
<1>a. /\ tmp \in [Dests -> [Procs -> TmpStates]]
      /\ status \in [Procs -> {"unborn", "running", "ok", "failed", "tempfail", "killed"}]
      /\ \A t \in Workers : t[1] \in Procs
  BY WorkerFacts DEF Sound, TypeInv, TypeOK
<1>b. \A t : \A r : Return(t, r) => status'[p] = status[p] \/ status'[p] = "failed"
  BY <1>a DEF Return
<1>c. \A how : \A q \in Procs : Die(q, how) => (status'[p] \in {status[p], how}) /\ UNCHANGED tmp
  BY <1>a DEF Die, files
<1>1. CASE \E q \in Procs : Launch(q) \/ Kill(q) \/ Exit(q)
  BY <1>a, <1>1, <1>c DEF Launch, Kill, Exit, files
<1>2. ASSUME NEW t \in Workers, Work(t)
      PROVE  /\ tmp'[d][p] = "junk" => tmp[d][p] = "junk"
             /\ status'[p] = "unborn" => status[p] = "unborn"
  <2>1. CASE TempFail(t)
    BY <1>a, <1>c, <2>1 DEF TempFail
  <2>2. CASE Existing(t) \/ OpenFails(t) \/ Unlink(t)
    BY <1>b, <2>2 DEF Existing, OpenFails, Unlink, files
  <2>3. CASE \/ Take(t) \/ Finish(t) \/ Missing(t) \/ Scan(t) \/ SweepFails(t)
             \/ SweepDone(t) \/ OpenLock(t)
             \/ TryLock(t) \/ Clone(t) \/ Reap(t) \/ RenameFails(t) \/ Unlock(t)
    BY <2>3 DEF Take, Finish, Missing, Scan, SweepFails, SweepDone, OpenLock, TryLock, Clone, Reap,
       RenameFails, Unlock, files
  <2>4. \A q \in Procs : StartDelete(t, q) => (tmp'[d][p] = "junk" => tmp[d][p] = "junk")
    BY <1>a DEF StartDelete
  <2>5. EndDelete(t) => (tmp'[d][p] = "junk" => tmp[d][p] = "junk")
    BY <1>a DEF EndDelete
  <2>6. CASE (\E q \in Procs : SweepStart(t, q)) \/ CleanupStart(t)
    BY <1>a, <2>4, <2>6 DEF SweepStart, CleanupStart
  <2>7. CASE SweepEnd(t) \/ CleanupEnd(t)
    BY <2>5, <2>7 DEF SweepEnd, CleanupEnd
  <2>8. CASE Rename(t)
    BY <1>a, <2>8 DEF Rename
  <2>9. QED
    BY <1>2, <2>1, <2>2, <2>3, <2>6, <2>7, <2>8 DEF Work
<1>3. CASE \E t \in Workers : GitChild(t)
  BY <1>a, <1>3 DEF GitChild, GitMkdir, GitSucceeds, GitFails
<1>4. CASE UNCHANGED vars
  BY <1>4 DEF vars, files
<1>5. QED
  BY <1>1, <1>2, <1>3, <1>4 DEF Next, Done

\* A step that is not the worker's own, or that takes it nowhere late.
LEMMA SweptStays ==
    ASSUME DistinctTargets, Sound, [Next]_vars, NEW t \in Workers, NEW p \in Procs,
           SweptOf(t, p),
           \/ ~Running(t[1])' \/ pc'[t] \in {"next", "check", "scan", "unlink", "gone"}
           \/ /\ UNCHANGED <<pc[t], job[t]>> /\ Running(t[1])
              /\ p \in stale[t] => p \in stale'[t]
              /\ victim[t] = p => victim'[t] = p
              /\ p \in spared[t] => p \in spared'[t]
           \/ Late(t) /\ Running(t[1]) /\ UNCHANGED <<job[t], spared[t]>>
    PROVE  SweptOf(t, p)'
<1>1. CASE ~Running(t[1])' \/ pc'[t] \in {"next", "check", "scan", "unlink", "gone"}
  BY <1>1 DEF SweptOf, Late, HoldsLock
<1>2. CASE pc'[t] \notin {"next", "check", "scan", "unlink", "gone"} /\ UNCHANGED job[t]
           /\ Running(t[1]) /\ Running(t[1])'
  <2> SUFFICES ASSUME status'[p] = "unborn", tmp'[Dest(t)'][p] = "junk", p \notin spared'[t]
               PROVE  (pc'[t] = "sweep" => p \in stale'[t] \/ victim'[t] = p) /\ ~Late(t)'
    BY DEF SweptOf
  <2>1. UNCHANGED Dest(t) /\ job[t] # 0
    BY <1>2, NextTypeInv DEF Dest, Sound, TypeInv, JobTaken, TypeOK
  <2>2. Dest(t) \in Dests
    BY <2>1, DestType DEF Sound, TypeInv
  <2>3. status[p] = "unborn" /\ tmp[Dest(t)][p] = "junk"
    BY <2>1, <2>2, JunkIsOld
  <2>4. (pc[t] = "sweep" => p \in stale[t] \/ victim[t] = p) /\ ~Late(t)
    <3>1. p \notin spared[t]
      BY <1>2
    <3>2. QED
      BY <1>2, <2>3, <3>1 DEF SweptOf
  <2>5. /\ UNCHANGED pc[t]
        /\ p \in stale[t] => p \in stale'[t]
        /\ victim[t] = p => victim'[t] = p
    BY <1>2, <2>4
  <2>6. UNCHANGED Late(t)
    BY <2>5 DEF Late, HoldsLock
  <2>7. QED
    BY <2>4, <2>5, <2>6
<1>3. QED
  BY <1>1, <1>2

\* What a worker's step leaves alone of any other worker.
LEMMA OtherStep ==
    ASSUME DistinctTargets, TypeInv, Safe, NEW u \in Workers, Work(u), ~TempFail(u),
           NEW t \in Workers, u # t
    PROVE  UNCHANGED <<pc[t], job[t], stale[t], victim[t], spared[t]>>
<1> USE DEF TypeInv, TypeOK
<1>1. \A r : Return(u, r) => UNCHANGED pc[t]
  BY DEF Return, Goto
<1>2. \A l : Goto(u, l) => UNCHANGED pc[t]
  BY DEF Goto
<1>3. CASE Take(u)
  BY <1>2, <1>3 DEF Take, deleting
<1>4. CASE Existing(u) \/ OpenFails(u) \/ Unlink(u)
  BY <1>1, <1>4 DEF Existing, OpenFails, Unlink, queues, deleting
<1>5. CASE \/ Finish(u) \/ Missing(u) \/ SweepDone(u) \/ OpenLock(u) \/ TryLock(u)
           \/ Clone(u) \/ Reap(u) \/ RenameFails(u) \/ Unlock(u)
  BY <1>2, <1>5 DEF Finish, Missing, SweepDone, OpenLock, TryLock, Clone, Reap, RenameFails,
     Unlock, queues, deleting
<1>6. CASE Scan(u)
  BY <1>2, <1>6 DEF Scan, queues
<1>7. CASE (\E q \in Procs : SweepStart(u, q)) \/ CleanupStart(u)
  BY <1>2, <1>7 DEF SweepStart, CleanupStart, StartDelete, queues
<1>8. CASE SweepEnd(u) \/ SweepFails(u) \/ CleanupEnd(u)
  BY <1>2, <1>8 DEF SweepEnd, SweepFails, CleanupEnd, EndDelete, queues
<1>9. CASE Rename(u)
  BY <1>2, <1>9, RenameWhole DEF Rename, queues
<1>10. QED
  BY <1>3, <1>4, <1>5, <1>6, <1>7, <1>8, <1>9 DEF Work

LEMMA OwnSwept ==
    ASSUME DistinctTargets, Sound, SweptInv, NEW t \in Workers, Work(t), [Next]_vars,
           NEW p \in Procs
    PROVE  SweptOf(t, p)'
<1> USE DEF At, Goto, queues, deleting
<1>a. /\ SweptOf(t, p) /\ t[1] \in Procs
      /\ pc \in [Workers -> Labels] /\ tmp \in [Dests -> [Procs -> TmpStates]]
      /\ stale \in [Workers -> SUBSET Procs] /\ spared \in [Workers -> SUBSET Procs]
      /\ victim \in [Workers -> Procs \cup {"none", "moved"}]
      /\ status \in [Procs -> {"unborn", "running", "ok", "failed", "tempfail", "killed"}]
      /\ job[t] # 0 => Dest(t) \in Dests
  BY WorkerFacts, DestType DEF SweptInv, Sound, TypeInv, TypeOK, Labels
<1>b. pc[t] \notin {"next", "gone"} => job[t] # 0
  BY DEF Sound, TypeInv, JobTaken
<1>1. CASE \/ Take(t) \/ Finish(t) \/ Existing(t) \/ OpenFails(t) \/ Unlink(t)
           \/ Missing(t) \/ Unlock(t)
  <2>1. \A r : Return(t, r) => pc'[t] \in {"next", "gone"}
    BY <1>a DEF Return
  <2>2. pc'[t] \in {"next", "check", "scan", "unlink", "gone"}
    BY <1>1, <1>a, <2>1 DEF Take, Finish, Existing, OpenFails, Unlink, Missing, Unlock
  <2>3. QED
    BY <1>a, <2>2, SweptStays
<1>2. CASE TempFail(t)
  BY <1>2, <1>a, SweptStays DEF TempFail, Die, Running
<1>3. CASE \/ OpenLock(t) \/ TryLock(t) \/ Clone(t) \/ Reap(t) \/ RenameFails(t)
           \/ Rename(t) \/ CleanupStart(t) \/ CleanupEnd(t)
  <2>1. Late(t) /\ Running(t[1]) /\ UNCHANGED <<job[t], spared[t]>>
    BY <1>3 DEF OpenLock, TryLock, Clone, Reap, RenameFails, Rename, CleanupStart,
       CleanupEnd, Late, HoldsLock
  <2>2. QED
    BY <1>a, <2>1, SweptStays
<1>4. CASE Scan(t)
  <2>1. /\ pc'[t] = "sweep" /\ UNCHANGED <<tmp, job, status>>
        /\ \A q \in Procs : tmp[Dest(t)][q] # "absent" /\ ~Running(q) =>
              q \in stale'[t] \/ q \in spared'[t]
    BY <1>4, <1>a DEF Scan, Abandoned, files
  <2>2. QED
    BY <2>1 DEF SweptOf, Late, HoldsLock, Running, Dest
<1>5. ASSUME NEW q \in Procs, SweepStart(t, q) PROVE SweptOf(t, p)'
  <2>1. /\ pc'[t] = "sweep" /\ pc[t] = "sweep" /\ victim[t] = "none" /\ UNCHANGED <<job, status>>
        /\ stale'[t] = stale[t] \ {q} /\ Running(t[1]) /\ UNCHANGED spared
    BY <1>5, <1>a DEF SweepStart
  <2>2. CASE p # q
    <3>1. p \in stale[t] => p \in stale'[t]
      BY <2>1, <2>2
    <3>2. victim[t] # p
      BY <2>1, ConstantsAssumption
    <3>3. QED
      BY <1>a, <2>1, <3>1, <3>2, SweptStays
  <2>3. CASE p = q /\ tmp[Dest(t)][q] = "absent"
    <3>1. UNCHANGED tmp /\ UNCHANGED Dest(t)
      BY <1>5, <2>1, <2>3 DEF SweepStart, Dest
    <3>2. QED
      BY <2>3, <3>1 DEF SweptOf
  <2>4. CASE p = q /\ tmp[Dest(t)][q] # "absent"
    <3>1. victim'[t] = p
      BY <1>5, <1>a, <2>4 DEF SweepStart, StartDelete
    <3>2. QED
      BY <2>1, <3>1 DEF SweptOf, Late, HoldsLock
  <2>5. QED
    BY <2>2, <2>3, <2>4
<1>6. CASE SweepEnd(t)
  <2>1. /\ pc'[t] = "sweep" /\ pc[t] = "sweep" /\ UNCHANGED <<job, status, stale, spared>>
        /\ Running(t[1]) /\ victim[t] \in Procs
    BY <1>6, <1>a DEF SweepEnd, Sound, Safe, VictimOK
  <2>2. tmp' = [tmp EXCEPT ![Dest(t)][victim[t]] = "absent"]
    BY <1>6, <2>1, ConstantsAssumption DEF SweepEnd, EndDelete
  <2>3. UNCHANGED Dest(t) /\ Dest(t) \in Dests
    BY <1>a, <1>b, <2>1 DEF Dest
  <2>4. CASE victim[t] = p
    BY <1>a, <2>2, <2>3, <2>4 DEF SweptOf
  <2>5. CASE victim[t] # p
    BY <1>a, <2>1, <2>5, SweptStays
  <2>6. QED
    BY <2>4, <2>5
<1>7. CASE SweepDone(t)
  <2>1. /\ pc[t] = "sweep" /\ victim[t] = "none" /\ stale[t] = {} /\ Running(t[1])
        /\ UNCHANGED <<tmp, job, status, spared>>
    BY <1>7 DEF SweepDone, files
  <2>2. UNCHANGED Dest(t) /\ victim[t] # p
    BY <2>1, ConstantsAssumption DEF Dest
  <2>3. QED
    BY <1>a, <2>1, <2>2 DEF SweptOf
<1>8. CASE SweepFails(t)
  <2>1. PICK q \in Procs :
          /\ UNCHANGED <<pc, job, status>> /\ Running(t[1])
          /\ spared'[t] = spared[t] \cup {q}
          /\ p # q => (p \in stale[t] => p \in stale'[t]) /\ (victim[t] = p => victim'[t] = p)
    BY <1>8, <1>a DEF SweepFails
  <2>2. CASE p = q
    BY <2>1, <2>2 DEF SweptOf
  <2>3. CASE p # q
    BY <1>a, <2>1, <2>3, SweptStays
  <2>4. QED
    BY <2>2, <2>3
<1>9. QED
  BY <1>1, <1>2, <1>3, <1>4, <1>5, <1>6, <1>7, <1>8 DEF Work

LEMMA NextSwept == DistinctTargets /\ Sound /\ SweptInv /\ [Next]_vars => SweptInv'
<1> SUFFICES ASSUME DistinctTargets, Sound, SweptInv, [Next]_vars,
                    NEW t \in Workers, NEW p \in Procs
             PROVE  SweptOf(t, p)'
  BY DEF SweptInv
<1>a. SweptOf(t, p) /\ t[1] \in Procs
  BY WorkerFacts DEF SweptInv
<1>b. status \in [Procs -> {"unborn", "running", "ok", "failed", "tempfail", "killed"}]
  BY DEF Sound, TypeInv, TypeOK
<1>c. \A q, how : Die(q, how) => \/ t[1] = q /\ pc'[t] = "gone"
                                 \/ UNCHANGED <<pc[t], job[t], stale[t], victim[t], spared[t]>>
  BY DEF Die, queues
<1>d. ~Running(t[1]) => ~Running(t[1])' \/ pc'[t] = "next"
  <2> SUFFICES ASSUME ~Running(t[1]), Running(t[1])' PROVE pc'[t] = "next"
    OBVIOUS
  <2>1. PICK q \in Procs : Launch(q)
    <3>1. \A u, r : Return(u, r) => UNCHANGED status \/ status' = [status EXCEPT ![u[1]] = "failed"]
      BY DEF Return
    <3>2. \A q, how : Die(q, how) => status' = [status EXCEPT ![q] = how]
      BY DEF Die
    <3>3. \A q, how : status' = [status EXCEPT ![q] = how] => how = "running" \/ UNCHANGED status[t[1]]
      BY <1>a, <1>b DEF Running
    <3>4. \A q \in Procs : ~Kill(q) /\ ~Exit(q)
      BY <3>2, <3>3 DEF Kill, Exit, Running
    <3>5. \A u \in Workers : ~Work(u)
      <4> SUFFICES ASSUME NEW u \in Workers, Work(u) PROVE FALSE
        OBVIOUS
      <4>1. ~\E r : Return(u, r)
        BY <3>1, <3>3 DEF Running
      <4>2. ~TempFail(u)
        BY <3>2, <3>3 DEF TempFail, Running
      <4>3. status' # status
        BY DEF Running
      <4>4. QED
        BY <4>1, <4>2, <4>3 DEF Work, Take, Finish, Existing, Missing, Scan, SweepStart,
           SweepEnd, SweepFails, SweepDone, OpenLock, OpenFails, TryLock, Clone, Reap, Rename,
           RenameFails, CleanupStart, CleanupEnd, Unlock, Unlink
    <3>6. \A u \in Workers : ~GitChild(u)
      BY DEF Running, GitChild, GitMkdir, GitSucceeds, GitFails
    <3>7. QED
      BY <3>4, <3>5, <3>6 DEF Next, Done, vars, Running
  <2>2. status[q] = "unborn" /\ status' = [status EXCEPT ![q] = "running"] /\ UNCHANGED pc
    BY <2>1 DEF Launch
  <2>3. q = t[1]
    BY <1>a, <1>b, <2>2 DEF Running
  <2>4. QED
    BY <2>2, <2>3 DEF Sound, Safe, Unborn
<1>1. CASE ~Running(t[1])
  BY <1>a, <1>1, <1>d, SweptStays
<1>2. CASE Running(t[1]) /\ Work(t)
  BY <1>2, OwnSwept
<1>3. CASE Running(t[1]) /\ ~Work(t)
  <2>1. \/ UNCHANGED <<pc[t], job[t], stale[t], victim[t], spared[t]>>
        \/ pc'[t] = "gone"
    <3>1. CASE \E q \in Procs : Launch(q) \/ Kill(q) \/ Exit(q)
      BY <1>c, <3>1 DEF Launch, Kill, Exit, queues, deleting
    <3>2. CASE \E u \in Workers : GitChild(u)
      BY <3>2 DEF GitChild, GitMkdir, GitSucceeds, GitFails, queues, deleting
    <3>3. CASE \E u \in Workers : Work(u)
      <4>1. PICK u \in Workers : Work(u) /\ u # t
        BY <1>3, <3>3
      <4>2. CASE TempFail(u)
        BY <1>c, <4>2 DEF TempFail
      <4>3. CASE ~TempFail(u)
        BY <4>1, <4>3, OtherStep DEF Sound
      <4>4. QED
        BY <4>2, <4>3
    <3>4. CASE UNCHANGED vars
      BY <3>4 DEF vars, queues, deleting
    <3>5. QED
      BY <3>1, <3>2, <3>3, <3>4 DEF Next, Done
  <2>2. QED
    BY <1>a, <1>3, <2>1, SweptStays
<1>4. QED
  BY <1>1, <1>2, <1>3

\* Whoever opens the lock has deleted what crashed runs left beside the destination, but for
\* the leftovers that its listing missed and the very ones it failed to delete.
THEOREM AllSwept == DistinctTargets => (Spec => []LeftoversSwept)
<1> SUFFICES ASSUME DistinctTargets PROVE Spec => []LeftoversSwept
  OBVIOUS
<1>1. Init => SweptInv
  <2>1. \A t \in Workers : t[1] \in Procs
    BY WorkerFacts
  <2>2. QED
    BY <2>1 DEF Init, SweptInv, SweptOf, Running
<1>2. Sound /\ SweptInv /\ [Next]_vars => SweptInv'
  BY NextSwept
<1>3. SweptInv => LeftoversSwept
  BY DEF SweptInv, SweptOf, Late, LeftoversSwept
<1>4. QED
  BY SoundAlways, <1>1, <1>2, <1>3, PTL DEF Spec

-----------------------------------------------------------------------------
(* Exit 75.  An inode belongs to one destination for as long as anything   *)
(* names it or has it open, and who has it open is alive.                  *)

WithoutFile == {"next", "check", "scan", "sweep", "open", "gone"}

FdHeld == \A t \in Workers : pc[t] \in WithoutFile <=> fd[t] = NoInode

WorkersLive == \A t \in Workers : pc[t] \notin {"next", "gone"} => Running(t[1])

\* What the name of a destination's lock file means to the others.
PathsApart ==
    \A d \in Dests : lockPath[d] # NoInode =>
        /\ \A e \in Dests : lockPath[e] = lockPath[d] => e = d
        /\ \A t \in Workers : fd[t] = lockPath[d] => Dest(t) = d

FilesApart ==
    \A t, u \in Workers : fd[t] = fd[u] /\ fd[t] # NoInode => Dest(t) = Dest(u)

LockInv == FdHeld /\ WorkersLive /\ PathsApart /\ FilesApart

LEMMA InitLockInv == Init => LockInv
<1>1. \A t \in Workers : t[1] \in Procs
  BY WorkerFacts
<1>2. QED
  BY <1>1 DEF Init, LockInv, FdHeld, WorkersLive, PathsApart, FilesApart, WithoutFile

\* A step that opens and names no file, and takes up no target with one open.
LEMMA LocksStay ==
    ASSUME LockInv,
           \A d \in Dests : lockPath'[d] \in {lockPath[d], NoInode},
           \A t \in Workers : fd'[t] \in {fd[t], NoInode},
           \A t \in Workers : fd'[t] # NoInode => UNCHANGED job[t]
    PROVE  PathsApart' /\ FilesApart'
<1>1. \A t \in Workers : fd'[t] # NoInode => fd'[t] = fd[t] /\ UNCHANGED Dest(t)
  BY DEF Dest
<1>2. PathsApart'
  BY <1>1 DEF LockInv, PathsApart
<1>3. FilesApart'
  BY <1>1 DEF LockInv, FilesApart
<1>4. QED
  BY <1>2, <1>3

LEMMA DieLock ==
    ASSUME Sound, LockInv, NEW p \in Procs, NEW how, Die(p, how)
    PROVE  LockInv'
<1>1. /\ status' = [status EXCEPT ![p] = how] /\ UNCHANGED <<lockPath, job>>
      /\ pc' = [t \in Workers |-> IF t[1] = p THEN "gone" ELSE pc[t]]
      /\ fd' = [t \in Workers |-> IF t[1] = p THEN NoInode ELSE fd[t]]
  BY DEF Die, files, queues
<1>2. FdHeld'
  BY <1>1 DEF LockInv, FdHeld, WithoutFile
<1>3. WorkersLive'
  BY <1>1, WorkerFacts DEF LockInv, WorkersLive, Running, Sound, TypeInv, TypeOK
<1>4. PathsApart' /\ FilesApart'
  BY <1>1, LocksStay
<1>5. QED
  BY <1>2, <1>3, <1>4 DEF LockInv

\* A worker with no file open, or that closes it now, returns.
LEMMA ReturnLock ==
    ASSUME Sound, LockInv, NEW t \in Workers, Running(t[1]), NEW r, Return(t, r),
           UNCHANGED job, \A d \in Dests : lockPath'[d] \in {lockPath[d], NoInode},
           fd' = [fd EXCEPT ![t] = NoInode]
    PROVE  LockInv'
<1>a. /\ t[1] \in Procs /\ pc \in [Workers -> Labels]
      /\ fd \in [Workers -> Inodes \cup {NoInode}]
      /\ status \in [Procs -> {"unborn", "running", "ok", "failed", "tempfail", "killed"}]
  BY WorkerFacts DEF Sound, TypeInv, TypeOK, Labels
<1>1. \A u \in Workers : u # t => UNCHANGED <<pc[u], fd[u]>>
  BY <1>a DEF Return, Goto
<1>2. pc'[t] \in {"next", "gone"} /\ fd'[t] = NoInode
  BY <1>a DEF Return, Goto
<1>3. FdHeld'
  BY <1>1, <1>2 DEF LockInv, FdHeld, WithoutFile
<1>4. WorkersLive'
  <2>1. CASE r = "err" /\ ~Parallel[t[1]]
    <3>1. \A u \in Workers : u # t => u[1] # t[1]
      BY <2>1, Alone
    <3>2. \A u \in Workers : u # t => UNCHANGED status[u[1]]
      BY <1>a, <2>1, <3>1, WorkerFacts DEF Return
    <3>3. QED
      BY <1>1, <1>2, <3>2 DEF LockInv, WorkersLive, Running
  <2>2. CASE ~(r = "err" /\ ~Parallel[t[1]])
    BY <1>1, <1>2, <2>2 DEF LockInv, WorkersLive, Running, Return
  <2>3. QED
    BY <2>1, <2>2
<1>5. PathsApart' /\ FilesApart'
  BY <1>a, LocksStay
<1>6. QED
  BY <1>3, <1>4, <1>5 DEF LockInv

LEMMA OpenLockInv ==
    ASSUME Sound, LockInv, NEW t \in Workers, OpenLock(t)
    PROVE  LockInv'
<1> DEFINE d == Dest(t)
<1>a. /\ t[1] \in Procs /\ pc \in [Workers -> Labels]
      /\ fd \in [Workers -> Inodes \cup {NoInode}]
      /\ lockPath \in [Dests -> Inodes \cup {NoInode}]
      /\ NoInode \notin Inodes
  BY WorkerFacts, ConstantsAssumption DEF Sound, TypeInv, TypeOK, Labels
<1>b. /\ Running(t[1]) /\ job[t] # 0 /\ d \in Dests /\ UNCHANGED <<status, job>>
      /\ pc' = [pc EXCEPT ![t] = "lock"]
  BY DestType DEF OpenLock, At, Goto, queues, Sound, TypeInv, JobTaken
<1>c. \A u : UNCHANGED Dest(u)
  BY <1>b DEF Dest
<1>1. PICK i \in Inodes :
        /\ fd' = [fd EXCEPT ![t] = i]
        /\ lockPath' = [lockPath EXCEPT ![d] = i]
        /\ lockPath[d] = i \/ Fresh(i)
  <2>1. CASE lockPath[d] = NoInode
    BY <2>1 DEF OpenLock
  <2>2. CASE lockPath[d] # NoInode
    <3>1. lockPath[d] \in Inodes /\ lockPath' = [lockPath EXCEPT ![d] = lockPath[d]]
      BY <1>a, <1>b, <2>2 DEF OpenLock
    <3>2. fd' = [fd EXCEPT ![t] = lockPath[d]]
      BY <2>2 DEF OpenLock
    <3>3. QED
      BY <3>1, <3>2
  <2>3. QED
    BY <2>1, <2>2
<1>2. FdHeld'
  BY <1>a, <1>b, <1>1 DEF LockInv, FdHeld, WithoutFile
<1>3. WorkersLive'
  BY <1>a, <1>b DEF LockInv, WorkersLive, Running
<1>4. /\ \A e \in Dests : e # d => lockPath'[e] = lockPath[e] /\ lockPath[e] # i
      /\ lockPath'[d] = i
  BY <1>a, <1>b, <1>1 DEF Fresh, LockInv, PathsApart
<1>5. /\ \A u \in Workers : u # t => fd'[u] = fd[u] /\ (fd[u] = i => Dest(u) = d)
      /\ fd'[t] = i
  BY <1>a, <1>b, <1>1 DEF Fresh, LockInv, PathsApart
<1>6. PathsApart'
  <2> SUFFICES ASSUME NEW e \in Dests, lockPath'[e] # NoInode
               PROVE  /\ \A g \in Dests : lockPath'[g] = lockPath'[e] => g = e
                      /\ \A u \in Workers : fd'[u] = lockPath'[e] => Dest(u) = e
    BY <1>c DEF PathsApart
  <2>1. CASE e = d
    BY <1>4, <1>5, <2>1
  <2>2. CASE e # d
    BY <1>4, <1>5, <2>2 DEF LockInv, PathsApart
  <2>3. QED
    BY <2>1, <2>2
<1>7. FilesApart'
  <2> SUFFICES ASSUME NEW u \in Workers, NEW v \in Workers,
                      fd'[u] = fd'[v], fd'[u] # NoInode
               PROVE  Dest(u) = Dest(v)
    BY <1>c DEF FilesApart
  <2>1. CASE u = t \/ v = t
    BY <1>5, <2>1
  <2>2. CASE u # t /\ v # t
    BY <1>5, <2>2 DEF LockInv, FilesApart
  <2>3. QED
    BY <2>1, <2>2
<1>8. QED
  BY <1>2, <1>3, <1>6, <1>7 DEF LockInv

\* The steps of a worker that leave every lock file and every process alone.
LEMMA OtherwiseLock ==
    ASSUME Sound, LockInv, NEW t \in Workers,
           \/ Take(t) \/ Finish(t) \/ Missing(t) \/ Scan(t) \/ SweepFails(t) \/ SweepDone(t)
           \/ (\E p \in Procs : SweepStart(t, p)) \/ SweepEnd(t) \/ TryLock(t) \/ Clone(t)
           \/ Reap(t) \/ Rename(t) \/ RenameFails(t) \/ CleanupStart(t) \/ CleanupEnd(t)
           \/ Unlock(t)
    PROVE  LockInv'
<1> USE DEF At, Goto, queues, files, deleting
<1>a. pc \in [Workers -> Labels] /\ job \in [Workers -> Nat]
  BY DEF Sound, TypeInv, TypeOK, Labels
<1>1. /\ UNCHANGED <<lockPath, fd, status>> /\ Running(t[1])
      /\ \A u \in Workers : u # t => UNCHANGED <<pc[u], job[u]>>
  BY <1>a DEF Take, Finish, Missing, Scan, SweepDone, SweepFails, SweepStart, SweepEnd, TryLock, Clone,
     Reap, Rename, RenameFails, CleanupStart, CleanupEnd, Unlock
<1>2. /\ pc[t] \in WithoutFile <=> pc'[t] \in WithoutFile
      /\ UNCHANGED job[t] \/ pc[t] \in WithoutFile
  <2>1. CASE Take(t) \/ Finish(t) \/ Missing(t) \/ Scan(t) \/ SweepFails(t) \/ SweepDone(t) \/ SweepEnd(t)
             \/ (\E p \in Procs : SweepStart(t, p))
    BY <1>a, <2>1 DEF Take, Finish, Missing, Scan, SweepDone, SweepFails, SweepStart, SweepEnd, WithoutFile
  <2>2. CASE TryLock(t) \/ Clone(t) \/ Reap(t) \/ Rename(t) \/ RenameFails(t)
             \/ CleanupStart(t) \/ CleanupEnd(t) \/ Unlock(t)
    BY <1>a, <2>2 DEF TryLock, Clone, Reap, Rename, RenameFails, CleanupStart, CleanupEnd,
       Unlock, WithoutFile
  <2>3. QED
    BY <2>1, <2>2
<1>3. FdHeld'
  BY <1>1, <1>2 DEF LockInv, FdHeld
<1>4. WorkersLive'
  BY <1>1 DEF LockInv, WorkersLive, Running
<1>5. PathsApart' /\ FilesApart'
  BY <1>1, <1>2, LocksStay DEF LockInv, FdHeld
<1>6. QED
  BY <1>3, <1>4, <1>5 DEF LockInv

LEMMA NextLockInv == Sound /\ LockInv /\ [Next]_vars => LockInv'
<1> SUFFICES ASSUME Sound, LockInv, [Next]_vars PROVE LockInv'
  OBVIOUS
<1>a. /\ status \in [Procs -> {"unborn", "running", "ok", "failed", "tempfail", "killed"}]
      /\ fd \in [Workers -> Inodes \cup {NoInode}]
      /\ lockPath \in [Dests -> Inodes \cup {NoInode}]
      /\ \A t \in Workers : t[1] \in Procs
  BY WorkerFacts DEF Sound, TypeInv, TypeOK
<1>1. ASSUME NEW p \in Procs, Launch(p) PROVE LockInv'
  <2>1. UNCHANGED <<lockPath, fd, pc, job>> /\ status' = [status EXCEPT ![p] = "running"]
    BY <1>1 DEF Launch, files, queues
  <2>2. WorkersLive'
    BY <1>a, <2>1 DEF LockInv, WorkersLive, Running
  <2>3. PathsApart' /\ FilesApart'
    BY <2>1, LocksStay
  <2>4. QED
    BY <2>1, <2>2, <2>3 DEF LockInv, FdHeld
<1>2. ASSUME NEW p \in Procs, Kill(p) \/ Exit(p) PROVE LockInv'
  BY <1>2, DieLock DEF Kill, Exit
<1>3. ASSUME NEW t \in Workers, Work(t) PROVE LockInv'
  <2>1. CASE TempFail(t)
    BY <1>a, <2>1, DieLock DEF TempFail
  <2>2. CASE OpenLock(t)
    BY <2>2, OpenLockInv
  <2>3. CASE Existing(t) \/ OpenFails(t)
    <3>1. Running(t[1]) /\ pc[t] \in WithoutFile /\ UNCHANGED <<job, lockPath, fd>>
          /\ \E r : Return(t, r)
      BY <2>3 DEF Existing, OpenFails, At, WithoutFile, files, queues
    <3>2. fd' = [fd EXCEPT ![t] = NoInode]
      BY <1>a, <3>1 DEF LockInv, FdHeld
    <3>3. QED
      BY <3>1, <3>2, ReturnLock
  <2>4. CASE Unlink(t)
    <3>1. /\ Running(t[1]) /\ UNCHANGED job /\ Return(t, result[t])
          /\ fd' = [fd EXCEPT ![t] = NoInode]
          /\ lockPath' = [lockPath EXCEPT ![Dest(t)] = NoInode]
      BY <2>4 DEF Unlink, At, queues
    <3>2. \A d \in Dests : lockPath'[d] \in {lockPath[d], NoInode}
      BY <1>a, <3>1
    <3>3. QED
      BY <3>1, <3>2, ReturnLock
  <2>5. QED
    BY <1>3, <2>1, <2>2, <2>3, <2>4, OtherwiseLock DEF Work
<1>4. ASSUME NEW t \in Workers, GitChild(t) \/ UNCHANGED vars PROVE LockInv'
  <2>1. UNCHANGED <<lockPath, fd, pc, job, status>>
    BY <1>4 DEF GitChild, GitMkdir, GitSucceeds, GitFails, queues, vars, files
  <2>2. PathsApart' /\ FilesApart'
    BY <2>1, LocksStay
  <2>3. QED
    BY <2>1, <2>2 DEF LockInv, FdHeld, WorkersLive, Running
<1>5. CASE UNCHANGED vars
  <2>1. UNCHANGED <<lockPath, fd, pc, job, status>>
    BY <1>5 DEF queues, vars, files
  <2>2. PathsApart' /\ FilesApart'
    BY <2>1, LocksStay
  <2>3. QED
    BY <2>1, <2>2 DEF LockInv, FdHeld, WorkersLive, Running
<1>6. QED
  BY <1>1, <1>2, <1>3, <1>4, <1>5 DEF Next, Done

\* Only a worker whose try_lock fails ends its process with 75.
LEMMA WhoGivesUp ==
    ASSUME Sound, [Next]_vars, NEW p \in Procs,
           status'[p] = "tempfail", status[p] # "tempfail"
    PROVE  \E t \in Workers : t[1] = p /\ TempFail(t)
<1>a. /\ status \in [Procs -> {"unborn", "running", "ok", "failed", "tempfail", "killed"}]
      /\ \A t \in Workers : t[1] \in Procs
  BY WorkerFacts DEF Sound, TypeInv, TypeOK
<1>b. \A q, how : status' = [status EXCEPT ![q] = how] => how = "tempfail" /\ q = p
  BY <1>a
<1>c. status' # status
  OBVIOUS
<1>1. \A q \in Procs : ~Launch(q) /\ ~Kill(q) /\ ~Exit(q)
  <2>1. \A q \in Procs : status' # [status EXCEPT ![q] = "running"]
    BY <1>b
  <2>2. \A q \in Procs : status' # [status EXCEPT ![q] = "killed"]
    BY <1>b
  <2>3. \A q \in Procs : status' # [status EXCEPT ![q] = "ok"]
    BY <1>b
  <2>4. QED
    BY <2>1, <2>2, <2>3 DEF Launch, Kill, Exit, Die
<1>2. \A t, r : ~Return(t, r)
  <2>1. \A t : status' # [status EXCEPT ![t[1]] = "failed"]
    BY <1>b
  <2>2. QED
    BY <1>c, <2>1 DEF Return
<1>3. PICK t \in Workers : TempFail(t)
  <2>1. PICK t \in Workers : Work(t) \/ GitChild(t)
    BY <1>1, <1>c DEF Next, Done, vars
  <2>2. ~GitChild(t)
    BY <1>c DEF GitChild, GitMkdir, GitSucceeds, GitFails
  <2>3. TempFail(t)
    BY <1>2, <1>c, <2>1, <2>2 DEF Work, Take, Finish, Existing, Missing, Scan, SweepStart,
       SweepEnd, SweepFails, SweepDone, OpenLock, OpenFails, TryLock, Clone, Reap, Rename,
       RenameFails, CleanupStart, CleanupEnd, Unlock, Unlink
  <2>4. QED
    BY <2>3
<1>4. QED
  BY <1>b, <1>3 DEF TempFail, Die

\* Exit 75 tells the truth wherever flock itself does not fail: another live process is cloning
\* that very target.
THEOREM BusyIsTrue == DistinctTargets => (Spec => TempfailMeansBusy)
<1> SUFFICES ASSUME DistinctTargets PROVE Spec => TempfailMeansBusy
  OBVIOUS
<1> DEFINE Cloning == {"clone", "wait", "rename", "cleanup", "cleaning", "unlock"}
           Justified(p) == \E t \in Workers :
                              /\ t[1] = p /\ At(t, "lock")
                              /\ \/ Dest(t) \in FlockFails
                                 \/ \E u \in Workers :
                                       /\ u[1] # p /\ Running(u[1])
                                       /\ pc[u] \in Cloning
                                       /\ Dest(u) = Dest(t)
<1>1. ASSUME Sound, LockInv, [Next]_vars, NEW p \in Procs,
             status'[p] = "tempfail", status[p] # "tempfail"
      PROVE  Justified(p)
  <2>1. PICK t \in Workers : t[1] = p /\ TempFail(t)
    BY <1>1, WhoGivesUp
  <2>2. At(t, "lock") /\ (LockBusy(t) \/ Dest(t) \in FlockFails)
    BY <2>1 DEF TempFail
  <2>3. CASE Dest(t) \in FlockFails
    BY <2>1, <2>2, <2>3
  <2>4. CASE LockBusy(t)
    <3>1. PICK u \in Workers : HoldsLock(u) /\ fd[u] = fd[t]
      BY <2>4 DEF LockBusy
    <3>2. pc[u] \in Cloning /\ Running(u[1])
      BY <1>1, <3>1 DEF HoldsLock, LockInv, WorkersLive
    <3>3. Dest(u) = Dest(t)
      BY <1>1, <2>2, <3>1 DEF At, LockInv, FdHeld, FilesApart, WithoutFile
    <3>4. u # t /\ job[u] # 0 /\ job[t] # 0
      BY <1>1, <2>2, <3>2 DEF At, Sound, TypeInv, JobTaken
    <3>5. u[1] # p
      BY <1>1, <2>1, <3>3, <3>4, SoleUser DEF Sound, TypeInv, Safe
    <3>6. QED
      BY <2>1, <2>2, <3>2, <3>3, <3>5
  <2>5. QED
    BY <2>2, <2>3, <2>4
<1>2. Sound /\ LockInv /\ [Next]_vars =>
        [\A p \in Procs : status'[p] = "tempfail" /\ status[p] # "tempfail" =>
            Justified(p)]_vars
  BY <1>1
<1>3. Sound /\ LockInv /\ [Next]_vars => LockInv'
  BY NextLockInv
<1>4. QED
  BY SoundAlways, InitLockInv, <1>2, <1>3, PTL DEF Spec, TempfailMeansBusy
=============================================================================
