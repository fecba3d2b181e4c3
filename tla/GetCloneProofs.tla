--------------------------- MODULE GetCloneProofs ---------------------------
(***************************************************************************)
(* Proofs about GetClone, for any number of processes, workers, targets    *)
(* and destinations.                                                       *)
(***************************************************************************)
EXTENDS GetClone, TLAPS

-----------------------------------------------------------------------------
(* Types.                                                                  *)

\* A worker that is past taking a target has one.
JobTaken ==
    \A t \in Workers :
        /\ pc[t] \notin {"next", "gone"} => job[t] # 0
        /\ git[t] # "none" => job[t] # 0

TypeInv == TypeOK /\ JobTaken

Labels == {"next", "check", "scan", "sweep", "open", "lock", "clone", "wait",
           "rename", "cleanup", "cleaning", "unlock", "unlink", "gone"}

LEMMA WorkerFacts ==
    ASSUME NEW t \in Workers
    PROVE  t[1] \in Procs /\ t = <<t[1], t[2]>>
BY DEF Workers

\* A worker that has taken a target has a destination.
LEMMA DestType ==
    ASSUME TypeOK, NEW t \in Workers, job[t] # 0
    PROVE  Dest(t) \in Dests
<1>1. t[1] \in Procs
  BY WorkerFacts
<1>2. Targets[t[1]] \in Seq(Dests)
  BY <1>1, ConstantsAssumption
<1>3. job[t] \in 1 .. Len(Targets[t[1]])
  BY <1>1, <1>2 DEF TypeOK
<1>4. QED
  BY <1>2, <1>3 DEF Dest

LEMMA InitTypeInv == Init => TypeInv
<1>1. \A p \in Procs : Len(Targets[p]) \in Nat
  BY ConstantsAssumption
<1>2. \A t \in Workers : t[1] \in Procs
  BY WorkerFacts
<1>3. QED
  BY <1>1, <1>2 DEF Init, TypeInv, TypeOK, JobTaken, DestStates, TmpStates

LEMMA NextTypeInv == TypeInv /\ [Next]_vars => TypeInv'
<1> SUFFICES ASSUME TypeInv, [Next]_vars PROVE TypeInv'
  OBVIOUS
<1> USE DEF TypeInv, TypeOK, JobTaken, DestStates, TmpStates, files, queues,
            deleting
<1>a. \A t \in Workers : t[1] \in Procs
  BY WorkerFacts
<1>b. \A t \in Workers : job[t] # 0 => Dest(t) \in Dests
  BY DestType
<1>c. \A p \in Procs : Len(Targets[p]) \in Nat
  BY ConstantsAssumption
<1>d. ASSUME NEW p \in Procs, NEW how \in {"ok", "tempfail", "killed"},
             Die(p, how)
      PROVE  TypeInv'
  BY <1>a, <1>d DEF Die
<1>e. \A d, p : Doomed(d, p) \in [Workers -> {"none", "spawned", "writing",
                                            "doomed", "ok", "err"}]
  BY DEF Doomed
<1>f. \A d, p : \A v \in TmpStates :
         [tmp EXCEPT ![d][p] = v] \in [Dests -> [Procs -> TmpStates]]
  <2>1. tmp \in [Dests -> [Procs -> TmpStates]]
    OBVIOUS
  <2>2. QED
    BY <2>1
<1>g. ASSUME NEW t \in Workers, NEW r, Return(t, r)
      PROVE  /\ pc' \in [Workers -> Labels]
             /\ \A u \in Workers : pc'[u] \notin {"next", "gone"} => job[u] # 0
             /\ status' \in [Procs -> {"unborn", "running", "ok", "failed",
                                      "tempfail", "killed"}]
  <2>1. CASE r = "err" /\ ~Parallel[t[1]]
    <3>1. pc' = [pc EXCEPT ![t] = "gone"] /\ status' = [status EXCEPT ![t[1]] = "failed"]
      BY <2>1, <1>g DEF Return, Goto
    <3>2. status' \in [Procs -> {"unborn", "running", "ok", "failed", "tempfail", "killed"}]
      BY <3>1, <1>a
    <3>3. pc' \in [Workers -> Labels]
      BY <3>1 DEF Labels
    <3>4. \A u \in Workers : pc'[u] \notin {"next", "gone"} => job[u] # 0
      BY <3>1
    <3>5. QED
      BY <3>2, <3>3, <3>4
  <2>2. CASE ~(r = "err" /\ ~Parallel[t[1]])
    <3>1. pc' = [pc EXCEPT ![t] = "next"] /\ status' = status
      BY <2>2, <1>g DEF Return, Goto
    <3>2. pc' \in [Workers -> Labels]
      BY <3>1 DEF Labels
    <3>3. \A u \in Workers : pc'[u] \notin {"next", "gone"} => job[u] # 0
      BY <3>1
    <3>4. QED
      BY <3>1, <3>2, <3>3
  <2>3. QED
    BY <2>1, <2>2
<1>h. ASSUME NEW t \in Workers, NEW p \in Procs, StartDelete(t, p)
      PROVE  /\ victim' \in [Workers -> Procs \cup {"none", "moved"}]
             /\ tmp' \in [Dests -> [Procs -> TmpStates]]
             /\ git' = Doomed(Dest(t), p)
  BY <1>f, <1>h DEF StartDelete
<1>i. ASSUME NEW t \in Workers, EndDelete(t)
      PROVE  /\ victim' \in [Workers -> Procs \cup {"none", "moved"}]
             /\ tmp' \in [Dests -> [Procs -> TmpStates]]
             /\ dest' \in [Dests -> DestStates]
  <2>1. CASE victim[t] = "moved"
    BY <2>1, <1>i DEF EndDelete
  <2>2. CASE victim[t] # "moved"
    <3>1. tmp' = [tmp EXCEPT ![Dest(t)][victim[t]] = "absent"]
      BY <2>2, <1>i DEF EndDelete
    <3>2. QED
      BY <2>2, <3>1, <1>f, <1>i DEF EndDelete
  <2>3. QED
    BY <2>1, <2>2
<1>j. \A d, p : \A u \in Workers : Doomed(d, p)[u] # "none" => git[u] # "none"
  BY DEF Doomed
<1>k. ASSUME NEW t \in Workers, NEW l \in Labels, job[t] # 0, Goto(t, l)
      PROVE  /\ pc' \in [Workers -> Labels]
             /\ \A u \in Workers : pc'[u] \notin {"next", "gone"} => job[u] # 0
  BY <1>k DEF Goto, Labels
<1>1. ASSUME NEW p \in Procs, Launch(p) PROVE TypeInv'
  BY <1>1 DEF Launch
<1>2. ASSUME NEW p \in Procs, Kill(p) PROVE TypeInv'
  BY <1>2, <1>d DEF Kill
<1>3. ASSUME NEW p \in Procs, Exit(p) PROVE TypeInv'
  BY <1>3, <1>d DEF Exit
<1>4. ASSUME NEW t \in Workers, Work(t) PROVE TypeInv'
  <2>1. CASE Take(t)
    BY <2>1, <1>a, <1>c DEF Take, At, Goto
  <2>2. CASE Finish(t)
    BY <2>2 DEF Finish, At, Goto
  <2>3. CASE Existing(t)
    <3>1. PICK r : Return(t, r)
      BY <2>3 DEF Existing
    <3>2. /\ pc' \in [Workers -> Labels]
          /\ \A u \in Workers : pc'[u] \notin {"next", "gone"} => job[u] # 0
          /\ status' \in [Procs -> {"unborn", "running", "ok", "failed",
                                   "tempfail", "killed"}]
      BY <3>1, <1>g
    <3>3. QED
      BY <2>3, <3>2 DEF Existing, Labels
  <2>4. CASE Missing(t)
    BY <2>4 DEF Missing, At, Goto
  <2>5. CASE Scan(t)
    BY <2>5 DEF Scan, Abandoned, At, Goto
  <2>6. ASSUME NEW p \in Procs, SweepStart(t, p) PROVE TypeInv'
    <3>1. CASE tmp[Dest(t)][p] # "absent"
      BY <2>6, <3>1, <1>e, <1>h, <1>j DEF SweepStart
    <3>2. CASE tmp[Dest(t)][p] = "absent"
      BY <2>6, <3>2 DEF SweepStart
    <3>3. QED
      BY <3>1, <3>2
  <2>7. CASE SweepEnd(t)
    BY <2>7, <1>i DEF SweepEnd
  <2>8. CASE SweepDone(t)
    BY <2>8 DEF SweepDone, At, Goto
  <2>8a. CASE SweepFails(t)
    <3>1. PICK p \in Procs :
            /\ victim' = victim \/ victim' = [victim EXCEPT ![t] = "none"]
            /\ stale' = stale \/ stale' = [stale EXCEPT ![t] = stale[t] \ {p}]
            /\ spared' = [spared EXCEPT ![t] = spared[t] \cup {p}]
      BY <2>8a DEF SweepFails
    <3>2. /\ victim' \in [Workers -> Procs \cup {"none", "moved"}]
          /\ stale' \in [Workers -> SUBSET Procs]
          /\ spared' \in [Workers -> SUBSET Procs]
      <4>1. stale[t] \ {p} \in SUBSET Procs /\ spared[t] \cup {p} \in SUBSET Procs
        OBVIOUS
      <4>2. victim' \in [Workers -> Procs \cup {"none", "moved"}]
        BY <3>1
      <4>3. [stale EXCEPT ![t] = stale[t] \ {p}] \in [Workers -> SUBSET Procs]
        BY <4>1
      <4>4. stale' \in [Workers -> SUBSET Procs]
        BY <3>1, <4>3
      <4>5. spared' \in [Workers -> SUBSET Procs]
        BY <3>1, <4>1
      <4>6. QED
        BY <4>2, <4>4, <4>5
    <3>3. UNCHANGED <<dest, tmp, lockPath, status, next, job, pc, result, fd, git>>
      BY <2>8a DEF SweepFails
    <3>4. TypeOK' /\ JobTaken'
      BY <3>2, <3>3
    <3>5. QED
      BY <3>4
  <2>9. CASE OpenLock(t)
    <3>1. /\ lockPath' \in [Dests -> Inodes \cup {NoInode}]
          /\ fd' \in [Workers -> Inodes \cup {NoInode}]
      <4>1. job[t] # 0 /\ Dest(t) \in Dests
        BY <2>9, <1>b DEF OpenLock, At
      <4>2. CASE lockPath[Dest(t)] = NoInode
        <5>1. PICK i \in Inodes : /\ lockPath' = [lockPath EXCEPT ![Dest(t)] = i]
                                  /\ fd' = [fd EXCEPT ![t] = i]
          BY <2>9, <4>2 DEF OpenLock
        <5>2. QED
          BY <5>1
      <4>3. CASE lockPath[Dest(t)] # NoInode
        <5>1. lockPath' = lockPath /\ fd' = [fd EXCEPT ![t] = lockPath[Dest(t)]]
          BY <2>9, <4>3 DEF OpenLock
        <5>2. lockPath[Dest(t)] \in Inodes \cup {NoInode}
          BY <4>1
        <5>3. QED
          BY <5>1, <5>2
      <4>4. QED
        BY <4>2, <4>3
    <3>2. QED
      BY <2>9, <3>1 DEF OpenLock, At, Goto
  <2>10. CASE OpenFails(t)
    <3>1. Return(t, "err")
      BY <2>10 DEF OpenFails
    <3>2. /\ pc' \in [Workers -> Labels]
          /\ \A u \in Workers : pc'[u] \notin {"next", "gone"} => job[u] # 0
          /\ status' \in [Procs -> {"unborn", "running", "ok", "failed",
                                   "tempfail", "killed"}]
      BY <3>1, <1>g
    <3>3. QED
      BY <2>10, <3>2 DEF OpenFails, Labels
  <2>11. CASE TryLock(t)
    BY <2>11 DEF TryLock, At, Goto
  <2>12. CASE TempFail(t)
    BY <2>12, <1>a, <1>d DEF TempFail
  <2>13. CASE Clone(t)
    BY <2>13 DEF Clone, At, Goto
  <2>14. CASE Reap(t)
    BY <2>14 DEF Reap, At, Goto
  <2>15. CASE Rename(t)
    BY <2>15, <1>e, <1>f DEF Rename, Doomed, At, Goto
  <2>16. CASE RenameFails(t)
    BY <2>16 DEF RenameFails, At, Goto
  <2>17. CASE CleanupStart(t)
    <3>. job[t] # 0
      BY <2>17 DEF CleanupStart, At
    <3>0. /\ pc' \in [Workers -> Labels]
          /\ \A u \in Workers : pc'[u] \notin {"next", "gone"} => job[u] # 0
      BY <2>17, <1>k DEF CleanupStart, Labels
    <3>1. CASE tmp[Dest(t)][t[1]] # "absent"
      <4>1. StartDelete(t, t[1]) /\ t[1] \in Procs
        BY <2>17, <3>1, <1>a DEF CleanupStart
      <4>2. /\ victim' \in [Workers -> Procs \cup {"none", "moved"}]
            /\ tmp' \in [Dests -> [Procs -> TmpStates]]
            /\ git' = Doomed(Dest(t), t[1])
        BY <4>1, <1>h
      <4>3. QED
        BY <2>17, <3>1, <3>0, <4>2, <1>e, <1>j DEF CleanupStart, Labels
    <3>2. CASE tmp[Dest(t)][t[1]] = "absent"
      BY <2>17, <3>2, <3>0 DEF CleanupStart, Labels
    <3>3. QED
      BY <3>1, <3>2
  <2>18. CASE CleanupEnd(t)
    BY <2>18, <1>i DEF CleanupEnd, At, Goto
  <2>19. CASE Unlock(t)
    BY <2>19 DEF Unlock, At, Goto
  <2>20. CASE Unlink(t)
    <3>1. Return(t, result[t])
      BY <2>20 DEF Unlink
    <3>2. /\ pc' \in [Workers -> Labels]
          /\ \A u \in Workers : pc'[u] \notin {"next", "gone"} => job[u] # 0
          /\ status' \in [Procs -> {"unborn", "running", "ok", "failed",
                                   "tempfail", "killed"}]
      BY <3>1, <1>g
    <3>3. QED
      BY <2>20, <3>2 DEF Unlink, Labels
  <2>21. QED
    BY <1>4, <2>1, <2>2, <2>3, <2>4, <2>5, <2>6, <2>7, <2>8, <2>9, <2>10,
       <2>11, <2>12, <2>13, <2>14, <2>15, <2>16, <2>17, <2>18, <2>19, <2>20,
       <2>8a
    DEF Work
<1>5. ASSUME NEW t \in Workers, GitChild(t) PROVE TypeInv'
  <2>1. CASE GitMkdir(t)
    <3>1. /\ tmp' \in [Dests -> [Procs -> TmpStates]]
          /\ git' \in [Workers -> {"none", "spawned", "writing", "doomed",
                                  "ok", "err"}]
          /\ \A u \in Workers : git'[u] # "none" => git[u] # "none"
      <4>1. CASE tmp[Dest(t)][t[1]] = "absent"
        <5>1. tmp' = [tmp EXCEPT ![Dest(t)][t[1]] = "partial"]
          BY <2>1, <4>1 DEF GitMkdir
        <5>2. tmp' \in [Dests -> [Procs -> TmpStates]]
          BY <5>1, <1>f
        <5>3. git[t] = "spawned" /\ git' = [git EXCEPT ![t] = "writing"]
          BY <2>1, <4>1 DEF GitMkdir
        <5>4. QED
          BY <5>2, <5>3
      <4>2. CASE tmp[Dest(t)][t[1]] # "absent"
        BY <2>1, <4>2 DEF GitMkdir
      <4>3. QED
        BY <4>1, <4>2
    <3>2. QED
      BY <2>1, <3>1 DEF GitMkdir
  <2>2. CASE GitSucceeds(t)
    BY <2>2 DEF GitSucceeds
  <2>3. CASE GitFails(t)
    <3>1. /\ tmp' \in [Dests -> [Procs -> TmpStates]]
          /\ git' \in [Workers -> {"none", "spawned", "writing", "doomed",
                                  "ok", "err"}]
          /\ \A u \in Workers : git'[u] # "none" => git[u] # "none"
      <4>1. CASE /\ tmp' = [tmp EXCEPT ![Dest(t)][t[1]] = "absent"]
                 /\ git' = [Doomed(Dest(t), t[1]) EXCEPT ![t] = "err"]
        <5>1. tmp' \in [Dests -> [Procs -> TmpStates]]
          BY <4>1, <1>f
        <5>2. QED
          BY <2>3, <4>1, <5>1, <1>e, <1>j DEF GitFails
      <4>2. CASE git' = [git EXCEPT ![t] = "err"] /\ UNCHANGED tmp
        BY <2>3, <4>2 DEF GitFails
      <4>3. QED
        BY <2>3, <4>1, <4>2 DEF GitFails
    <3>2. QED
      BY <2>3, <3>1 DEF GitFails
  <2>4. QED
    BY <1>5, <2>1, <2>2, <2>3 DEF GitChild
<1>6. CASE UNCHANGED vars
  BY <1>6 DEF vars
<1>7. QED
  BY <1>1, <1>2, <1>3, <1>4, <1>5, <1>6 DEF Next, Done

\* Every variable keeps its type in every behaviour of any instance.
THEOREM TypeCorrect == Spec => []TypeOK
<1>1. TypeInv => TypeOK
  BY DEF TypeInv
<1>2. QED
  BY InitTypeInv, NextTypeInv, <1>1, PTL DEF Spec

-----------------------------------------------------------------------------
(* No destination is ever seen half cloned.  The argument: a process's own *)
(* workers never share a destination, so the only directory a live process *)
(* is cloning into is touched by one worker and its one git child; sweeps  *)
(* delete directories of dead pids only, and a pid found dead stays dead   *)
(* while a sweep goes on.  So what a worker renames is whole and nobody is *)
(* deleting it.                                                            *)

JobsDistinct ==
    \A t, u \in Workers : t # u /\ t[1] = u[1] /\ job[t] # 0 =>
        job[t] # job[u]

StaleDead == \A t \in Workers : \A p \in stale[t] : ~Running(p)

\* What a worker is deleting: a dead pid's directory in a sweep, its own in a
\* cleanup, and never a directory that has been renamed.
VictimOK ==
    \A t \in Workers :
        /\ victim[t] # "moved"
        /\ pc[t] \notin {"sweep", "cleaning"} => victim[t] = "none"
        /\ pc[t] = "sweep" /\ victim[t] # "none" => ~Running(victim[t])
        /\ pc[t] = "cleaning" => victim[t] = t[1]

Unborn ==
    \A t \in Workers : status[t[1]] = "unborn" =>
        pc[t] = "next" /\ git[t] = "none"

\* A live worker has a git child only while it waits for it, and that child's
\* directory has not been taken away.
GitQuiet ==
    \A t \in Workers : Running(t[1]) /\ git[t] # "none" =>
        pc[t] = "wait" /\ git[t] # "doomed"

\* What git reported success for, and what is about to be renamed, is whole.
WholeReady ==
    \A t \in Workers : Running(t[1]) /\ (pc[t] = "rename" \/ git[t] = "ok") =>
        tmp[Dest(t)][t[1]] = "whole"

Safe == /\ JobsDistinct /\ StaleDead /\ VictimOK /\ Unborn
        /\ GitQuiet /\ WholeReady

LEMMA InitSafe == Init => Safe
<1>1. \A t \in Workers : t[1] \in Procs
  BY WorkerFacts
<1>2. QED
  BY <1>1 DEF Init, Safe, JobsDistinct, StaleDead, VictimOK, Unborn, GitQuiet,
     WholeReady, Running

\* Two workers of one process are never after the same destination.
LEMMA SoleUser ==
    ASSUME DistinctTargets, TypeOK, JobsDistinct,
           NEW t \in Workers, NEW u \in Workers, t # u, t[1] = u[1],
           job[t] # 0, job[u] # 0
    PROVE  Dest(t) # Dest(u)
<1>0. Parallel[t[1]]
  BY WorkerFacts DEF Workers, NumWorkers
<1>1. t[1] \in Procs /\ Targets[t[1]] \in Seq(Dests)
  BY WorkerFacts, ConstantsAssumption
<1>2. /\ job[t] \in 1 .. Len(Targets[t[1]])
      /\ job[u] \in 1 .. Len(Targets[t[1]])
  BY <1>1 DEF TypeOK
<1>3. job[t] # job[u]
  BY DEF JobsDistinct
<1>4. QED
  BY <1>0, <1>1, <1>2, <1>3 DEF DistinctTargets, Dest

\* Deleting, renaming or losing the directory of pid p for t's destination
\* disturbs no other live worker's child or directory, when p is dead or is
\* t's own process.
LEMMA OthersSpared ==
    ASSUME DistinctTargets, TypeInv, JobsDistinct,
           NEW t \in Workers, job[t] # 0,
           NEW p \in Procs, p = t[1] \/ ~Running(p),
           NEW w \in Workers, Running(w[1]), job[w] # 0, w # t
    PROVE  ~(w[1] = p /\ Dest(w) = Dest(t))
<1>1. CASE p = t[1]
  BY <1>1, SoleUser DEF TypeInv
<1>2. CASE ~Running(p)
  BY <1>2
<1>3. QED
  BY <1>1, <1>2

\* A step that only moves one live worker to a label with no duties, and may
\* end its process.
LEMMA MoveSafe ==
    ASSUME TypeInv, Safe, NEW t \in Workers, Running(t[1]),
           UNCHANGED <<dest, tmp, job, stale, victim, git>>,
           \A u \in Workers : u # t => pc'[u] = pc[u],
           pc'[t] \notin {"wait", "rename", "sweep", "cleaning"},
           victim[t] = "none", pc[t] # "wait",
           \A p \in Procs : status'[p] # status[p] =>
               status[p] = "running" /\ status'[p] \notin {"running", "unborn"}
    PROVE  Safe'
<1> USE DEF Safe
<1>1. \A u \in Workers : u[1] \in Procs
  BY WorkerFacts
<1>2. \A u \in Workers : Dest(u)' = Dest(u)
  BY DEF Dest
<1>3. \A p \in Procs : Running(p)' => Running(p)
  BY DEF Running
<1>4. git[t] = "none"
  BY DEF GitQuiet
<1>5. JobsDistinct'
  BY DEF JobsDistinct
<1>6. StaleDead'
  BY <1>3 DEF StaleDead, TypeInv, TypeOK
<1>7. VictimOK'
  <2> SUFFICES ASSUME NEW u \in Workers
               PROVE  /\ victim[u] # "moved"
                      /\ pc'[u] \notin {"sweep", "cleaning"} => victim[u] = "none"
                      /\ pc'[u] = "sweep" /\ victim[u] # "none" =>
                            ~Running(victim[u])'
                      /\ pc'[u] = "cleaning" => victim[u] = u[1]
    BY DEF VictimOK
  <2>1. CASE u = t
    BY <2>1
  <2>2. CASE u # t
    BY <2>2, <1>3 DEF VictimOK, TypeInv, TypeOK
  <2>3. QED
    BY <2>1, <2>2
<1>8. Unborn'
  BY <1>1 DEF Unborn, Running
<1>9. GitQuiet'
  BY <1>1, <1>3, <1>4 DEF GitQuiet
<1>10. WholeReady'
  BY <1>1, <1>2, <1>3, <1>4 DEF WholeReady
<1>11. QED
  BY <1>5, <1>6, <1>7, <1>8, <1>9, <1>10

\* The end of a process, by exit or by death.
LEMMA DieSafe ==
    ASSUME TypeInv, Safe, NEW p \in Procs, Running(p),
           NEW how \in {"ok", "tempfail", "killed"}, Die(p, how)
    PROVE  Safe'
<1> USE DEF Safe
<1>1. \A u \in Workers : u[1] \in Procs
  BY WorkerFacts
<1>2. \A u \in Workers : Dest(u)' = Dest(u)
  BY DEF Dest, Die, queues
<1>3. \A q \in Procs : Running(q)' <=> Running(q) /\ q # p
  BY DEF Running, Die, TypeInv, TypeOK
<1>4. \A u \in Workers :
        /\ u[1] = p => pc'[u] = "gone" /\ stale'[u] = {} /\ victim'[u] = "none"
        /\ u[1] # p => /\ pc'[u] = pc[u] /\ stale'[u] = stale[u]
                       /\ victim'[u] = victim[u]
  BY DEF Die
<1>5. JobsDistinct'
  BY DEF JobsDistinct, Die, queues
<1>6. StaleDead'
  BY <1>3, <1>4 DEF StaleDead, TypeInv, TypeOK
<1>7. VictimOK'
  BY <1>3, <1>4 DEF VictimOK, TypeInv, TypeOK
<1>8. Unborn'
  BY <1>1, <1>4 DEF Unborn, Die, TypeInv, TypeOK
<1>9. GitQuiet'
  BY <1>1, <1>3, <1>4 DEF GitQuiet, Die
<1>10. WholeReady'
  BY <1>1, <1>2, <1>3, <1>4 DEF WholeReady, Die, files
<1>11. QED
  BY <1>5, <1>6, <1>7, <1>8, <1>9, <1>10

LEMMA ReturnFacts ==
    ASSUME TypeOK, NEW t \in Workers, Running(t[1]), NEW r, Return(t, r)
    PROVE  /\ \A u \in Workers : u # t => pc'[u] = pc[u]
           /\ pc'[t] \in {"next", "gone"}
           /\ \A p \in Procs : status'[p] # status[p] =>
                 status[p] = "running" /\ status'[p] \notin {"running", "unborn"}
<1>1. t[1] \in Procs
  BY WorkerFacts
<1>2. CASE r = "err" /\ ~Parallel[t[1]]
  BY <1>1, <1>2 DEF Return, Goto, TypeOK, Running
<1>3. CASE ~(r = "err" /\ ~Parallel[t[1]])
  BY <1>3 DEF Return, Goto, TypeOK
<1>4. QED
  BY <1>2, <1>3

\* The steps of a worker that touch no directory.
QuietStep(t) ==
    \/ Finish(t) \/ Existing(t) \/ Missing(t) \/ SweepDone(t) \/ OpenLock(t)
    \/ OpenFails(t) \/ TryLock(t) \/ RenameFails(t) \/ Unlock(t) \/ Unlink(t)

LEMMA QuietSafe ==
    ASSUME TypeInv, Safe, NEW t \in Workers, QuietStep(t)
    PROVE  Safe'
<1>1. Running(t[1]) /\ UNCHANGED <<dest, tmp, job, stale, victim, git>>
  BY DEF QuietStep, Finish, Existing, Missing, SweepDone, OpenLock, OpenFails,
     TryLock, RenameFails, Unlock, Unlink, At, files, queues, deleting
<1>2. /\ \A u \in Workers : u # t => pc'[u] = pc[u]
      /\ pc'[t] \notin {"wait", "rename", "sweep", "cleaning"}
      /\ \A p \in Procs : status'[p] # status[p] =>
            status[p] = "running" /\ status'[p] \notin {"running", "unborn"}
  <2>1. CASE Existing(t) \/ OpenFails(t) \/ Unlink(t)
    <3>1. PICK r : Return(t, r)
      BY <2>1 DEF Existing, OpenFails, Unlink
    <3>2. QED
      BY <1>1, <3>1, ReturnFacts DEF TypeInv
  <2>2. CASE ~(Existing(t) \/ OpenFails(t) \/ Unlink(t))
    BY <2>2 DEF QuietStep, Finish, Missing, SweepDone, OpenLock, TryLock,
       RenameFails, Unlock, Goto, TypeInv, TypeOK
  <2>3. QED
    BY <2>1, <2>2
<1>3. victim[t] = "none" /\ pc[t] # "wait"
  BY DEF QuietStep, Finish, Existing, Missing, SweepDone, OpenLock, OpenFails,
     TryLock, RenameFails, Unlock, Unlink, At, Safe, VictimOK
<1>4. QED
  BY <1>1, <1>2, <1>3, MoveSafe

\* Whatever happens to the directory of t's destination and pid p, the
\* directories of the other live workers stay as they are.
LEMMA TmpSpared ==
    ASSUME DistinctTargets, TypeInv, Safe,
           NEW t \in Workers, job[t] # 0,
           NEW p \in Procs, p = t[1] \/ ~Running(p),
           NEW v, tmp' = [tmp EXCEPT ![Dest(t)][p] = v],
           NEW u \in Workers, Running(u[1]), u # t, job[u] # 0
    PROVE  tmp'[Dest(u)][u[1]] = tmp[Dest(u)][u[1]]
<1>1. u[1] # p \/ Dest(u) # Dest(t)
  BY OthersSpared DEF Safe
<1>2. Dest(t) \in Dests /\ Dest(u) \in Dests /\ u[1] \in Procs
  BY DestType, WorkerFacts DEF TypeInv
<1>3. tmp \in [Dests -> [Procs -> TmpStates]]
  BY DEF TypeInv, TypeOK
<1>4. QED
  BY <1>1, <1>2, <1>3

\* The children of live workers are not doomed by it either.
LEMMA GitSpared ==
    ASSUME DistinctTargets, TypeInv, Safe,
           NEW t \in Workers, job[t] # 0,
           NEW p \in Procs, p = t[1] \/ ~Running(p),
           NEW u \in Workers, Running(u[1]), u # t \/ git[u] # "writing"
    PROVE  Doomed(Dest(t), p)[u] = git[u]
<1>1. git[u] # "none" => job[u] # 0
  BY DEF TypeInv, JobTaken
<1>2. CASE u # t /\ job[u] # 0
  <2>1. ~(u[1] = p /\ Dest(u) = Dest(t))
    BY <1>2, OthersSpared DEF Safe
  <2>2. QED
    BY <2>1 DEF Doomed
<1>3. CASE git[u] # "writing"
  BY <1>3 DEF Doomed
<1>4. QED
  BY <1>1, <1>2, <1>3

\* Taking a target.
LEMMA TakeSafe ==
    ASSUME TypeInv, Safe, NEW t \in Workers, Take(t)
    PROVE  Safe'
<1> USE DEF Safe
<1>1. /\ Running(t[1]) /\ pc[t] = "next" /\ t[1] \in Procs
      /\ job' = [job EXCEPT ![t] = next[t[1]]]
      /\ pc' = [pc EXCEPT ![t] = "check"]
      /\ UNCHANGED <<dest, tmp, status, stale, victim, git>>
  BY WorkerFacts DEF Take, At, Goto, files, deleting
<1>2. pc \in [Workers -> Labels] /\ job \in [Workers -> Nat]
      /\ \A u \in Workers : job[u] < next[u[1]]
      /\ next \in [Procs -> Nat \ {0}]
  BY DEF TypeInv, TypeOK, Labels
<1>3. git[t] = "none" /\ victim[t] = "none"
  BY <1>1 DEF GitQuiet, VictimOK
<1>4. \A u \in Workers : u # t => Dest(u)' = Dest(u)
  BY <1>1, <1>2 DEF Dest
<1>5. JobsDistinct'
  <2> SUFFICES ASSUME NEW u \in Workers, NEW w \in Workers, u # w,
                      u[1] = w[1], job'[u] # 0
               PROVE  job'[u] # job'[w]
    BY DEF JobsDistinct
  <2>1. \A x \in Workers : x[1] = t[1] => job[x] # next[t[1]]
    BY <1>1, <1>2
  <2>2. CASE u = t
    BY <2>1, <2>2, <1>1, <1>2
  <2>3. CASE w = t
    BY <2>1, <2>3, <1>1, <1>2
  <2>4. CASE u # t /\ w # t
    BY <2>4, <1>1, <1>2 DEF JobsDistinct
  <2>5. QED
    BY <2>2, <2>3, <2>4
<1>6. StaleDead'
  BY <1>1 DEF StaleDead, Running
<1>7. VictimOK'
  BY <1>1, <1>2, <1>3 DEF VictimOK, Running
<1>8. Unborn'
  BY <1>1, <1>2 DEF Unborn, Running
<1>9. GitQuiet'
  BY <1>1, <1>2, <1>3 DEF GitQuiet, Running
<1>10. WholeReady'
  BY <1>1, <1>2, <1>3, <1>4 DEF WholeReady, Running
<1>11. QED
  BY <1>5, <1>6, <1>7, <1>8, <1>9, <1>10

LEMMA ScanSafe ==
    ASSUME TypeInv, Safe, NEW t \in Workers, Scan(t)
    PROVE  Safe'
<1> USE DEF Safe
<1>1. /\ Running(t[1]) /\ pc[t] = "scan"
      /\ pc' = [pc EXCEPT ![t] = "sweep"]
      /\ UNCHANGED <<dest, tmp, status, job, victim, git>>
      /\ pc \in [Workers -> Labels] /\ stale \in [Workers -> SUBSET Procs]
  BY DEF Scan, At, Goto, files, queues, TypeInv, TypeOK, Labels
<1>2. PICK seen : stale' = [stale EXCEPT ![t] = seen] /\ \A p \in seen : ~Running(p)
  BY DEF Scan, Abandoned
<1>3. git[t] = "none" /\ victim[t] = "none"
  BY <1>1 DEF GitQuiet, VictimOK
<1>4. \A u \in Workers : Dest(u)' = Dest(u)
  BY <1>1 DEF Dest
<1>5. JobsDistinct'
  BY <1>1 DEF JobsDistinct
<1>6. StaleDead'
  BY <1>1, <1>2 DEF StaleDead, Running
<1>7. VictimOK'
  BY <1>1, <1>3 DEF VictimOK, Running
<1>8. Unborn'
  BY <1>1 DEF Unborn, Running
<1>9. GitQuiet'
  BY <1>1, <1>3 DEF GitQuiet, Running
<1>10. WholeReady'
  BY <1>1, <1>3, <1>4 DEF WholeReady, Running
<1>11. QED
  BY <1>5, <1>6, <1>7, <1>8, <1>9, <1>10

LEMMA LaunchSafe ==
    ASSUME TypeInv, Safe, NEW p \in Procs, Launch(p)
    PROVE  Safe'
<1> USE DEF Safe
<1>1. /\ status[p] = "unborn" /\ status' = [status EXCEPT ![p] = "running"]
      /\ \A t \in Workers : p \notin stale[t] /\ victim[t] # p
      /\ UNCHANGED <<dest, tmp, pc, job, stale, victim, git>>
  BY DEF Launch, files, queues, deleting
<1>2. /\ \A q \in Procs : Running(q)' => Running(q) \/ q = p
      /\ \A q \in Procs : status'[q] = "unborn" => status[q] = "unborn"
  BY <1>1 DEF Running, TypeInv, TypeOK
<1>3. \A u \in Workers : u[1] \in Procs /\ Dest(u)' = Dest(u)
  BY <1>1, WorkerFacts DEF Dest
<1>4. \A u \in Workers : u[1] = p => pc[u] = "next" /\ git[u] = "none"
  BY <1>1 DEF Unborn
<1>5. JobsDistinct'
  BY <1>1 DEF JobsDistinct
<1>6. StaleDead'
  BY <1>1, <1>2 DEF StaleDead, TypeInv, TypeOK
<1>7. VictimOK'
  BY <1>1, <1>2 DEF VictimOK, TypeInv, TypeOK
<1>8. Unborn'
  BY <1>1, <1>2, <1>3 DEF Unborn
<1>9. GitQuiet'
  BY <1>1, <1>2, <1>3, <1>4 DEF GitQuiet
<1>10. WholeReady'
  BY <1>1, <1>2, <1>3, <1>4 DEF WholeReady
<1>11. QED
  BY <1>5, <1>6, <1>7, <1>8, <1>9, <1>10

\* A directory of t's destination changes, its children may be doomed, and t
\* itself has neither a clone ready nor a child writing: the three parts of
\* Safe that speak of children and directories are kept.
LEMMA DirectoryStep ==
    ASSUME DistinctTargets, TypeInv, Safe,
           NEW t \in Workers, job[t] # 0,
           NEW p \in Procs, p = t[1] \/ ~Running(p),
           UNCHANGED <<job, status>>,
           tmp' = tmp \/ \E v : tmp' = [tmp EXCEPT ![Dest(t)][p] = v],
           git' = git \/ git' = Doomed(Dest(t), p),
           \A u \in Workers : u # t => pc'[u] = pc[u],
           Running(t[1]) => git[t] = "none" /\ pc'[t] # "rename"
    PROVE  GitQuiet' /\ WholeReady'
<1> USE DEF Safe
<1>1. \A u \in Workers : Running(u[1])' <=> Running(u[1])
  BY DEF Running
<1>2. \A u \in Workers : Dest(u)' = Dest(u)
  BY DEF Dest
<1>3. \A u \in Workers : Running(u[1]) => git'[u] = git[u]
  BY GitSpared
<1>4. \A u \in Workers : Running(u[1]) /\ u # t /\ job[u] # 0 =>
          tmp'[Dest(u)][u[1]] = tmp[Dest(u)][u[1]]
  BY TmpSpared
<1>5. GitQuiet'
  BY <1>1, <1>3 DEF GitQuiet
<1>6. WholeReady'
  <2> SUFFICES ASSUME NEW u \in Workers, Running(u[1]),
                      pc'[u] = "rename" \/ git'[u] = "ok"
               PROVE  tmp'[Dest(u)][u[1]] = "whole"
    BY <1>1, <1>2 DEF WholeReady
  <2>1. u # t
    BY <1>3
  <2>2. pc[u] = "rename" \/ git[u] = "ok"
    BY <1>3, <2>1
  <2>3. job[u] # 0
    BY <2>2 DEF TypeInv, JobTaken
  <2>4. QED
    BY <1>4, <2>1, <2>2, <2>3 DEF WholeReady
<1>7. QED
  BY <1>5, <1>6

LEMMA SweepStartSafe ==
    ASSUME DistinctTargets, TypeInv, Safe,
           NEW t \in Workers, NEW p \in Procs, SweepStart(t, p)
    PROVE  Safe'
<1> USE DEF Safe
<1>1. /\ Running(t[1]) /\ pc[t] = "sweep" /\ victim[t] = "none" /\ p \in stale[t]
      /\ stale' = [stale EXCEPT ![t] = @ \ {p}]
      /\ UNCHANGED <<dest, status, job, pc>>
  BY DEF SweepStart, At, queues
<1>2. ~Running(p) /\ git[t] = "none" /\ job[t] # 0
  BY <1>1 DEF StaleDead, GitQuiet, TypeInv, JobTaken
<1>3. \/ UNCHANGED <<victim, tmp, git>>
      \/ /\ victim' = [victim EXCEPT ![t] = p] /\ git' = Doomed(Dest(t), p)
         /\ \E v : tmp' = [tmp EXCEPT ![Dest(t)][p] = v]
  BY DEF SweepStart, StartDelete
<1>4. \A q \in Procs : Running(q)' <=> Running(q)
  BY <1>1 DEF Running
<1>5. JobsDistinct'
  BY <1>1 DEF JobsDistinct
<1>6. StaleDead'
  BY <1>1, <1>4 DEF StaleDead, TypeInv, TypeOK
<1>7. VictimOK'
  <2>1. \A u \in Workers : u # t => victim'[u] = victim[u]
    BY <1>3 DEF TypeInv, TypeOK
  <2>2. victim'[t] \in {"none", p}
    BY <1>1, <1>3 DEF TypeInv, TypeOK
  <2>3. p \notin {"none", "moved"}
    BY ConstantsAssumption
  <2>4. QED
    BY <1>1, <1>2, <1>4, <2>1, <2>2, <2>3 DEF VictimOK, TypeInv, TypeOK
<1>8. Unborn'
  <2>1. \A u \in Workers : git[u] = "none" => git'[u] = "none"
    BY <1>3 DEF Doomed
  <2>2. QED
    BY <1>1, <2>1 DEF Unborn
<1>9. GitQuiet' /\ WholeReady'
  BY <1>1, <1>2, <1>3, DirectoryStep
<1>10. QED
  BY <1>5, <1>6, <1>7, <1>8, <1>9

\* A sweep that gives a leftover up touches no directory.
LEMMA SweepFailsSafe ==
    ASSUME TypeInv, Safe, NEW t \in Workers, SweepFails(t)
    PROVE  Safe'
<1> USE DEF Safe
<1>1. /\ Running(t[1]) /\ pc[t] = "sweep"
      /\ UNCHANGED <<dest, tmp, status, job, pc, git>>
  BY DEF SweepFails, At, files, queues
<1>2. /\ \A u \in Workers : victim'[u] \in {victim[u], "none"}
      /\ \A u \in Workers : victim'[u] # victim[u] => pc[u] = "sweep"
      /\ \A u \in Workers : stale'[u] \subseteq stale[u]
  <2>1. \/ victim' = [victim EXCEPT ![t] = "none"] /\ stale' = stale
        \/ \E p \in Procs : stale' = [stale EXCEPT ![t] = @ \ {p}] /\ victim' = victim
    BY DEF SweepFails
  <2>2. victim \in [Workers -> Procs \cup {"none", "moved"}] /\ stale \in [Workers -> SUBSET Procs]
    BY DEF TypeInv, TypeOK
  <2>3. CASE victim' = [victim EXCEPT ![t] = "none"] /\ stale' = stale
    BY <1>1, <2>2, <2>3
  <2>4. CASE \E p \in Procs : stale' = [stale EXCEPT ![t] = @ \ {p}] /\ victim' = victim
    BY <2>2, <2>4
  <2>5. QED
    BY <2>1, <2>3, <2>4
<1>3. JobsDistinct'
  BY <1>1 DEF JobsDistinct
<1>4. StaleDead'
  BY <1>1, <1>2 DEF StaleDead, Running
<1>5. VictimOK'
  BY <1>1, <1>2 DEF VictimOK, Running
<1>6. Unborn' /\ GitQuiet' /\ WholeReady'
  BY <1>1 DEF Unborn, GitQuiet, WholeReady, Running, Dest
<1>7. QED
  BY <1>3, <1>4, <1>5, <1>6

LEMMA CleanupStartSafe ==
    ASSUME DistinctTargets, TypeInv, Safe, NEW t \in Workers, CleanupStart(t)
    PROVE  Safe'
<1> USE DEF Safe
<1>1. /\ Running(t[1]) /\ pc[t] = "cleanup" /\ t[1] \in Procs
      /\ UNCHANGED <<dest, status, job, stale>>
  BY WorkerFacts DEF CleanupStart, At, queues
<1>2. git[t] = "none" /\ job[t] # 0 /\ victim[t] = "none"
  BY <1>1 DEF GitQuiet, VictimOK, TypeInv, JobTaken
<1>3. \/ /\ UNCHANGED <<victim, tmp, git>>
         /\ pc' = [pc EXCEPT ![t] = "unlock"]
      \/ /\ victim' = [victim EXCEPT ![t] = t[1]]
         /\ git' = Doomed(Dest(t), t[1])
         /\ \E v : tmp' = [tmp EXCEPT ![Dest(t)][t[1]] = v]
         /\ pc' = [pc EXCEPT ![t] = "cleaning"]
  BY DEF CleanupStart, StartDelete, Goto
<1>4. /\ \A u \in Workers : u # t => pc'[u] = pc[u] /\ victim'[u] = victim[u]
      /\ \/ pc'[t] = "unlock" /\ victim'[t] = "none"
         \/ pc'[t] = "cleaning" /\ victim'[t] = t[1]
  BY <1>2, <1>3 DEF TypeInv, TypeOK
<1>5. JobsDistinct'
  BY <1>1 DEF JobsDistinct
<1>6. StaleDead'
  BY <1>1 DEF StaleDead, Running
<1>7. VictimOK'
  <2>1. t[1] \notin {"none", "moved"}
    BY <1>1, ConstantsAssumption
  <2>2. QED
    BY <1>1, <1>4, <2>1 DEF VictimOK, Running
<1>8. Unborn'
  <2>1. \A u \in Workers : git[u] = "none" => git'[u] = "none"
    BY <1>3 DEF Doomed
  <2>2. QED
    BY <1>1, <1>4, <2>1 DEF Unborn, Running
<1>9. GitQuiet' /\ WholeReady'
  BY <1>1, <1>2, <1>3, <1>4, DirectoryStep
<1>10. QED
  BY <1>5, <1>6, <1>7, <1>8, <1>9

\* The end of a deletion, in a sweep or in a cleanup.
LEMMA DeleteEndSafe ==
    ASSUME DistinctTargets, TypeInv, Safe, NEW t \in Workers,
           SweepEnd(t) \/ CleanupEnd(t)
    PROVE  Safe'
<1> USE DEF Safe
<1>1. /\ Running(t[1]) /\ pc[t] \in {"sweep", "cleaning"}
      /\ UNCHANGED <<status, job, stale, git>>
      /\ victim' = [victim EXCEPT ![t] = "none"]
  BY DEF SweepEnd, CleanupEnd, EndDelete, At, queues
<1>2. git[t] = "none" /\ job[t] # 0
  BY <1>1 DEF GitQuiet, TypeInv, JobTaken
<1>3. /\ victim[t] # "moved" /\ victim[t] \in Procs
      /\ victim[t] = t[1] \/ ~Running(victim[t])
  BY <1>1, WorkerFacts DEF SweepEnd, CleanupEnd, At, VictimOK, TypeInv, TypeOK
<1>4. /\ UNCHANGED dest
      /\ tmp' = [tmp EXCEPT ![Dest(t)][victim[t]] = "absent"]
  BY <1>3 DEF SweepEnd, CleanupEnd, EndDelete
<1>5. /\ \A u \in Workers : u # t => pc'[u] = pc[u] /\ victim'[u] = victim[u]
      /\ pc'[t] \in {"sweep", "unlock"} /\ victim'[t] = "none"
  BY <1>1 DEF SweepEnd, CleanupEnd, Goto, TypeInv, TypeOK, At
<1>6. JobsDistinct'
  BY <1>1 DEF JobsDistinct
<1>7. StaleDead'
  BY <1>1 DEF StaleDead, Running
<1>8. VictimOK'
  BY <1>1, <1>5 DEF VictimOK, Running
<1>9. Unborn'
  BY <1>1, <1>5 DEF Unborn, Running
<1>10. GitQuiet' /\ WholeReady'
  BY <1>1, <1>2, <1>3, <1>4, <1>5, DirectoryStep
<1>11. QED
  BY <1>6, <1>7, <1>8, <1>9, <1>10

\* What is renamed is whole and in nobody's hands.
LEMMA RenameWhole ==
    ASSUME DistinctTargets, TypeInv, Safe, NEW t \in Workers, Rename(t)
    PROVE  /\ dest' = [dest EXCEPT ![Dest(t)] = "whole"]
           /\ UNCHANGED victim
<1> USE DEF Safe
<1>1. Running(t[1]) /\ pc[t] = "rename" /\ job[t] # 0 /\ t[1] \in Procs
  BY WorkerFacts DEF Rename, At, TypeInv, JobTaken
<1>2. tmp[Dest(t)][t[1]] = "whole"
  BY <1>1 DEF WholeReady
<1>3. \A u \in Workers : ~(victim[u] = t[1] /\ Dest(u) = Dest(t))
  <2> SUFFICES ASSUME NEW u \in Workers, victim[u] = t[1], Dest(u) = Dest(t)
               PROVE  FALSE
    OBVIOUS
  <2>1. t[1] \notin {"none", "moved"}
    BY <1>1, ConstantsAssumption
  <2>2. pc[u] = "cleaning" /\ u[1] = t[1]
    BY <1>1, <2>1 DEF VictimOK
  <2>3. job[u] # 0 /\ u # t
    BY <1>1, <2>2 DEF TypeInv, JobTaken
  <2>4. QED
    BY <1>1, <2>2, <2>3, SoleUser DEF TypeInv
<1>4. {u \in Workers : victim[u] = t[1] /\ Dest(u) = Dest(t)} = {}
  BY <1>3
<1>5. dest' = [dest EXCEPT ![Dest(t)] = "whole"]
  BY <1>2, <1>4 DEF Rename
<1>6. UNCHANGED victim
  BY <1>4 DEF Rename, TypeInv, TypeOK
<1>7. QED
  BY <1>5, <1>6

LEMMA RenameSafe ==
    ASSUME DistinctTargets, TypeInv, Safe, NEW t \in Workers, Rename(t)
    PROVE  Safe'
<1> USE DEF Safe
<1>1. /\ Running(t[1]) /\ pc[t] = "rename" /\ t[1] \in Procs
      /\ UNCHANGED <<status, job, stale, victim>>
      /\ pc' = [pc EXCEPT ![t] = "unlock"]
      /\ git' = Doomed(Dest(t), t[1])
      /\ tmp' = [tmp EXCEPT ![Dest(t)][t[1]] = "absent"]
  BY WorkerFacts, RenameWhole DEF Rename, At, Goto, queues
<1>2. git[t] = "none" /\ job[t] # 0 /\ victim[t] = "none"
  BY <1>1 DEF GitQuiet, VictimOK, TypeInv, JobTaken
<1>3. (\A u \in Workers : u # t => pc'[u] = pc[u]) /\ pc'[t] = "unlock"
  BY <1>1 DEF TypeInv, TypeOK
<1>4. JobsDistinct'
  BY <1>1 DEF JobsDistinct
<1>5. StaleDead'
  BY <1>1 DEF StaleDead, Running
<1>6. VictimOK'
  BY <1>1, <1>2, <1>3 DEF VictimOK, Running
<1>7. Unborn'
  <2>1. \A u \in Workers : git[u] = "none" => git'[u] = "none"
    BY <1>1 DEF Doomed
  <2>2. QED
    BY <1>1, <1>3, <2>1 DEF Unborn, Running
<1>8. GitQuiet' /\ WholeReady'
  BY <1>1, <1>2, <1>3, DirectoryStep
<1>9. QED
  BY <1>4, <1>5, <1>6, <1>7, <1>8

\* Spawning the git child and collecting its exit status.
LEMMA CloneReapSafe ==
    ASSUME TypeInv, Safe, NEW t \in Workers, Clone(t) \/ Reap(t)
    PROVE  Safe'
<1> USE DEF Safe
<1>1. /\ Running(t[1]) /\ pc[t] \in {"clone", "wait"}
      /\ UNCHANGED <<dest, tmp, status, job, stale, victim>>
  BY DEF Clone, Reap, At, files, queues, deleting
<1>2. /\ \A u \in Workers : u # t => pc'[u] = pc[u] /\ git'[u] = git[u]
      /\ \/ pc'[t] = "wait" /\ git'[t] = "spawned"
         \/ pc'[t] = "rename" /\ git[t] = "ok" /\ git'[t] = "none"
         \/ pc'[t] = "cleanup" /\ git'[t] = "none"
  BY DEF Clone, Reap, Goto, TypeInv, TypeOK
<1>3. victim[t] = "none"
  BY <1>1 DEF VictimOK
<1>4. \A u \in Workers : Dest(u)' = Dest(u)
  BY <1>1 DEF Dest
<1>5. JobsDistinct'
  BY <1>1 DEF JobsDistinct
<1>6. StaleDead'
  BY <1>1 DEF StaleDead, Running
<1>7. VictimOK'
  BY <1>1, <1>2, <1>3 DEF VictimOK, Running
<1>8. Unborn'
  BY <1>1, <1>2 DEF Unborn, Running
<1>9. GitQuiet'
  BY <1>1, <1>2 DEF GitQuiet, Running
<1>10. WholeReady'
  BY <1>1, <1>2, <1>4 DEF WholeReady, Running
<1>11. QED
  BY <1>5, <1>6, <1>7, <1>8, <1>9, <1>10

\* A step of a git child, whose process may be long gone.
LEMMA GitChildSafe ==
    ASSUME DistinctTargets, TypeInv, Safe, NEW t \in Workers, GitChild(t)
    PROVE  Safe'
<1> USE DEF Safe
<1>1. /\ git[t] \in {"spawned", "writing", "doomed"}
      /\ UNCHANGED <<dest, status, job, pc, stale, victim>>
  BY DEF GitChild, GitMkdir, GitSucceeds, GitFails, queues, deleting
<1>2. job[t] # 0 /\ t[1] \in Procs /\ Dest(t) \in Dests
  BY <1>1, DestType, WorkerFacts DEF TypeInv, JobTaken
<1>3. tmp' = tmp \/ \E v : tmp' = [tmp EXCEPT ![Dest(t)][t[1]] = v]
  BY DEF GitChild, GitMkdir, GitSucceeds, GitFails
<1>4. /\ git'[t] \in {"writing", "ok", "err"}
      /\ git'[t] = "ok" => tmp' = [tmp EXCEPT ![Dest(t)][t[1]] = "whole"]
      /\ \A u \in Workers : u # t =>
            git'[u] = git[u] \/ git'[u] = Doomed(Dest(t), t[1])[u]
  <2>1. Doomed(Dest(t), t[1]) \in [Workers -> {"none", "spawned", "writing",
                                             "doomed", "ok", "err"}]
    BY DEF Doomed, TypeInv, TypeOK
  <2>2. git \in [Workers -> {"none", "spawned", "writing", "doomed", "ok",
                            "err"}]
    BY DEF TypeInv, TypeOK
  <2>3. CASE GitMkdir(t)
    BY <2>2, <2>3 DEF GitMkdir
  <2>4. CASE GitSucceeds(t)
    BY <2>2, <2>4 DEF GitSucceeds
  <2>5. CASE GitFails(t)
    BY <2>1, <2>2, <2>5 DEF GitFails
  <2>6. QED
    BY <2>3, <2>4, <2>5 DEF GitChild
<1>5. \A u \in Workers : Dest(u)' = Dest(u)
  BY <1>1 DEF Dest
<1>6. \A u \in Workers : Running(u[1]) /\ u # t => git'[u] = git[u]
  BY <1>2, <1>4, GitSpared
<1>7. \A u \in Workers : Running(u[1]) /\ u # t /\ job[u] # 0 =>
          tmp'[Dest(u)][u[1]] = tmp[Dest(u)][u[1]]
  BY <1>2, <1>3, TmpSpared
<1>8. JobsDistinct'
  BY <1>1 DEF JobsDistinct
<1>9. StaleDead'
  BY <1>1 DEF StaleDead, Running
<1>10. VictimOK'
  BY <1>1 DEF VictimOK, Running
<1>11. Unborn'
  <2>1. \A u \in Workers : git[u] = "none" => git'[u] = "none"
    BY <1>1, <1>4 DEF Doomed
  <2>2. QED
    BY <1>1, <2>1 DEF Unborn
<1>12. GitQuiet'
  BY <1>1, <1>4, <1>6 DEF GitQuiet, Running
<1>13. WholeReady'
  <2> SUFFICES ASSUME NEW u \in Workers, Running(u[1]),
                      pc[u] = "rename" \/ git'[u] = "ok"
               PROVE  tmp'[Dest(u)][u[1]] = "whole"
    BY <1>1, <1>5 DEF WholeReady, Running
  <2>1. CASE u = t
    <3>1. git'[t] = "ok"
      BY <1>1, <2>1 DEF GitQuiet
    <3>2. QED
      BY <1>2, <1>4, <2>1, <3>1 DEF TypeInv, TypeOK
  <2>2. CASE u # t
    <3>1. pc[u] = "rename" \/ git[u] = "ok"
      BY <1>6, <2>2
    <3>2. job[u] # 0
      BY <3>1 DEF TypeInv, JobTaken
    <3>3. QED
      BY <1>7, <2>2, <3>1, <3>2 DEF WholeReady
  <2>3. QED
    BY <2>1, <2>2
<1>14. QED
  BY <1>8, <1>9, <1>10, <1>11, <1>12, <1>13

LEMMA NextSafe ==
    ASSUME DistinctTargets, TypeInv, Safe, [Next]_vars
    PROVE  Safe'
<1>1. ASSUME NEW p \in Procs, Launch(p) \/ Kill(p) \/ Exit(p) PROVE Safe'
  BY <1>1, LaunchSafe, DieSafe DEF Kill, Exit
<1>2. ASSUME NEW t \in Workers, Work(t) PROVE Safe'
  <2>1. CASE TempFail(t)
    BY <2>1, DieSafe, WorkerFacts DEF TempFail, At
  <2>2. CASE QuietStep(t)
    BY <2>2, QuietSafe
  <2>3. CASE Take(t) \/ Scan(t) \/ Clone(t) \/ Reap(t)
    BY <2>3, TakeSafe, ScanSafe, CloneReapSafe
  <2>4. CASE \E p \in Procs : SweepStart(t, p)
    BY <2>4, SweepStartSafe
  <2>5. CASE SweepEnd(t) \/ CleanupEnd(t)
    BY <2>5, DeleteEndSafe
  <2>6. CASE SweepFails(t) \/ CleanupStart(t) \/ Rename(t)
    BY <2>6, SweepFailsSafe, CleanupStartSafe, RenameSafe
  <2>7. QED
    BY <1>2, <2>1, <2>2, <2>3, <2>4, <2>5, <2>6 DEF Work, QuietStep
<1>3. ASSUME NEW t \in Workers, GitChild(t) PROVE Safe'
  BY <1>3, GitChildSafe
<1>4. CASE UNCHANGED vars
  BY <1>4 DEF vars, files, queues, deleting, Safe, JobsDistinct, StaleDead,
     VictimOK, Unborn, GitQuiet, WholeReady, Running, Dest
<1>5. QED
  BY <1>1, <1>2, <1>3, <1>4 DEF Next, Done

LEMMA SafeAlways ==
    ASSUME DistinctTargets
    PROVE  Spec => [](TypeInv /\ Safe)
<1>1. Init => TypeInv /\ Safe
  BY InitTypeInv, InitSafe
<1>2. TypeInv /\ Safe /\ [Next]_vars => TypeInv' /\ Safe'
  BY NextTypeInv, NextSafe
<1>3. QED
  BY <1>1, <1>2, PTL DEF Spec

\* The destinations change in one way only: a whole clone takes the place of
\* nothing, or of an empty directory.
LEMMA OnlyRenames ==
    ASSUME DistinctTargets, TypeInv, Safe, [Next]_vars, dest' # dest
    PROVE  \E t \in Workers :
             /\ Rename(t) /\ Dest(t) \in Dests
             /\ dest[Dest(t)] \in {"absent", "empty"}
             /\ dest' = [dest EXCEPT ![Dest(t)] = "whole"]
<1>1. PICK t \in Workers : Rename(t) \/ SweepEnd(t) \/ CleanupEnd(t)
  BY DEF Next, Launch, Kill, Exit, Die, Work, GitChild, Done, vars, files,
     Take, Finish, Existing, Missing, Scan, SweepStart, SweepFails, SweepDone, OpenLock,
     OpenFails, TryLock, TempFail, Clone, Reap, RenameFails, CleanupStart,
     Unlock, Unlink, GitMkdir, GitSucceeds, GitFails
<1>2. Rename(t)
  BY <1>1 DEF SweepEnd, CleanupEnd, EndDelete, At, Safe, VictimOK
<1>3. dest[Dest(t)] \in {"absent", "empty"} /\ job[t] # 0
  BY <1>2 DEF Rename, CanRename, At, TypeInv, JobTaken
<1>4. Dest(t) \in Dests
  BY <1>3, DestType DEF TypeInv
<1>5. QED
  BY <1>2, <1>3, <1>4, RenameWhole

\* Unless a -P process is given one target twice, no destination ever holds
\* part of a clone: every interleaving, every crash.
THEOREM NeverHalfCloned == DistinctTargets => (Spec => []DestNeverPartial)
<1> SUFFICES ASSUME DistinctTargets PROVE Spec => []DestNeverPartial
  OBVIOUS
<1>1. Init => DestNeverPartial
  BY DEF Init, DestNeverPartial
<1>2. TypeInv /\ Safe /\ DestNeverPartial /\ [Next]_vars => DestNeverPartial'
  BY OnlyRenames DEF DestNeverPartial, TypeInv, TypeOK
<1>3. QED
  BY SafeAlways, <1>1, <1>2, PTL DEF Spec

\* Nor is the directory of a live clone ever taken away.
THEOREM NeverDisturbed == DistinctTargets => (Spec => []LiveCloneUndisturbed)
<1> SUFFICES ASSUME DistinctTargets PROVE Spec => []LiveCloneUndisturbed
  OBVIOUS
<1>1. Safe => LiveCloneUndisturbed
  BY DEF Safe, GitQuiet, LiveCloneUndisturbed
<1>2. QED
  BY SafeAlways, <1>1, PTL

\* The whole of `get` implements the one-step clone of AtomicClone: Rename is
\* Publish, every other step leaves the destinations alone.
THEOREM ImplementsAtomicClone == DistinctTargets => (Spec => AbstractSpec)
<1> SUFFICES ASSUME DistinctTargets PROVE Spec => AbstractSpec
  OBVIOUS
<1>1. Init => Abstract!Init
  BY DEF Init, Abstract!Init, DestStates
<1>2. TypeInv /\ Safe /\ [Next]_vars => [Abstract!Next]_dest
  BY OnlyRenames DEF Abstract!Next, Abstract!Publish
<1>3. QED
  BY SafeAlways, <1>1, <1>2, PTL DEF Spec, AbstractSpec, Abstract!Spec
=============================================================================
