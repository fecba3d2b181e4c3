-------------------------- MODULE RepoOutcomeProofs --------------------------
(***************************************************************************)
(* What exit 0 of get and of create says when rm and create run beside     *)
(* get, for any number of each.                                            *)
(*                                                                         *)
(* A destination is calm while nothing has set to work on it but creates   *)
(* that are writing it or have said that they did.  There a repository     *)
(* that was begun stays one: get renames nothing over it, and whoever      *)
(* writes it has it open where it is and finishes it (CalmStep).           *)
(***************************************************************************)
EXTENDS RepoLifeProofs, GetOutcomeProofs

Calm(d) ==
    \A x \in began : Target[x] = d =>
        Kind[x] = "create" /\ (exit[x] = "ok" \/ (exit[x] = "none" /\ at[x] = "writing"))

Begun(d) == dest[d] \in {"partial", "whole"}

Assured(d) == Calm(d) => Begun(d)

\* Which commands have begun.
BeganInv ==
    /\ began \subseteq Commands
    /\ \A x \in Commands :
          /\ at[x] \in {"emptying", "rmdir", "writing"} => x \in began
          /\ x \in began /\ Kind[x] = "create" => at[x] \in {"writing", "ended"}
          /\ at[x] \in {"mkdir", "spawn", "init", "writing"} => Kind[x] = "create"
          /\ at[x] = "ended" => exit[x] # "none"

\* While d is calm: who writes there has begun and not lost it, a repository in part is being
\* written, and a create that has said so has begun one.
CalmAt(d) ==
    Calm(d) =>
        /\ \A x \in Commands : at[x] = "writing" /\ Target[x] = d => held[x] = "here" /\ Begun(d)
        /\ dest[d] = "partial" => \E x \in Commands : Target[x] = d /\ at[x] = "writing"
        /\ \A x \in Commands : Kind[x] = "create" /\ exit[x] = "ok" /\ Target[x] = d => Begun(d)

CalmInv == BeganInv /\ \A d \in Dests : CalmAt(d)

LEMMA InitCalm == LifeInit => CalmInv
BY DEF LifeInit, Init, CalmInv, BeganInv, CalmAt

-----------------------------------------------------------------------------
(* The steps of rm and create.                                             *)

CommandStepOf(x) == Proceed(x) \/ Confirm(x) \/ KillCommand(x)

\* What they change: their own place and outcome, their destination, and who holds it.
LEMMA CommandFacts ==
    ASSUME LifeInv, NEW x \in Commands, CommandStepOf(x)
    PROVE  /\ UNCHANGED getRest /\ at[x] # "ended"
           /\ \A y \in Commands \ {x} : at'[y] = at[y] /\ exit'[y] = exit[y]
           /\ \A y \in Commands : Target[y] # Target[x] => held'[y] = held[y]
           /\ \A d \in Dests \ {Target[x]} : dest'[d] = dest[d]
           /\ exit[x] # "none" => exit'[x] = exit[x]
           /\ at'[x] = "ended" => exit'[x] # "none"
<1> USE CommandsAssumption DEF Goes, Step, Become
<1>a. /\ at \in [Commands -> Stations] /\ held \in [Commands -> {"no", "here", "torn"}]
      /\ exit \in [Commands -> {"none", "ok", "failed", "killed"}]
      /\ exit[x] # "none" =>
            at[x] = "ended" \/ (exit[x] = "killed" /\ at[x] \in {"init", "writing"})
  BY DEF LifeInv, CommandsInv, CommandShapes, OutcomeIsFinal
<1>b. dest \in [Dests -> DestStates] /\ Target[x] \in Dests
  BY DEF LifeInv, TypeInv, TypeOK
<1>1. UNCHANGED getRest /\ at[x] # "ended"
  BY DEF CommandStepOf, Proceed, Confirm, KillCommand, RmCheck, RmOpen, RmEmptied, RmFails, Rmdir,
     CreateCheck, Mkdir, Spawn, InitStart, InitEnd, InitFails, get, getRest, files
<1> DEFINE Mild == /\ \A y \in Commands \ {x} : at'[y] = at[y] /\ exit'[y] = exit[y]
                   /\ \A y \in Commands : Target[y] # Target[x] => held'[y] = held[y]
                   /\ exit[x] # "none" => exit'[x] = exit[x]
                   /\ at'[x] = "ended" => exit'[x] # "none"
<1>2. ASSUME NEW how \in {"ok", "failed", "killed"}, Leave(x, how) PROVE Mild
  BY <1>a, <1>1, <1>2 DEF Leave
<1>3. ASSUME NEW l \in Stations \ {"ended"}, Step(x, l) PROVE Mild
  BY <1>a, <1>3
<1>4. CASE RmCheck(x) \/ Confirm(x) \/ RmFails(x) \/ CreateCheck(x) \/ InitFails(x)
  <2>1. Mild
    BY <1>2, <1>3, <1>4 DEF RmCheck, Confirm, RmFails, CreateCheck, InitFails, Stations
  <2>2. UNCHANGED dest
    BY <1>4 DEF RmCheck, Confirm, RmFails, CreateCheck, InitFails, get, files
  <2>3. QED
    BY <1>1, <2>1, <2>2
<1>5. CASE KillCommand(x)
  <2>1. Mild
    BY <1>a, <1>2, <1>5 DEF KillCommand
  <2>2. UNCHANGED dest
    BY <1>5 DEF KillCommand, get, files
  <2>3. QED
    BY <1>1, <2>1, <2>2
<1>6. CASE RmOpen(x) /\ In(x) # "absent"
  BY <1>a, <1>b, <1>1, <1>6 DEF RmOpen, Torn, Writers
<1>7. CASE RmOpen(x) /\ In(x) = "absent"
  BY <1>1, <1>2, <1>7 DEF RmOpen
<1>8. CASE RmEmptied(x)
  BY <1>a, <1>b, <1>1, <1>8 DEF RmEmptied, Torn, Writers
<1>9. CASE Rmdir(x)
  BY <1>a, <1>b, <1>1, <1>9 DEF Rmdir
<1>10. CASE Mkdir(x)
  BY <1>b, <1>1, <1>2, <1>3, <1>10 DEF Mkdir, Stations
<1>11. CASE Spawn(x)
  BY <1>a, <1>1, <1>2, <1>11 DEF Spawn, get, files
<1>12. CASE InitStart(x)
  BY <1>a, <1>b, <1>1, <1>2, <1>12 DEF InitStart
<1>13. CASE InitEnd(x)
  BY <1>b, <1>1, <1>2, <1>13 DEF InitEnd
<1>14. QED
  BY <1>4, <1>5, <1>6, <1>7, <1>8, <1>9, <1>10, <1>11, <1>12, <1>13 DEF CommandStepOf, Proceed

\* Which of them begin.
LEMMA BeganStep ==
    ASSUME LifeInv, BeganInv, NEW x \in Commands, CommandStepOf(x)
    PROVE  BeganInv' /\ began \subseteq began'
<1> USE DEF Goes, Step, Become
<1>a. /\ at \in [Commands -> Stations] /\ OnlyRmRemoves
      /\ at[x] \in {"emptying", "rmdir", "writing"} => x \in began
      /\ x \in began /\ Kind[x] = "create" => at[x] \in {"writing", "ended"}
      /\ at[x] \in {"mkdir", "spawn", "init", "writing"} => Kind[x] = "create"
  BY DEF LifeInv, CommandsInv, CommandShapes, BeganInv
<1>b. /\ \A y \in Commands \ {x} : at'[y] = at[y] /\ exit'[y] = exit[y]
      /\ at'[x] = "ended" => exit'[x] # "none"
  BY CommandFacts
<1> DEFINE Mild == /\ began' = began \/ began' = began \cup {x}
                   /\ at'[x] \in {"emptying", "rmdir", "writing"} => x \in began'
                   /\ x \in began' /\ Kind[x] = "create" => at'[x] \in {"writing", "ended"}
                   /\ at'[x] \in {"mkdir", "spawn", "init", "writing"} => Kind[x] = "create"
<1>1. ASSUME NEW how, Leave(x, how) PROVE Mild
  BY <1>a, <1>1 DEF Leave
<1>2. ASSUME RmCheck(x) \/ Confirm(x) \/ RmFails(x) \/ CreateCheck(x) \/ InitFails(x) PROVE Mild
  BY <1>a, <1>1, <1>2 DEF RmCheck, Confirm, RmFails, CreateCheck, InitFails
<1>3. ASSUME KillCommand(x) PROVE Mild
  BY <1>a, <1>1, <1>3 DEF KillCommand
<1>4. ASSUME RmOpen(x) PROVE Mild
  BY <1>a, <1>1, <1>4 DEF RmOpen, OnlyRmRemoves
<1>5. ASSUME RmEmptied(x) \/ Rmdir(x) PROVE Mild
  BY <1>a, <1>5 DEF RmEmptied, Rmdir, OnlyRmRemoves
<1>6. ASSUME Mkdir(x) \/ Spawn(x) \/ InitEnd(x) PROVE Mild
  BY <1>a, <1>1, <1>6 DEF Mkdir, Spawn, InitEnd
<1>7. ASSUME InitStart(x) PROVE Mild
  BY <1>a, <1>1, <1>7 DEF InitStart
<1>8. Mild
  BY <1>2, <1>3, <1>4, <1>5, <1>6, <1>7 DEF CommandStepOf, Proceed
<1>9. QED
  BY <1>b, <1>8 DEF BeganInv

\* What is calm was calm.
LEMMA CalmBefore ==
    ASSUME LifeInv, BeganInv, NEW x \in Commands, CommandStepOf(x), NEW d, Calm(d)'
    PROVE  Calm(d)
<1> SUFFICES ASSUME NEW y \in began, Target[y] = d
             PROVE  Kind[y] = "create" /\ (exit[y] = "ok" \/ (exit[y] = "none" /\ at[y] = "writing"))
  BY DEF Calm
<1>1. y \in began' /\ y \in Commands
  BY BeganStep DEF BeganInv
<1>2. Kind[y] = "create" /\ (exit'[y] = "ok" \/ (exit'[y] = "none" /\ at'[y] = "writing"))
  BY <1>1 DEF Calm
<1>3. at[y] \in {"writing", "ended"} /\ (at[y] = "ended" => exit[y] # "none")
  BY <1>1, <1>2 DEF BeganInv
<1>4. CASE y = x
  BY <1>2, <1>3, <1>4, CommandFacts
<1>5. CASE y # x
  BY <1>1, <1>2, <1>5, CommandFacts
<1>6. QED
  BY <1>4, <1>5

\* The rm that works on a destination disturbs it, and so does the create that fails after it
\* has begun.
LEMMA Disturbs ==
    ASSUME LifeInv, BeganInv, NEW x \in Commands, CommandStepOf(x), Calm(Target[x])'
    PROVE  /\ ~(RmOpen(x) /\ In(x) # "absent") /\ ~RmEmptied(x) /\ ~RmFails(x) /\ ~Rmdir(x)
           /\ at[x] = "writing" => InitEnd(x)
<1>1. x \in began' => Kind[x] = "create" /\ (exit'[x] = "ok" \/ (exit'[x] = "none" /\ at'[x] = "writing"))
  BY DEF Calm
<1>2. began \subseteq began' /\ OnlyRmRemoves /\ exit \in [Commands -> {"none", "ok", "failed", "killed"}]
  BY BeganStep DEF LifeInv, CommandsInv, CommandShapes
<1>3. ~(RmOpen(x) /\ In(x) # "absent")
  BY <1>1, <1>2 DEF RmOpen, OnlyRmRemoves
<1>4. ~RmEmptied(x) /\ ~RmFails(x) /\ ~Rmdir(x)
  BY <1>1, <1>2 DEF RmEmptied, RmFails, Rmdir, OnlyRmRemoves, BeganInv
<1>5. ASSUME at[x] = "writing" PROVE InitEnd(x)
  <2>1. x \in began'
    BY <1>2, <1>5 DEF BeganInv
  <2>2. ~InitFails(x)
    BY <1>1, <1>2, <2>1 DEF InitFails, Leave, Goes
  <2>3. ~KillCommand(x)
    BY <1>1, <1>2, <1>5, <2>1 DEF KillCommand
  <2>4. QED
    BY <1>5, <2>2, <2>3 DEF CommandStepOf, Proceed, Confirm, RmCheck, RmOpen, RmEmptied, RmFails, Rmdir,
       CreateCheck, Mkdir, Spawn, InitStart
<1>6. QED
  BY <1>3, <1>4, <1>5

\* A step at a calm destination: git init starts, or ends, or else nothing much happens.
LEMMA CalmStep ==
    ASSUME LifeInv, CalmInv, NEW x \in Commands, CommandStepOf(x), NEW d \in Dests, Calm(d)'
    PROVE  CalmAt(d)' /\ (Begun(d) => Begun(d)')
<1> USE CommandsAssumption DEF Goes, Step, Become, In, Begun
<1>a. /\ BeganInv /\ CalmAt(d) /\ Calm(d)
  BY CalmBefore DEF CalmInv
<1>b. /\ at \in [Commands -> Stations] /\ held \in [Commands -> {"no", "here", "torn"}]
      /\ exit \in [Commands -> {"none", "ok", "failed", "killed"}]
      /\ dest \in [Dests -> DestStates]
  BY DEF LifeInv, CommandsInv, CommandShapes, TypeInv, TypeOK
<1>c. /\ \A y \in Commands \ {x} : at'[y] = at[y] /\ exit'[y] = exit[y]
      /\ \A y \in Commands : Target[y] # Target[x] => held'[y] = held[y]
      /\ \A e \in Dests \ {Target[x]} : dest'[e] = dest[e]
  BY CommandFacts
<1>1. CASE Target[x] # d
  BY <1>a, <1>c, <1>1 DEF CalmAt
<1>2. CASE Target[x] = d
  <2>1. /\ ~(RmOpen(x) /\ In(x) # "absent") /\ ~RmEmptied(x) /\ ~RmFails(x) /\ ~Rmdir(x)
        /\ at[x] = "writing" => InitEnd(x)
    BY <1>a, <1>2, Disturbs
  <2>2. ASSUME UNCHANGED dest \/ (dest[d] = "absent" /\ dest'[d] # "partial"),
               \A y \in Commands : y # x => held'[y] = held[y],
               at[x] # "writing", at'[x] # "writing",
               Kind[x] = "create" => exit'[x] # "ok" \/ exit[x] = "ok"
        PROVE  CalmAt(d)' /\ (Begun(d) => Begun(d)')
    BY <1>a, <1>b, <1>c, <1>2, <2>2 DEF CalmAt
  <2>3. CASE InitStart(x) /\ held[x] # "no"
    <3>1. /\ at[x] = "init" /\ at' = [at EXCEPT ![x] = "writing"] /\ UNCHANGED <<held, exit>>
          /\ \/ UNCHANGED dest /\ dest[d] = "whole"
             \/ dest' = [dest EXCEPT ![d] = "partial"]
      BY <1>2, <2>3 DEF InitStart
    <3>2. held[x] = "here"
      BY <1>b, <2>3, <3>1 DEF LifeInv, CommandsInv, TornAnswered
    <3>3. Begun(d)' /\ at'[x] = "writing"
      BY <1>b, <3>1
    <3>4. CalmAt(d)'
      BY <1>a, <1>b, <1>c, <1>2, <3>1, <3>2, <3>3 DEF CalmAt
    <3>5. QED
      BY <3>3, <3>4
  <2>4. CASE InitEnd(x)
    <3>1. held[x] = "here" /\ at[x] = "writing"
      BY <1>a, <1>2, <2>4 DEF CalmAt, InitEnd
    <3>2. /\ dest' = [dest EXCEPT ![d] = "whole"] /\ at' = [at EXCEPT ![x] = "ended"]
          /\ \A y \in Commands : y # x => held'[y] = held[y]
      BY <1>b, <1>2, <2>4, <3>1 DEF InitEnd, Leave
    <3>3. QED
      BY <1>a, <1>b, <1>c, <1>2, <3>1, <3>2 DEF CalmAt
  <2>5. ASSUME UNCHANGED dest \/ (dest[d] = "absent" /\ dest'[d] # "partial"), at[x] # "writing",
               \/ \E l \in Stations : Step(x, l) /\ l # "writing"
               \/ \E how \in {"failed", "killed"} : Leave(x, how)
               \/ Leave(x, "ok") /\ Kind[x] = "rm"
        PROVE  CalmAt(d)' /\ (Begun(d) => Begun(d)')
    <3>1. \A y \in Commands : y # x => held'[y] = held[y]
      BY <1>b, <2>5 DEF Leave
    <3>2. at'[x] # "writing"
      BY <1>b, <2>5 DEF Leave
    <3>3. Kind[x] = "create" => exit'[x] # "ok" \/ exit[x] = "ok"
      BY <1>b, <2>5 DEF Leave
    <3>4. QED
      BY <2>2, <2>5, <3>1, <3>2, <3>3
  <2>6. CASE KillCommand(x)
    <3>1. UNCHANGED dest
      BY <2>6 DEF KillCommand, get, files
    <3>2. at[x] # "writing"
      BY <1>b, <2>1, <2>6 DEF KillCommand, InitEnd, Leave
    <3>3. CASE at[x] = "init"
      BY <1>b, <2>2, <2>6, <3>1, <3>3 DEF KillCommand
    <3>4. QED
      BY <2>5, <2>6, <3>1, <3>2, <3>3 DEF KillCommand
  <2>7. CASE Mkdir(x)
    BY <1>b, <1>2, <2>5, <2>7 DEF Mkdir, Stations
  <2>8. CASE Spawn(x)
    <3>1. UNCHANGED dest /\ at[x] = "spawn"
      BY <2>8 DEF Spawn, get, files
    <3>2. CASE Leave(x, "failed")
      BY <2>5, <3>1, <3>2
    <3>3. CASE held' = [held EXCEPT ![x] = "here"] /\ Goes(x, "init") /\ UNCHANGED <<exit, began>>
      BY <1>b, <2>2, <3>1, <3>3
    <3>4. QED
      BY <2>8, <3>2, <3>3 DEF Spawn
  <2>9. CASE RmCheck(x) \/ Confirm(x) \/ CreateCheck(x)
    <3>1. UNCHANGED dest /\ at[x] # "writing"
      BY <2>9 DEF RmCheck, Confirm, CreateCheck, get, files
    <3>2. QED
      BY <2>5, <2>9, <3>1 DEF RmCheck, Confirm, CreateCheck, Stations
  <2>10. CASE InitFails(x) \/ (RmOpen(x) /\ In(x) = "absent") \/ (InitStart(x) /\ held[x] = "no")
    <3>1. UNCHANGED dest /\ Leave(x, "failed")
      BY <2>10 DEF InitFails, RmOpen, InitStart, get, files
    <3>2. at[x] # "writing"
      <4>1. CASE InitFails(x) /\ at[x] = "writing"
        <5>1. InitEnd(x) /\ x \in began
          BY <1>a, <2>1, <4>1 DEF BeganInv
        <5>2. exit[x] = "none" /\ at[x] = "writing"
          BY <1>a, <1>2, <1>b, <4>1, <5>1 DEF Calm, LifeInv, CommandsInv, OutcomeIsFinal
        <5>3. QED
          BY <1>a, <1>2, <1>b, <3>1, <5>1, <5>2 DEF CalmAt, InitEnd, Leave
      <4>2. QED
        BY <2>10, <4>1 DEF RmOpen, InitStart
    <3>3. QED
      BY <2>5, <3>1, <3>2
  <2>11. QED
    BY <2>1, <2>3, <2>4, <2>6, <2>7, <2>8, <2>9, <2>10 DEF CommandStepOf, Proceed
<1>3. QED
  BY <1>1, <1>2

-----------------------------------------------------------------------------
(* The steps of get, and all steps.                                        *)

\* get renames a clone over nothing that was begun.
LEMMA GetCalm ==
    ASSUME DistinctTargets, LifeInv, CalmInv, GetRuns
    PROVE  CalmInv' /\ \A d \in Dests : Assured(d) => Assured(d)'
<1> USE CommandsAssumption DEF LifeInv, Begun
<1>1. Next /\ Beside
  BY DEF GetRuns, Next
<1>2. \A d \in Dests : dest'[d] # dest[d] => dest'[d] = "whole"
  BY <1>1, OnlyRenames DEF TypeInv, TypeOK
<1>3. \A d \in Dests : Replaces(d) => ~Begun(d)
  BY DEF Replaces, Rename, CanRename
<1>4. /\ UNCHANGED <<at, exit, began>>
      /\ held' = [x \in Commands |-> IF Replaces(Target[x]) THEN "no" ELSE held[x]]
  BY <1>1 DEF Beside
<1>5. BeganInv' /\ \A d \in Dests : Calm(d)' <=> Calm(d)
  BY <1>4 DEF CalmInv, BeganInv, Calm
<1>6. \A d \in Dests : Begun(d) => Begun(d)'
  BY <1>2
<1>7. \A d \in Dests : CalmAt(d)'
  <2> SUFFICES ASSUME NEW d \in Dests, Calm(d) PROVE CalmAt(d)'
    BY <1>5 DEF CalmAt
  <2>1. CalmAt(d)
    BY DEF CalmInv
  <2>2. \A x \in Commands : at[x] = "writing" /\ Target[x] = d => held'[x] = "here"
    BY <1>3, <1>4, <2>1 DEF CalmAt
  <2>3. dest'[d] = "partial" => dest[d] = "partial"
    BY <1>2
  <2>4. QED
    BY <1>4, <1>6, <2>1, <2>2, <2>3 DEF CalmAt
<1>8. QED
  BY <1>5, <1>6, <1>7 DEF CalmInv, Assured

LEMMA CommandCalm ==
    ASSUME LifeInv, CalmInv, NEW x \in Commands, CommandStepOf(x)
    PROVE  CalmInv' /\ \A d \in Dests : Assured(d) => Assured(d)'
<1>1. BeganInv'
  BY BeganStep DEF CalmInv
<1>2. \A d \in Dests : CalmAt(d)'
  BY CalmStep DEF CalmAt
<1>3. \A d \in Dests : Calm(d)' => Calm(d)
  BY CalmBefore DEF CalmInv
<1>4. \A d \in Dests : Assured(d) => Assured(d)'
  BY <1>3, CalmStep DEF Assured
<1>5. QED
  BY <1>1, <1>2, <1>4 DEF CalmInv

LEMMA NextCalm ==
    ASSUME DistinctTargets, LifeInv, CalmInv, [LifeNext]_lifeVars
    PROVE  CalmInv' /\ \A d \in Dests : Assured(d) => Assured(d)'
<1>1. CASE UNCHANGED lifeVars
  <2>1. UNCHANGED <<dest, at, held, exit, began>>
    BY <1>1 DEF lifeVars, commands, vars, files
  <2>2. QED
    BY <2>1 DEF CalmInv, BeganInv, CalmAt, Assured, Calm, Begun
<1>2. QED
  BY <1>1, GetCalm, CommandCalm DEF LifeNext, CommandStepOf

-----------------------------------------------------------------------------
(* A sequential get has left no destination behind it that is calm and     *)
(* empty, but for the one it is on.                                        *)

LEMMA LifeMoves ==
    ASSUME DistinctTargets, LifeInv, [LifeNext]_lifeVars, NEW t \in Workers, ~Parallel[t[1]]
    PROVE  Moves(t)
<1>1. CASE GetRuns
  BY <1>1, NextMoves DEF GetRuns, Next, LifeInv
<1>2. CASE ~GetRuns
  <2>1. UNCHANGED getRest
    BY <1>2, CommandFacts DEF LifeNext, CommandStepOf, getRest, lifeVars, vars, files
  <2>2. QED
    BY <2>1 DEF getRest, queues, Moves, Rests
<1>3. QED
  BY <1>1, <1>2

AssuredBehind(t) ==
    status[t[1]] \in {"unborn", "running", "ok"} =>
        \A i \in 1 .. next[t[1]] - 1 :
            Assured(Targets[t[1]][i]) \/ (Busy(t) /\ i = job[t])

AssuredResult(t) ==
    Running(t[1]) =>
        /\ pc[t] \in {"unlock", "unlink"} /\ result[t] = "ok" => Assured(Dest(t))
        /\ pc[t] \in {"cleanup", "cleaning"} => result[t] = "err"

HonestBeside(t) == AssuredBehind(t) /\ NoneLeft(t) /\ AssuredResult(t)

ThereInv == CalmInv /\ \A t \in Workers : ~Parallel[t[1]] => HonestBeside(t)

LEMMA HonestBesideStays ==
    ASSUME LifeInv, NEW t \in Workers, HonestBeside(t), Moves(t),
           \A d \in Dests : Assured(d) => Assured(d)'
    PROVE  HonestBeside(t)'
<1> USE DEF Running
<1>1. /\ TypeOK /\ t[1] \in Procs /\ next[t[1]] \in Nat /\ job[t] \in Nat
      /\ Busy(t) => Dest(t) \in Dests
  BY WorkerFacts, DestType DEF LifeInv, TypeInv, TypeOK, JobTaken, Busy
<1>2. \A i \in 1 .. next[t[1]] - 1 : Targets[t[1]][i] \in Dests
  BY <1>1, TakenType
<1>3. NoneLeft(t)'
  BY <1>1, NoneLeftStays DEF HonestBeside
<1>4. CASE Rests(t)
  <2>1. AssuredBehind(t)'
    BY <1>2, <1>4 DEF HonestBeside, AssuredBehind, Busy, Rests
  <2>2. AssuredResult(t)'
    BY <1>1, <1>4 DEF HonestBeside, AssuredResult, Rests, Dest, Busy
  <2>3. QED
    BY <1>3, <2>1, <2>2 DEF HonestBeside
<1>5. CASE Stops(t)
  BY <1>3, <1>5 DEF HonestBeside, AssuredBehind, AssuredResult, Stops
<1>6. CASE Starts(t) \/ Leaves(t) \/ Exits(t)
  <2>1. AssuredBehind(t)'
    BY <1>2, <1>6 DEF HonestBeside, AssuredBehind, Busy, Starts, Leaves, Exits
  <2>2. AssuredResult(t)'
    BY <1>6 DEF AssuredResult, Starts, Leaves, Exits
  <2>3. QED
    BY <1>3, <2>1, <2>2 DEF HonestBeside
<1>7. CASE Takes(t)
  <2>1. AssuredBehind(t)'
    BY <1>1, <1>2, <1>7 DEF HonestBeside, AssuredBehind, Busy, Takes
  <2>2. AssuredResult(t)'
    BY <1>7 DEF AssuredResult, Takes
  <2>3. QED
    BY <1>3, <2>1, <2>2 DEF HonestBeside
<1>8. CASE GoesOn(t)
  <2>1. UNCHANGED Dest(t) /\ Dest(t) \in Dests
    BY <1>1, <1>8 DEF GoesOn, Dest
  <2>2. AssuredBehind(t)'
    BY <1>2, <1>8 DEF HonestBeside, AssuredBehind, GoesOn
  <2>3. dest'[Dest(t)] = "whole" => Assured(Dest(t))'
    BY <2>1 DEF Assured, Begun
  <2>4. AssuredResult(t)'
    <3>1. pc'[t] \in {"unlock", "unlink"} /\ result'[t] = "ok" => Assured(Dest(t))'
      BY <1>8, <2>1, <2>3 DEF HonestBeside, AssuredResult, GoesOn, Busy
    <3>2. pc'[t] \in {"cleanup", "cleaning"} => result'[t] = "err"
      BY <1>8 DEF HonestBeside, AssuredResult, GoesOn, Busy
    <3>3. QED
      BY <2>1, <3>1, <3>2 DEF AssuredResult
  <2>5. QED
    BY <1>3, <2>2, <2>4 DEF HonestBeside
<1>9. CASE Returns(t)
  <2>1. Assured(Dest(t))
    BY <1>9 DEF Returns, LooksLikeRepo, HonestBeside, AssuredResult, Assured, Begun, Busy
  <2>2. \A i \in 1 .. next[t[1]] - 1 : Assured(Targets[t[1]][i])
    BY <1>9, <2>1 DEF HonestBeside, AssuredBehind, Returns, Busy, Dest
  <2>3. AssuredBehind(t)'
    BY <1>2, <1>9, <2>2 DEF AssuredBehind, Returns
  <2>4. AssuredResult(t)'
    BY <1>9 DEF AssuredResult, Returns
  <2>5. QED
    BY <1>3, <2>3, <2>4 DEF HonestBeside
<1>10. QED
  BY <1>4, <1>5, <1>6, <1>7, <1>8, <1>9 DEF Moves

\* What exit 0 says holds once nothing runs any more: no create is left to finish the repository.
LEMMA ThereAtTheEnd == LifeInv /\ ThereInv => OkMeansThere
<1> SUFFICES ASSUME LifeInv, ThereInv, AllOver, NEW d \in Dests,
                    \/ \E x \in Commands : Target[x] = d /\ Kind[x] = "create" /\ exit[x] = "ok"
                    \/ \E p \in Procs : /\ status[p] = "ok" /\ ~Parallel[p]
                                        /\ \E i \in DOMAIN Targets[p] : Targets[p][i] = d,
                    \A x \in began : Target[x] = d => Kind[x] = "create" /\ exit[x] = "ok"
             PROVE  dest[d] = "whole"
  BY DEF OkMeansThere
<1>1. Calm(d) /\ CalmAt(d)
  BY DEF Calm, ThereInv, CalmInv
<1>2. Begun(d)
  <2>1. CASE \E x \in Commands : Target[x] = d /\ Kind[x] = "create" /\ exit[x] = "ok"
    BY <1>1, <2>1 DEF CalmAt
  <2>2. ASSUME NEW p \in Procs, status[p] = "ok", ~Parallel[p],
               \E i \in DOMAIN Targets[p] : Targets[p][i] = d
        PROVE  Begun(d)
    <3>1. <<p, 1>> \in Workers /\ <<p, 1>>[1] = p
      BY HasWorker
    <3>2. HonestBeside(<<p, 1>>)
      BY <2>2, <3>1 DEF ThereInv
    <3>3. PICK i \in 1 .. Len(Targets[p]) : Targets[p][i] = d
      BY <2>2, ConstantsAssumption
    <3>4. i \in 1 .. next[p] - 1
      BY <2>2, <3>1, <3>2, ConstantsAssumption
         DEF HonestBeside, NoneLeft, LifeInv, TypeInv, TypeOK
    <3>5. Assured(d)
      BY <2>2, <3>1, <3>2, <3>3, <3>4 DEF HonestBeside, AssuredBehind, Busy, Running
    <3>6. QED
      BY <1>1, <3>5 DEF Assured
  <2>3. QED
    BY <2>1, <2>2
<1>3. dest[d] # "partial"
  BY <1>1 DEF CalmAt, AllOver
<1>4. QED
  BY <1>2, <1>3 DEF Begun

\* A sequential get or a create that exits 0 leaves a repository at its destination, although both
\* look at it long before they fill it and get takes anything with a `.git` for one, and whatever
\* other runs of get, rm and create do meanwhile; unless an rm set to work on that destination or
\* a git init failed there half way (get.rs:283-300, create.rs:26-32, rm.rs:24-40).
THEOREM OkIsThere == DistinctTargets => (LifeSpec => []OkMeansThere)
<1> SUFFICES ASSUME DistinctTargets PROVE LifeSpec => []OkMeansThere
  OBVIOUS
<1>1. LifeInit => ThereInv
  <2>1. \A t \in Workers : t[1] \in Procs
    BY WorkerFacts
  <2>2. QED
    BY <2>1, InitCalm
       DEF LifeInit, Init, ThereInv, HonestBeside, AssuredBehind, NoneLeft, AssuredResult, Running
<1>2. LifeInv /\ ThereInv /\ [LifeNext]_lifeVars => ThereInv'
  BY NextCalm, LifeMoves, HonestBesideStays DEF ThereInv
<1>3. QED
  BY LifeInvariance, ThereAtTheEnd, <1>1, <1>2, PTL DEF LifeSpec
=============================================================================
