--------------------------- MODULE RepoLifeProofs ---------------------------
(***************************************************************************)
(* Proofs about rm and create beside get, for any number of each.          *)
(***************************************************************************)
EXTENDS RepoLife, GetCloneProofs

Stations == {"check", "ask", "remove", "emptying", "rmdir",
             "mkdir", "spawn", "init", "writing", "ended"}

CommandShapes ==
    /\ at \in [Commands -> Stations]
    /\ held \in [Commands -> {"no", "here", "torn"}]
    /\ exit \in [Commands -> {"none", "ok", "failed", "killed"}]

\* Only an rm removes.
OnlyRmRemoves ==
    \A x \in Commands : at[x] \in {"ask", "remove", "emptying", "rmdir"} => Kind[x] = "rm"

\* A command that has an outcome is over, but for the git of a killed create.
OutcomeIsFinal ==
    \A x \in Commands : exit[x] # "none" =>
        at[x] = "ended" \/ (exit[x] = "killed" /\ at[x] \in {"init", "writing"})

\* Nobody holds a directory at a destination where there is none.
NoneHeld == \A x \in Commands : dest[Target[x]] = "absent" => held[x] = "no"

\* x has reported what it did, or will not end well while anything is left.
Answers(x) == exit[x] \in {"failed", "killed"} \/ at[x] \in {"emptying", "rmdir"}
Writes(x)  == at[x] = "writing" /\ held[x] = "here"

\* Who tears a directory answers for it.
TornAnswered ==
    \A x \in Commands : held[x] = "torn" =>
        at[x] = "writing" /\ \E y \in Commands : Target[y] = Target[x] /\ Answers(y)

\* Part of a repository has somebody at work on it, or somebody to answer for it.
PartialAnswered ==
    \A d \in Dests : dest[d] = "partial" =>
        \E y \in Commands : Target[y] = d /\ (Answers(y) \/ Writes(y))

CommandsInv ==
    /\ CommandShapes /\ OnlyRmRemoves /\ OutcomeIsFinal
    /\ NoneHeld /\ TornAnswered /\ PartialAnswered

LifeInv == TypeInv /\ Safe /\ CommandsInv

LEMMA InitLifeInv == LifeInit => LifeInv
<1> SUFFICES ASSUME LifeInit PROVE LifeInv
  OBVIOUS
<1>1. TypeInv /\ Safe
  BY InitTypeInv, InitSafe DEF LifeInit
<1>2. CommandsInv
  BY DEF LifeInit, Init, CommandsInv, CommandShapes, Stations, OnlyRmRemoves, OutcomeIsFinal,
     NoneHeld, TornAnswered, PartialAnswered
<1>3. QED
  BY <1>1, <1>2 DEF LifeInv

-----------------------------------------------------------------------------
(* The steps of get.                                                       *)

LEMMA GetStep == DistinctTargets /\ LifeInv /\ GetRuns => LifeInv'
<1> SUFFICES ASSUME DistinctTargets, LifeInv, GetRuns PROVE LifeInv'
  OBVIOUS
<1> USE DEF LifeInv
<1>1. Next /\ Beside
  BY DEF GetRuns, Next
<1>2. TypeInv' /\ Safe'
  BY <1>1, NextTypeInv, NextSafe
<1>3. \A d \in Dests : dest'[d] # dest[d] => dest'[d] = "whole"
  BY <1>1, OnlyRenames DEF TypeInv, TypeOK
<1>4. \A d \in Dests : Replaces(d) => dest'[d] = "whole"
  BY RenameWhole DEF Replaces, TypeInv, TypeOK
<1>5. /\ UNCHANGED <<at, exit>>
      /\ held' = [x \in Commands |-> IF Replaces(Target[x]) THEN "no" ELSE held[x]]
  BY <1>1 DEF Beside
<1>6. \A x \in Commands : Target[x] \in Dests
  BY CommandsAssumption
<1> USE DEF CommandsInv
<1>7. CommandShapes' /\ OnlyRmRemoves' /\ OutcomeIsFinal'
  BY <1>5 DEF CommandShapes, OnlyRmRemoves, OutcomeIsFinal
<1>8. NoneHeld'
  BY <1>3, <1>5, <1>6 DEF NoneHeld
<1>9. TornAnswered'
  BY <1>5 DEF TornAnswered, Answers
<1>10. PartialAnswered'
  <2> SUFFICES ASSUME NEW d \in Dests, dest'[d] = "partial"
               PROVE  \E y \in Commands : Target[y] = d /\ (Answers(y)' \/ Writes(y)')
    BY DEF PartialAnswered
  <2>1. dest[d] = "partial" /\ ~Replaces(d)
    BY <1>3, <1>4
  <2>2. QED
    BY <1>5, <2>1 DEF PartialAnswered, Answers, Writes
<1>11. QED
  BY <1>2, <1>7, <1>8, <1>9, <1>10

-----------------------------------------------------------------------------
(* The steps of rm and create.                                             *)

LEMMA GetUntouched ==
    ASSUME TypeInv, Safe, UNCHANGED getRest, dest' \in [Dests -> DestStates]
    PROVE  TypeInv' /\ Safe'
<1> USE DEF getRest, queues, deleting
<1>1. TypeInv'
  BY DEF TypeInv, TypeOK, JobTaken
<1>2. Safe'
  BY DEF Safe, JobsDistinct, StaleDead, VictimOK, Unborn, GitQuiet, WholeReady, Running, Dest
<1>3. QED
  BY <1>1, <1>2

\* A step of x that leaves the destinations alone, and by which nobody loses
\* the one who answers.
Quiet(x) ==
    /\ UNCHANGED dest
    /\ \A y \in Commands : y # x => at'[y] = at[y] /\ held'[y] = held[y] /\ exit'[y] = exit[y]
    /\ at[x] # "writing" \/ Answers(x)' \/ at'[x] = "writing" \/ held[x] # "here"
    /\ held'[x] \in {"no", held[x]}
    /\ at[x] = "writing" /\ at'[x] # "writing" => held'[x] = "no"
    /\ at[x] = "writing" /\ at'[x] = "writing" => held'[x] = held[x]
    /\ at'[x] \in {"ask", "remove", "emptying", "rmdir"} => Kind[x] = "rm"
    /\ exit'[x] # "none" => at'[x] = "ended" \/ (exit'[x] = "killed" /\ at'[x] \in {"init", "writing"})
    /\ Answers(x) => Answers(x)'

LEMMA QuietKeeps ==
    ASSUME CommandsInv, NEW x \in Commands, Quiet(x), CommandShapes'
    PROVE  CommandsInv'
<1> USE DEF CommandsInv, Quiet
<1>1. OnlyRmRemoves' /\ OutcomeIsFinal'
  BY DEF OnlyRmRemoves, OutcomeIsFinal
<1>2. NoneHeld'
  BY DEF NoneHeld
<1>3. \A y \in Commands : Answers(y) => Answers(y)'
  BY DEF Answers
<1>4. TornAnswered'
  BY <1>3 DEF TornAnswered
<1>5. \A y \in Commands : Writes(y) => Writes(y)' \/ Answers(y)'
  BY DEF Writes, Answers
<1>6. PartialAnswered'
  BY <1>3, <1>5 DEF PartialAnswered
<1>7. QED
  BY <1>1, <1>2, <1>4, <1>6

\* Where x goes and how it leaves, in a form that needs no unfolding.
LEMMA LeaveFacts ==
    ASSUME CommandShapes, NEW x \in Commands, NEW how \in {"ok", "failed", "killed"}, Leave(x, how)
    PROVE  /\ at' = [at EXCEPT ![x] = "ended"]
           /\ held' = [held EXCEPT ![x] = "no"]
           /\ exit' = [exit EXCEPT ![x] = IF exit[x] = "killed" THEN "killed" ELSE how]
           /\ CommandShapes'
BY DEF Leave, Goes, CommandShapes, Stations

LEMMA LeaveQuietly ==
    ASSUME CommandsInv, NEW x \in Commands, NEW how \in {"ok", "failed", "killed"}, Leave(x, how),
           at[x] # "ended", how = "ok" => ~Writes(x) /\ at[x] \notin {"emptying", "rmdir"},
           UNCHANGED dest
    PROVE  CommandsInv'
<1>1. Quiet(x) /\ CommandShapes'
  BY LeaveFacts DEF CommandsInv, CommandShapes, OutcomeIsFinal, Quiet, Answers, Writes
<1>2. QED
  BY <1>1, QuietKeeps

LEMMA StepQuietly ==
    ASSUME CommandsInv, NEW x \in Commands, NEW l \in Stations, Step(x, l), UNCHANGED dest,
           at[x] \notin {"writing", "ended", "init"},
           at[x] \in {"emptying", "rmdir"} => l \in {"emptying", "rmdir"}, 
           l \in {"ask", "remove", "emptying", "rmdir"} => Kind[x] = "rm"
    PROVE  CommandsInv'
<1>1. Quiet(x) /\ CommandShapes'
  BY DEF Step, Goes, CommandsInv, CommandShapes, OutcomeIsFinal, Quiet, Answers, Stations
<1>2. QED
  BY <1>1, QuietKeeps

LEMMA KillQuietly ==
    ASSUME CommandsInv, NEW x \in Commands, KillCommand(x)
    PROVE  CommandsInv'
<1>1. UNCHANGED dest
  BY DEF KillCommand, get, files
<1>2. CASE at[x] \in {"init", "writing"}
  <2>1. exit' = [exit EXCEPT ![x] = "killed"] /\ UNCHANGED <<at, held>>
    BY <1>2 DEF KillCommand
  <2>2. Quiet(x) /\ CommandShapes'
    BY <1>1, <1>2, <2>1 DEF CommandsInv, CommandShapes, OnlyRmRemoves, Quiet, Answers
  <2>3. QED
    BY <2>2, QuietKeeps
<1>3. CASE at[x] \notin {"init", "writing"}
  BY <1>1, <1>3, LeaveQuietly DEF KillCommand
<1>4. QED
  BY <1>2, <1>3

LEMMA RmOpenStep ==
    ASSUME LifeInv, NEW x \in Commands, RmOpen(x), In(x) # "absent"
    PROVE  CommandsInv' /\ dest' \in [Dests -> DestStates]
<1> USE CommandsAssumption DEF LifeInv, CommandsInv
<1>1. PICK s \in {"empty", "partial"} : dest' = [dest EXCEPT ![Target[x]] = s]
  BY DEF RmOpen, Become
<1>2. /\ at[x] = "remove" /\ at' = [at EXCEPT ![x] = "emptying"]
      /\ held' = [Torn(x) EXCEPT ![x] = "here"] /\ UNCHANGED exit
  BY DEF RmOpen, Goes
<1>3. dest \in [Dests -> DestStates] /\ Target[x] \in Dests
  BY DEF TypeInv, TypeOK
<1>4. dest' \in [Dests -> DestStates]
  BY <1>1, <1>3 DEF DestStates
<1>5. /\ held'[x] = "here"
      /\ \A y \in Commands : y # x => held'[y] = held[y] \/ (held'[y] = "torn" /\ y \in Writers(x))
      /\ CommandShapes'
  BY <1>2 DEF Torn, CommandShapes, Stations
<1>6. Kind[x] = "rm" /\ exit[x] = "none" /\ OnlyRmRemoves' /\ OutcomeIsFinal'
  BY <1>2 DEF CommandShapes, OnlyRmRemoves, OutcomeIsFinal
<1>7. \A y \in Commands : Answers(y) => Answers(y)'
  BY <1>2, <1>6 DEF Answers, CommandShapes
<1>8. Answers(x)'
  BY <1>2 DEF Answers, CommandShapes
<1>9. NoneHeld'
  BY <1>1, <1>3, <1>5 DEF NoneHeld, Writers
<1>10. TornAnswered'
  BY <1>2, <1>5, <1>7, <1>8 DEF TornAnswered, Writers, CommandShapes
<1>11. PartialAnswered'
  <2> SUFFICES ASSUME NEW d \in Dests, dest'[d] = "partial"
               PROVE  \E y \in Commands : Target[y] = d /\ (Answers(y)' \/ Writes(y)')
    BY DEF PartialAnswered
  <2>1. CASE d = Target[x]
    BY <1>8, <2>1
  <2>2. CASE d # Target[x]
    <3>1. dest[d] = "partial"
      BY <1>1, <1>3, <2>2
    <3>2. PICK y \in Commands : Target[y] = d /\ (Answers(y) \/ Writes(y))
      BY <3>1 DEF PartialAnswered
    <3>3. Writes(y) => Writes(y)'
      BY <1>2, <1>5, <2>2, <3>2 DEF Writes, Writers, CommandShapes
    <3>4. QED
      BY <1>7, <3>2, <3>3
  <2>3. QED
    BY <2>1, <2>2
<1>12. QED
  BY <1>4, <1>5, <1>6, <1>9, <1>10, <1>11

LEMMA RmEmptiedStep ==
    ASSUME LifeInv, NEW x \in Commands, RmEmptied(x)
    PROVE  CommandsInv' /\ dest' \in [Dests -> DestStates]
<1> USE CommandsAssumption DEF LifeInv, CommandsInv
<1>1. /\ at[x] = "emptying" /\ at' = [at EXCEPT ![x] = "rmdir"] /\ UNCHANGED exit
      /\ Kind[x] = "rm" /\ exit[x] = "none"
  BY DEF RmEmptied, Goes, CommandShapes, OnlyRmRemoves, OutcomeIsFinal
<1>2. dest \in [Dests -> DestStates] /\ Target[x] \in Dests
  BY DEF TypeInv, TypeOK
<1>3. OnlyRmRemoves' /\ OutcomeIsFinal'
  BY <1>1 DEF CommandShapes, OnlyRmRemoves, OutcomeIsFinal
<1>4. \A y \in Commands : Answers(y) => Answers(y)'
  BY <1>1 DEF Answers, CommandShapes
<1>5. Answers(x)'
  BY <1>1 DEF Answers, CommandShapes
<1>6. CASE held[x] = "here" /\ dest' = [dest EXCEPT ![Target[x]] = "empty"] /\ held' = Torn(x)
  <2>1. dest' \in [Dests -> DestStates]
    BY <1>2, <1>6 DEF DestStates
  <2>2. /\ \A y \in Commands : held'[y] = held[y] \/ (held'[y] = "torn" /\ y \in Writers(x))
        /\ CommandShapes'
    BY <1>1, <1>6 DEF Torn, CommandShapes, Stations
  <2>3. NoneHeld'
    BY <1>2, <1>6, <2>2 DEF NoneHeld, Writers
  <2>4. TornAnswered'
    BY <1>1, <1>4, <1>5, <2>2 DEF TornAnswered, Writers, CommandShapes
  <2>5. PartialAnswered'
    <3> SUFFICES ASSUME NEW d \in Dests, dest'[d] = "partial"
                 PROVE  \E y \in Commands : Target[y] = d /\ (Answers(y)' \/ Writes(y)')
      BY DEF PartialAnswered
    <3>1. dest[d] = "partial" /\ d # Target[x]
      BY <1>2, <1>6
    <3>2. PICK y \in Commands : Target[y] = d /\ (Answers(y) \/ Writes(y))
      BY <3>1 DEF PartialAnswered
    <3>3. Writes(y) => Writes(y)'
      BY <1>1, <2>2, <3>1, <3>2 DEF Writes, Writers, CommandShapes
    <3>4. QED
      BY <1>4, <3>2, <3>3
  <2>6. QED
    BY <1>3, <2>1, <2>2, <2>3, <2>4, <2>5
<1>7. CASE UNCHANGED <<dest, held>>
  <2>1. Quiet(x) /\ CommandShapes'
    BY <1>1, <1>5, <1>7 DEF Quiet, CommandShapes, Stations
  <2>2. QED
    BY <1>2, <1>7, <2>1, QuietKeeps
<1>8. QED
  BY <1>6, <1>7 DEF RmEmptied, Become

\* The last step of rm: the directory goes and with it whatever was held of
\* it, or rm fails, or there was nothing any more and so nothing held.
LEMMA RmdirStep ==
    ASSUME LifeInv, NEW x \in Commands, Rmdir(x)
    PROVE  CommandsInv' /\ dest' \in [Dests -> DestStates]
<1> USE CommandsAssumption DEF LifeInv, CommandsInv
<1>1. /\ at[x] = "rmdir" /\ at' = [at EXCEPT ![x] = "ended"]
      /\ \E how \in {"ok", "failed"} : exit' = [exit EXCEPT ![x] = how]
  BY DEF Rmdir, Goes
<1>2. dest \in [Dests -> DestStates] /\ Target[x] \in Dests
  BY DEF TypeInv, TypeOK
<1>3. OnlyRmRemoves' /\ OutcomeIsFinal'
  BY <1>1 DEF CommandShapes, OnlyRmRemoves, OutcomeIsFinal
<1>4. \A y \in Commands : y # x /\ Answers(y) => Answers(y)'
  BY <1>1 DEF Answers, CommandShapes
<1>5. \A y \in Commands : Writes(y) => y # x
  BY <1>1 DEF Writes
<1>6. CASE In(x) = "empty"
  <2>1. /\ dest' = [dest EXCEPT ![Target[x]] = "absent"]
        /\ held' = [y \in Commands |-> IF Target[y] = Target[x] THEN "no" ELSE held[y]]
    BY <1>6 DEF Rmdir, Become
  <2>2. dest' \in [Dests -> DestStates] /\ CommandShapes'
    BY <1>1, <1>2, <2>1 DEF DestStates, CommandShapes, Stations
  <2>3. NoneHeld'
    BY <1>2, <2>1 DEF NoneHeld
  <2>4. TornAnswered'
    <3> SUFFICES ASSUME NEW y \in Commands, held'[y] = "torn"
                 PROVE  at'[y] = "writing" /\ \E z \in Commands : Target[z] = Target[y] /\ Answers(z)'
      BY DEF TornAnswered
    <3>1. held[y] = "torn" /\ Target[y] # Target[x]
      BY <2>1
    <3>2. PICK z \in Commands : Target[z] = Target[y] /\ Answers(z)
      BY <3>1 DEF TornAnswered
    <3>3. at'[y] = "writing"
      BY <1>1, <3>1 DEF TornAnswered, CommandShapes
    <3>4. QED
      BY <1>4, <3>1, <3>2, <3>3
  <2>5. PartialAnswered'
    <3> SUFFICES ASSUME NEW d \in Dests, dest'[d] = "partial"
                 PROVE  \E y \in Commands : Target[y] = d /\ (Answers(y)' \/ Writes(y)')
      BY DEF PartialAnswered
    <3>1. dest[d] = "partial" /\ d # Target[x]
      BY <1>2, <2>1
    <3>2. PICK y \in Commands : Target[y] = d /\ (Answers(y) \/ Writes(y))
      BY <3>1 DEF PartialAnswered
    <3>3. Writes(y) => Writes(y)'
      BY <1>1, <2>1, <3>1, <3>2 DEF Writes, CommandShapes
    <3>4. QED
      BY <1>4, <3>1, <3>2, <3>3
  <2>6. QED
    BY <1>3, <2>2, <2>3, <2>4, <2>5
<1>7. CASE In(x) # "empty"
  <2>1. /\ UNCHANGED dest
        /\ held' = [held EXCEPT ![x] = "no"]
        /\ In(x) # "absent" => exit' = [exit EXCEPT ![x] = "failed"]
    BY <1>7 DEF Rmdir
  <2>2. CommandShapes'
    BY <1>1, <2>1 DEF CommandShapes, Stations
  <2>3. NoneHeld'
    BY <2>1 DEF CommandShapes, NoneHeld
  <2>4. In(x) # "absent" => Answers(x)'
    BY <2>1 DEF Answers, CommandShapes
  <2>5. TornAnswered'
    <3> SUFFICES ASSUME NEW y \in Commands, held'[y] = "torn"
                 PROVE  at'[y] = "writing" /\ \E z \in Commands : Target[z] = Target[y] /\ Answers(z)'
      BY DEF TornAnswered
    <3>1. held[y] = "torn" /\ y # x
      BY <2>1 DEF CommandShapes
    <3>2. PICK z \in Commands : Target[z] = Target[y] /\ Answers(z)
      BY <3>1 DEF TornAnswered
    <3>3. at'[y] = "writing"
      BY <1>1, <3>1 DEF TornAnswered, CommandShapes
    <3>4. z = x => In(x) # "absent"
      BY <3>1, <3>2 DEF NoneHeld, In
    <3>5. QED
      BY <1>4, <2>4, <3>2, <3>3, <3>4
  <2>6. PartialAnswered'
    <3> SUFFICES ASSUME NEW d \in Dests, dest[d] = "partial"
                 PROVE  \E y \in Commands : Target[y] = d /\ (Answers(y)' \/ Writes(y)')
      BY <2>1 DEF PartialAnswered
    <3>1. PICK y \in Commands : Target[y] = d /\ (Answers(y) \/ Writes(y))
      BY DEF PartialAnswered
    <3>2. Writes(y) => Writes(y)'
      BY <1>1, <1>5, <2>1 DEF Writes, CommandShapes
    <3>3. y = x => In(x) # "absent"
      BY <3>1 DEF In
    <3>4. QED
      BY <1>4, <2>4, <3>1, <3>2, <3>3
  <2>7. QED
    BY <1>2, <1>3, <2>1, <2>2, <2>3, <2>5, <2>6
<1>8. QED
  BY <1>6, <1>7

LEMMA MkdirStep ==
    ASSUME LifeInv, NEW x \in Commands, Mkdir(x)
    PROVE  CommandsInv' /\ dest' \in [Dests -> DestStates]
<1> USE CommandsAssumption DEF LifeInv
<1>1. at[x] = "mkdir" /\ dest \in [Dests -> DestStates] /\ Target[x] \in Dests
  BY DEF Mkdir, TypeInv, TypeOK
<1>2. CASE UNCHANGED dest /\ (Step(x, "spawn") \/ Leave(x, "failed"))
  BY <1>1, <1>2, StepQuietly, LeaveQuietly DEF Stations
<1>3. CASE In(x) = "absent" /\ Become(x, "empty") /\ Step(x, "spawn")
  <2> USE DEF CommandsInv
  <2>1. /\ dest' = [dest EXCEPT ![Target[x]] = "empty"]
        /\ at' = [at EXCEPT ![x] = "spawn"] /\ UNCHANGED <<held, exit>>
    BY <1>3 DEF Become, Step, Goes
  <2>2. dest' \in [Dests -> DestStates] /\ CommandShapes'
    BY <1>1, <2>1 DEF DestStates, CommandShapes, Stations
  <2>3. OnlyRmRemoves' /\ OutcomeIsFinal' /\ NoneHeld'
    BY <1>1, <2>1 DEF CommandShapes, OnlyRmRemoves, OutcomeIsFinal, NoneHeld
  <2>4. \A y \in Commands : (Answers(y) => Answers(y)') /\ (Writes(y) => Writes(y)')
    BY <1>1, <2>1 DEF Answers, Writes, CommandShapes
  <2>5. TornAnswered'
    BY <1>1, <2>1, <2>4 DEF TornAnswered, CommandShapes
  <2>6. PartialAnswered'
    BY <1>1, <2>1, <2>4 DEF PartialAnswered
  <2>7. QED
    BY <2>2, <2>3, <2>5, <2>6
<1>4. QED
  BY <1>2, <1>3 DEF Mkdir

LEMMA SpawnStep ==
    ASSUME LifeInv, NEW x \in Commands, Spawn(x)
    PROVE  CommandsInv'
<1> USE CommandsAssumption DEF LifeInv
<1>1. at[x] = "spawn" /\ UNCHANGED dest
  BY DEF Spawn, get, files
<1>2. CASE Leave(x, "failed")
  BY <1>1, <1>2, LeaveQuietly
<1>3. CASE /\ In(x) # "absent" /\ held' = [held EXCEPT ![x] = "here"]
           /\ Goes(x, "init") /\ UNCHANGED exit
  <2> USE DEF CommandsInv
  <2>1. at' = [at EXCEPT ![x] = "init"]
    BY <1>3 DEF Goes
  <2>2. CommandShapes' /\ OnlyRmRemoves' /\ OutcomeIsFinal' /\ NoneHeld'
    BY <1>1, <1>3, <2>1 DEF CommandShapes, Stations, OnlyRmRemoves, OutcomeIsFinal, NoneHeld, In
  <2>3. \A y \in Commands : (Answers(y) => Answers(y)') /\ (Writes(y) => Writes(y)')
    BY <1>1, <1>3, <2>1 DEF Answers, Writes, CommandShapes
  <2>4. TornAnswered'
    BY <1>1, <1>3, <2>1, <2>3 DEF TornAnswered, CommandShapes
  <2>5. PartialAnswered'
    BY <1>1, <2>3 DEF PartialAnswered
  <2>6. QED
    BY <2>2, <2>4, <2>5
<1>4. QED
  BY <1>2, <1>3 DEF Spawn

LEMMA InitStartStep ==
    ASSUME LifeInv, NEW x \in Commands, InitStart(x)
    PROVE  CommandsInv' /\ dest' \in [Dests -> DestStates]
<1> USE CommandsAssumption DEF LifeInv
<1>1. at[x] = "init" /\ dest \in [Dests -> DestStates] /\ Target[x] \in Dests
  BY DEF InitStart, TypeInv, TypeOK
<1>2. CASE held[x] = "no"
  BY <1>1, <1>2, LeaveQuietly DEF InitStart, Writes
<1>3. CASE held[x] # "no"
  <2> USE DEF CommandsInv
  <2>1. held[x] = "here"
    BY <1>1, <1>3 DEF CommandShapes, TornAnswered
  <2>2. at' = [at EXCEPT ![x] = "writing"] /\ UNCHANGED <<held, exit>>
    BY <1>3 DEF InitStart, Goes
  <2>3. UNCHANGED dest \/ dest' = [dest EXCEPT ![Target[x]] = "partial"]
    BY <1>3 DEF InitStart, Become
  <2>4. dest' \in [Dests -> DestStates] /\ CommandShapes'
    BY <1>1, <2>2, <2>3 DEF DestStates, CommandShapes, Stations
  <2>5. OnlyRmRemoves' /\ OutcomeIsFinal' /\ NoneHeld'
    BY <1>1, <2>2, <2>3 DEF CommandShapes, OnlyRmRemoves, OutcomeIsFinal, NoneHeld
  <2>6. \A y \in Commands : (Answers(y) => Answers(y)') /\ (Writes(y) => Writes(y)')
    BY <1>1, <2>2 DEF Answers, Writes, CommandShapes
  <2>7. Writes(x)'
    BY <2>1, <2>2 DEF Writes, CommandShapes
  <2>8. TornAnswered'
    BY <1>1, <2>2, <2>6 DEF TornAnswered, CommandShapes
  <2>9. PartialAnswered'
    BY <1>1, <2>3, <2>6, <2>7 DEF PartialAnswered
  <2>10. QED
    BY <2>4, <2>5, <2>8, <2>9
<1>4. QED
  BY <1>2, <1>3

\* What is torn stays in part, and the rm that tore it answers for it.
LEMMA InitEndStep ==
    ASSUME LifeInv, NEW x \in Commands, InitEnd(x)
    PROVE  CommandsInv' /\ dest' \in [Dests -> DestStates]
<1> USE CommandsAssumption DEF LifeInv
<1>1. at[x] = "writing" /\ dest \in [Dests -> DestStates] /\ Target[x] \in Dests
  BY DEF InitEnd, TypeInv, TypeOK
<1>2. CASE held[x] = "no"
  <2>1. Leave(x, "failed") /\ UNCHANGED dest
    BY <1>2 DEF InitEnd
  <2>2. QED
    BY <1>1, <2>1, LeaveQuietly
<1>3. CASE held[x] # "no"
  <2> USE DEF CommandsInv
  <2>1. /\ at' = [at EXCEPT ![x] = "ended"]
        /\ held' = [held EXCEPT ![x] = "no"]
        /\ exit' = [exit EXCEPT ![x] = IF exit[x] = "killed" THEN "killed" ELSE "ok"]
        /\ CommandShapes'
    BY <1>3, LeaveFacts DEF InitEnd
  <2>2. \/ held[x] = "here" /\ dest' = [dest EXCEPT ![Target[x]] = "whole"]
        \/ held[x] = "torn" /\ dest' = [dest EXCEPT ![Target[x]] = "partial"]
        \/ held[x] = "torn" /\ UNCHANGED dest
    BY <1>3 DEF InitEnd, Become, CommandShapes
  <2>3. dest' \in [Dests -> DestStates]
    BY <1>1, <2>2 DEF DestStates
  <2>4. OnlyRmRemoves' /\ OutcomeIsFinal'
    BY <1>1, <2>1 DEF CommandShapes, OnlyRmRemoves, OutcomeIsFinal
  <2>5. NoneHeld'
    BY <1>1, <2>1, <2>2 DEF CommandShapes, NoneHeld
  <2>6. \A y \in Commands : Answers(y) => Answers(y)'
    BY <1>1, <2>1 DEF Answers, CommandShapes, OutcomeIsFinal
  <2>7. \A y \in Commands : y # x /\ Writes(y) => Writes(y)'
    BY <2>1 DEF Writes, CommandShapes
  <2>8. TornAnswered'
    BY <2>1, <2>6 DEF TornAnswered, CommandShapes
  <2>9. held[x] = "torn" => \E y \in Commands : Target[y] = Target[x] /\ Answers(y)'
    BY <2>6 DEF TornAnswered
  <2>10. PartialAnswered'
    <3> SUFFICES ASSUME NEW d \in Dests, dest'[d] = "partial"
                 PROVE  \E y \in Commands : Target[y] = d /\ (Answers(y)' \/ Writes(y)')
      BY DEF PartialAnswered
    <3>1. CASE d = Target[x]
      BY <1>1, <2>2, <2>9, <3>1
    <3>2. CASE d # Target[x]
      <4>1. dest[d] = "partial"
        BY <1>1, <2>2, <3>2
      <4>2. QED
        BY <2>6, <2>7, <3>2, <4>1 DEF PartialAnswered
    <3>3. QED
      BY <3>1, <3>2
  <2>11. QED
    BY <2>1, <2>3, <2>4, <2>5, <2>8, <2>10
<1>4. QED
  BY <1>2, <1>3

\* The steps that leave the destinations alone.
LEMMA OtherSteps ==
    ASSUME LifeInv, NEW x \in Commands,
           \/ RmCheck(x) \/ Confirm(x) \/ RmFails(x) \/ CreateCheck(x) \/ InitFails(x)
           \/ (RmOpen(x) /\ In(x) = "absent")
    PROVE  CommandsInv' /\ UNCHANGED dest
<1> USE DEF LifeInv
<1>1. UNCHANGED dest
  BY DEF RmCheck, Confirm, RmFails, CreateCheck, InitFails, RmOpen, get, files
<1>2. at[x] = "remove" \/ at[x] = "ask" => Kind[x] = "rm"
  BY DEF CommandsInv, OnlyRmRemoves
<1>3. CASE RmCheck(x)
  BY <1>1, <1>3, StepQuietly, LeaveQuietly DEF RmCheck, Stations, Writes
<1>4. CASE Confirm(x)
  BY <1>1, <1>2, <1>4, StepQuietly, LeaveQuietly DEF Confirm, Stations
<1>5. CASE RmFails(x)
  BY <1>1, <1>5, LeaveQuietly DEF RmFails
<1>6. CASE CreateCheck(x)
  BY <1>1, <1>6, StepQuietly, LeaveQuietly DEF CreateCheck, Stations
<1>7. CASE InitFails(x)
  BY <1>1, <1>7, LeaveQuietly DEF InitFails
<1>8. CASE RmOpen(x) /\ In(x) = "absent"
  BY <1>1, <1>8, LeaveQuietly DEF RmOpen
<1>9. QED
  BY <1>1, <1>3, <1>4, <1>5, <1>6, <1>7, <1>8

LEMMA CommandStep ==
    ASSUME LifeInv, NEW x \in Commands, Proceed(x) \/ Confirm(x) \/ KillCommand(x)
    PROVE  LifeInv'
<1>1. UNCHANGED getRest
  BY DEF Proceed, Confirm, KillCommand, RmCheck, RmOpen, RmEmptied, RmFails, Rmdir,
     CreateCheck, Mkdir, Spawn, InitStart, InitEnd, InitFails, get, getRest, files
<1>2. dest \in [Dests -> DestStates]
  BY DEF LifeInv, TypeInv, TypeOK
<1>3. CommandsInv' /\ dest' \in [Dests -> DestStates]
  <2>1. CASE KillCommand(x)
    BY <1>2, <2>1, KillQuietly DEF LifeInv, KillCommand, get, files
  <2>2. CASE RmEmptied(x) \/ Rmdir(x) \/ Mkdir(x) \/ InitStart(x) \/ InitEnd(x)
    BY <2>2, RmEmptiedStep, RmdirStep, MkdirStep, InitStartStep, InitEndStep
  <2>3. CASE Spawn(x)
    BY <1>2, <2>3, SpawnStep DEF Spawn, get, files
  <2>4. CASE RmOpen(x) /\ In(x) # "absent"
    BY <2>4, RmOpenStep
  <2>5. QED
    BY <1>2, <2>1, <2>2, <2>3, <2>4, OtherSteps DEF Proceed
<1>4. QED
  BY <1>1, <1>3, GetUntouched DEF LifeInv

LEMMA LifeUnchanged == LifeInv /\ UNCHANGED lifeVars => LifeInv'
<1> SUFFICES ASSUME LifeInv, UNCHANGED lifeVars PROVE LifeInv'
  OBVIOUS
<1>1. UNCHANGED getRest /\ UNCHANGED <<dest, at, held, exit>>
  BY DEF lifeVars, commands, vars, files, getRest
<1>2. TypeInv' /\ Safe'
  BY <1>1, GetUntouched DEF LifeInv, TypeInv, TypeOK
<1>3. CommandsInv'
  BY <1>1 DEF LifeInv, CommandsInv, CommandShapes, OnlyRmRemoves, OutcomeIsFinal, NoneHeld,
     TornAnswered, PartialAnswered, Answers, Writes
<1>4. QED
  BY <1>2, <1>3 DEF LifeInv

LEMMA NextLifeInv == DistinctTargets /\ LifeInv /\ [LifeNext]_lifeVars => LifeInv'
BY GetStep, CommandStep, LifeUnchanged DEF LifeNext

-----------------------------------------------------------------------------
(* The theorems.                                                           *)

\* Whatever rm, create and get do to one another, part of a repository always
\* has somebody at work on it, or somebody who failed or was killed over it.
THEOREM LifeInvariance == DistinctTargets => (LifeSpec => []LifeInv)
<1> SUFFICES ASSUME DistinctTargets PROVE LifeSpec => []LifeInv
  OBVIOUS
<1>1. LifeInit => LifeInv
  BY InitLifeInv
<1>2. LifeInv /\ [LifeNext]_lifeVars => LifeInv'
  BY NextLifeInv
<1>3. QED
  BY <1>1, <1>2, PTL DEF LifeSpec

\* When all is over, part of a repository that stays behind was reported by an
\* rm or a create of that destination (rm.rs:36-40, create.rs:29-32).
THEOREM PartialAlwaysReported == DistinctTargets => (LifeSpec => []PartialIsReported)
<1> SUFFICES ASSUME DistinctTargets PROVE LifeSpec => []PartialIsReported
  OBVIOUS
<1>1. LifeInv => PartialIsReported
  BY DEF LifeInv, CommandsInv, PartialAnswered, Answers, Writes, PartialIsReported, AllOver
<1>2. QED
  BY LifeInvariance, <1>1, PTL

\* A whole repository is lost only to an rm that has this very directory open:
\* never to a create, and never to the removal by name (rm.rs:24-38,
\* create.rs:26-32).
THEOREM OnlyRmLoses == DistinctTargets => (LifeSpec => LostOnlyToRm)
<1> SUFFICES ASSUME DistinctTargets PROVE LifeSpec => LostOnlyToRm
  OBVIOUS
<1> DEFINE Guarded == \A d \in Dests : dest[d] = "whole" /\ dest'[d] # "whole" =>
                         \E x \in Commands :
                            /\ Kind[x] = "rm" /\ Target[x] = d
                            /\ at[x] = "remove" \/ (at[x] = "emptying" /\ held[x] = "here")
                            /\ at'[x] # at[x]
<1>1. LifeInv /\ [LifeNext]_lifeVars => [Guarded]_lifeVars
  <2> SUFFICES ASSUME LifeInv, LifeNext, NEW d \in Dests, dest[d] = "whole", dest'[d] # "whole"
               PROVE  \E x \in Commands :
                         /\ Kind[x] = "rm" /\ Target[x] = d
                         /\ at[x] = "remove" \/ (at[x] = "emptying" /\ held[x] = "here")
                         /\ at'[x] # at[x]
    OBVIOUS
  <2> USE CommandsAssumption DEF LifeInv, CommandsInv
  <2>1. dest \in [Dests -> DestStates]
    BY DEF TypeInv, TypeOK
  <2>2. ~GetRuns
    BY <2>1, OnlyRenames DEF GetRuns, Next
  <2>3. PICK x \in Commands : Proceed(x) \/ Confirm(x) \/ KillCommand(x)
    BY <2>2 DEF LifeNext, lifeVars, vars, files
  <2>4. RmOpen(x) \/ RmEmptied(x) \/ Rmdir(x) \/ Mkdir(x) \/ InitStart(x) \/ InitEnd(x)
    BY <2>3, OtherSteps DEF Proceed, KillCommand, Spawn, get, files
  <2>5. CASE RmOpen(x) \/ RmEmptied(x)
    BY <2>1, <2>5 DEF RmOpen, RmEmptied, Become, Goes, Leave, CommandShapes, OnlyRmRemoves
  <2>6. CASE Rmdir(x) \/ Mkdir(x)
    BY <2>1, <2>6 DEF Rmdir, Mkdir, Become, In
  <2>7. CASE InitStart(x) \/ InitEnd(x)
    BY <2>1, <2>7 DEF InitStart, InitEnd, Become, In
  <2>8. QED
    BY <2>4, <2>5, <2>6, <2>7
<1>2. QED
  BY LifeInvariance, <1>1, PTL DEF LifeSpec, LostOnlyToRm
=============================================================================
