------------------------------ MODULE PoolProofs ------------------------------
(***************************************************************************)
(* Proofs about Pool, for any number of workers, any tree and any budget:  *)
(* PoolInv is an invariant, and the safety properties and the refinement   *)
(* of TreeWalk follow from it.                                             *)
(***************************************************************************)
EXTENDS PoolInv, FiniteSetTheorems, TLAPS

-----------------------------------------------------------------------------
(* The shape of the state.                                                 *)

\* The initial state has the shape.
LEMMA InitShape == Init => Shape
<1> SUFFICES ASSUME Init PROVE Shape
  OBVIOUS
<1> USE PoolAssumption DEF Init
<1>1. Labels
  BY DEF Labels, States, PCs
<1>2. Values
  <2>1. IsFiniteSet(Initial)
    BY FS_Subset
  <2>2. IsFiniteSet(parked)
    BY <2>1, FS_Subset
  <2>3. liveFds \in Int /\ inFlight \in Int
    BY <2>1, <2>2, FS_CardinalityType
  <2>4. /\ owner \in [Dirs -> Workers \cup {Injector}]
        /\ lock \in Workers \cup {Injector}
        /\ pos \in [Workers -> 0 .. N + 1]
    OBVIOUS
  <2>5. /\ parked \subseteq Dirs /\ sleepers \in Int
        /\ job \in [Workers -> Dirs \cup {NoDir}]
        /\ child \in [Workers -> Dirs \cup {NoDir}]
    OBVIOUS
  <2>6. incomplete \in BOOLEAN
    OBVIOUS
  <2>7. QED
    BY <2>3, <2>4, <2>5, <2>6 DEF Values
<1>3. Hands
  BY DEF Hands, Busy
<1>4. Pending
  BY DEF Pending
<1>5. Below
  BY DEF Below
<1>6. QED
  BY <1>1, <1>2, <1>3, <1>4, <1>5 DEF Shape, Typed

\* Every step leaves the variables in their types.
LEMMA NextTyped == ASSUME Shape, [Next]_vars PROVE Typed'
<1> USE PoolAssumption
    DEF Shape, Typed, Labels, Values, Pending, States, PCs, vars, dirs,
        park, mine, Goto
<1>1. ASSUME NEW w \in Workers, Pop(w) PROVE Typed'
  BY <1>1 DEF Pop, TakeJob, Queue
<1>2. ASSUME NEW w \in Workers, Steal(w) PROVE Typed'
  BY <1>2 DEF Steal, TakeJob, Queue, Source
<1>3. ASSUME NEW w \in Workers, LookFurther(w) PROVE Typed'
  BY <1>3 DEF LookFurther, Source
<1>4. ASSUME NEW w \in Workers, OpenParked(w) PROVE Typed'
  BY <1>4 DEF OpenParked
<1>5. ASSUME NEW w \in Workers, Reopen(w) PROVE Typed'
  BY <1>5 DEF Reopen
<1>6. ASSUME NEW w \in Workers, ReopenFails(w) PROVE Typed'
  <2>1. Labels'
    BY <1>6 DEF ReopenFails, SkipJob
  <2>2. incomplete' \in BOOLEAN
    BY <1>6, Zenon DEF ReopenFails, SkipJob
  <2>3. UNCHANGED <<owner, parked, liveFds, inFlight, sleepers, lock, pos, job>>
    BY <1>6 DEF ReopenFails, SkipJob
  <2>4. child' \in [Workers -> Dirs \cup {NoDir}]
    BY <1>6 DEF ReopenFails, SkipJob
  <2>5. QED
    BY <2>1, <2>2, <2>3, <2>4
<1>7. ASSUME NEW w \in Workers, ListingFails(w) PROVE Typed'
  BY <1>7 DEF ListingFails, SkipJob
<1>8. ASSUME NEW w \in Workers, List(w) PROVE Typed'
  BY <1>8 DEF List
<1>9. ASSUME NEW w \in Workers, StatFirst(w) PROVE Typed'
  BY <1>9 DEF StatFirst, Entries
<1>10. ASSUME NEW w \in Workers, PastBudget(w) PROVE Typed'
  BY <1>10 DEF PastBudget, ToQueue, Entries
<1>11. ASSUME NEW w \in Workers, WithinBudget(w) PROVE Typed'
  BY <1>11 DEF WithinBudget, ToQueue, Entries
<1>12. ASSUME NEW w \in Workers, OpenChild(w) PROVE Typed'
  BY <1>12 DEF OpenChild, Settle
<1>13. ASSUME NEW w \in Workers, OpenFails(w) PROVE Typed'
  <2>1. Labels'
    BY <1>13 DEF OpenFails, Settle
  <2>2. incomplete' \in BOOLEAN
    BY <1>13, Zenon DEF OpenFails, Settle
  <2>3. UNCHANGED <<owner, parked, liveFds, inFlight, sleepers, lock, pos, job>>
    BY <1>13 DEF OpenFails, Settle
  <2>4. child' \in [Workers -> Dirs \cup {NoDir}]
    BY <1>13 DEF OpenFails, Settle
  <2>5. QED
    BY <2>1, <2>2, <2>3, <2>4
<1>14. ASSUME NEW w \in Workers, Panic(w) PROVE Typed'
  BY <1>14 DEF Panic, Entries, Found
<1>15. ASSUME NEW w \in Workers, ReadDone(w) PROVE Typed'
  BY <1>15 DEF ReadDone, Entries, Found
<1>16. ASSUME NEW w \in Workers, Push(w) PROVE Typed'
  BY <1>16 DEF Push, Found
<1>17. ASSUME NEW w \in Workers, Pushed(w) PROVE Typed'
  BY <1>17 DEF Pushed, Found
<1>18. ASSUME NEW w \in Workers, Wake(w) PROVE Typed'
  BY <1>18 DEF Wake, NotifyAll
<1>19. ASSUME NEW w \in Workers, Retire(w) PROVE Typed'
  <2>1. Labels'
    BY <1>19 DEF Retire
  <2>2. owner' \in [Dirs -> Workers \cup {Injector}] /\ job' \in [Workers -> Dirs \cup {NoDir}]
    BY <1>19 DEF Retire
  <2>3. /\ inFlight' \in Int
        /\ UNCHANGED <<parked, liveFds, sleepers, lock, pos, child, incomplete>>
    BY <1>19 DEF Retire
  <2>4. QED
    BY <2>1, <2>2, <2>3
<1>20. ASSUME NEW w \in Workers, WakeAllFinal(w) PROVE Typed'
  BY <1>20 DEF WakeAllFinal, NotifyAll
<1>21. ASSUME NEW w \in Workers, Check(w) PROVE Typed'
  BY <1>21 DEF Check
<1>22. ASSUME NEW w \in Workers, Lock(w) PROVE Typed'
  BY <1>22 DEF Lock
<1>23. ASSUME NEW w \in Workers, Recheck(w) PROVE Typed'
  BY <1>23 DEF Recheck
<1>24. ASSUME NEW w \in Workers, WakeUp(w) PROVE Typed'
  BY <1>24 DEF WakeUp
<1>25. ASSUME NEW w \in Workers, Timeout(w) PROVE Typed'
  BY <1>25 DEF Timeout
<1>26. CASE UNCHANGED vars
  BY <1>26
<1>27. QED
  BY <1>1, <1>2, <1>3, <1>4, <1>5, <1>6, <1>7, <1>8, <1>9, <1>10, <1>11, <1>12, <1>13, <1>14,
     <1>15, <1>16, <1>17, <1>18, <1>19, <1>20, <1>21, <1>22, <1>23, <1>24, <1>25, <1>26
     DEF Next, Work, Join

\* Every step leaves each directory in the hands of at most one worker, and each
\* worker with the directories that belong to the step it is at.
LEMMA NextRest == ASSUME Shape, Typed', [Next]_vars PROVE (Hands /\ Pending /\ Below)'
<1> USE PoolAssumption
    DEF Shape, Typed, Labels, Values, Hands, Pending, Below, Busy, Finished,
        vars, dirs, park, mine, Goto
<1>1. ASSUME NEW w \in Workers, Pop(w) PROVE (Hands /\ Pending /\ Below)'
  BY <1>1 DEF Pop, TakeJob, Queue
<1>2. ASSUME NEW w \in Workers, Steal(w) PROVE (Hands /\ Pending /\ Below)'
  <2>1. PICK batch \in SUBSET Queue(Source(w)) : \E d \in batch : TakeJob(w, batch, d)
    BY <1>2 DEF Steal
  <2>2. PICK d \in batch : TakeJob(w, batch, d)
    BY <2>1
  <2>3. d \in Dirs /\ state[d] = "queued" /\ \A e \in batch : e \in Dirs /\ state[e] = "queued"
    BY DEF Queue
  <2>4. pc[w] = "find"
    BY <1>2 DEF Steal
  <2>5. Hands'
    BY <2>2, <2>3, <2>4 DEF TakeJob
  <2>6. Pending'
    BY <2>2, <2>3, <2>4 DEF TakeJob
  <2>7. Below'
    BY <2>2, <2>3, <2>4 DEF TakeJob
  <2>8. QED
    BY <2>5, <2>6, <2>7
<1>3. ASSUME NEW w \in Workers, LookFurther(w) PROVE (Hands /\ Pending /\ Below)'
  BY <1>3 DEF LookFurther, Source
<1>4. ASSUME NEW w \in Workers, OpenParked(w) PROVE (Hands /\ Pending /\ Below)'
  BY <1>4 DEF OpenParked
<1>5. ASSUME NEW w \in Workers, Reopen(w) PROVE (Hands /\ Pending /\ Below)'
  BY <1>5 DEF Reopen
<1>6. ASSUME NEW w \in Workers, ReopenFails(w) PROVE (Hands /\ Pending /\ Below)'
  BY <1>6 DEF ReopenFails, SkipJob
<1>7. ASSUME NEW w \in Workers, ListingFails(w) PROVE (Hands /\ Pending /\ Below)'
  BY <1>7 DEF ListingFails, SkipJob
<1>8. ASSUME NEW w \in Workers, List(w) PROVE (Hands /\ Pending /\ Below)'
  BY <1>8 DEF List
<1>9. ASSUME NEW w \in Workers, StatFirst(w) PROVE (Hands /\ Pending /\ Below)'
  BY <1>9 DEF StatFirst, Entries
<1>10. ASSUME NEW w \in Workers, PastBudget(w) PROVE (Hands /\ Pending /\ Below)'
  BY <1>10 DEF PastBudget, ToQueue, Entries
<1>11. ASSUME NEW w \in Workers, WithinBudget(w) PROVE (Hands /\ Pending /\ Below)'
  BY <1>11 DEF WithinBudget, ToQueue, Entries
<1>12. ASSUME NEW w \in Workers, OpenChild(w) PROVE (Hands /\ Pending /\ Below)'
  BY <1>12 DEF OpenChild, Settle
<1>13. ASSUME NEW w \in Workers, OpenFails(w) PROVE (Hands /\ Pending /\ Below)'
  BY <1>13 DEF OpenFails, Settle
<1>14. ASSUME NEW w \in Workers, Panic(w) PROVE (Hands /\ Pending /\ Below)'
  BY <1>14 DEF Panic, Entries, Found
<1>15. ASSUME NEW w \in Workers, ReadDone(w) PROVE (Hands /\ Pending /\ Below)'
  BY <1>15 DEF ReadDone, Entries, Found
<1>16. ASSUME NEW w \in Workers, Push(w) PROVE (Hands /\ Pending /\ Below)'
  BY <1>16 DEF Push, Found
<1>17. ASSUME NEW w \in Workers, Pushed(w) PROVE (Hands /\ Pending /\ Below)'
  BY <1>17 DEF Pushed, Found
<1>18. ASSUME NEW w \in Workers, Wake(w) PROVE (Hands /\ Pending /\ Below)'
  BY <1>18 DEF Wake, NotifyAll
<1>19. ASSUME NEW w \in Workers, Retire(w) PROVE (Hands /\ Pending /\ Below)'
  BY <1>19 DEF Retire
<1>20. ASSUME NEW w \in Workers, WakeAllFinal(w) PROVE (Hands /\ Pending /\ Below)'
  BY <1>20 DEF WakeAllFinal, NotifyAll
<1>21. ASSUME NEW w \in Workers, Check(w) PROVE (Hands /\ Pending /\ Below)'
  BY <1>21 DEF Check
<1>22. ASSUME NEW w \in Workers, Lock(w) PROVE (Hands /\ Pending /\ Below)'
  BY <1>22 DEF Lock
<1>23. ASSUME NEW w \in Workers, Recheck(w) PROVE (Hands /\ Pending /\ Below)'
  BY <1>23 DEF Recheck
<1>24. ASSUME NEW w \in Workers, WakeUp(w) PROVE (Hands /\ Pending /\ Below)'
  BY <1>24 DEF WakeUp
<1>25. ASSUME NEW w \in Workers, Timeout(w) PROVE (Hands /\ Pending /\ Below)'
  BY <1>25 DEF Timeout
<1>26. CASE UNCHANGED vars
  BY <1>26
<1>27. QED
  BY <1>1, <1>2, <1>3, <1>4, <1>5, <1>6, <1>7, <1>8, <1>9, <1>10, <1>11, <1>12, <1>13, <1>14,
     <1>15, <1>16, <1>17, <1>18, <1>19, <1>20, <1>21, <1>22, <1>23, <1>24, <1>25, <1>26
     DEF Next, Work, Join

\* A step that changes no count.
Quiet ==
    /\ Counted' = Counted /\ inFlight' = inFlight
    /\ \A v \in Workers : pc'[v] = "done" => pc[v] = "done" \/ inFlight = 0

\* A step counts what it adds and gives up one of what it takes away; only a
\* worker that sees a zero leaves.
CountStep ==
    /\ \/ Counted' = Counted /\ inFlight' = inFlight
       \/ \E d \in Counted : Counted' = Counted \ {d} /\ inFlight' = inFlight - 1
       \/ /\ Counted # {}
          /\ \E S \in SUBSET (Dirs \ Counted) :
                Counted' = Counted \cup S /\ inFlight' = inFlight + Cardinality(S)
    /\ \A v \in Workers : pc'[v] = "done" => pc[v] = "done" \/ (inFlight = 0 /\ inFlight' = 0)

\* Every step is one of these.
LEMMA NextCountStep ==
    ASSUME Shape, Typed', [Next]_vars
    PROVE  CountStep
<1> USE PoolAssumption
    DEF Counted, Quiet, Shape, Typed, Labels, Values, Hands, Pending, Busy,
        Finished, vars, dirs, park, mine, Goto
<1>1. ASSUME NEW w \in Workers, Pop(w) PROVE Quiet
  BY <1>1 DEF Pop, TakeJob, Queue
<1>2. ASSUME NEW w \in Workers, Steal(w) PROVE Quiet
  BY <1>2 DEF Steal, TakeJob, Queue, Source
<1>3. ASSUME NEW w \in Workers, LookFurther(w) PROVE Quiet
  BY <1>3 DEF LookFurther, Source
<1>4. ASSUME NEW w \in Workers, OpenParked(w) PROVE Quiet
  BY <1>4 DEF OpenParked
<1>5. ASSUME NEW w \in Workers, Reopen(w) PROVE Quiet
  BY <1>5 DEF Reopen
<1>6. ASSUME NEW w \in Workers, ReopenFails(w) PROVE Quiet
  BY <1>6 DEF ReopenFails, SkipJob
<1>7. ASSUME NEW w \in Workers, ListingFails(w) PROVE Quiet
  BY <1>7 DEF ListingFails, SkipJob
<1>8. ASSUME NEW w \in Workers, List(w) PROVE CountStep
  <2>1. /\ state[job[w]] = "running"
        /\ \A c \in Children[job[w]] : c \in Dirs /\ state[c] = "unseen"
    BY <1>8 DEF List, Below
  <2>2. \A c \in Children[job[w]] : c \notin Counted /\ c \notin Counted'
    BY <1>8, <2>1 DEF List
  <2>3. \A c \in Dirs \ Children[job[w]] : c \in Counted <=> c \in Counted'
    BY <1>8, <2>1 DEF List
  <2>4. Counted' = Counted
    BY <2>2, <2>3
  <2>5. inFlight' = inFlight /\ \A v \in Workers : pc'[v] = "done" => pc[v] = "done"
    BY <1>8 DEF List
  <2>6. QED
    BY <2>4, <2>5 DEF CountStep
<1>9. ASSUME NEW w \in Workers, StatFirst(w) PROVE Quiet
  BY <1>9 DEF StatFirst, Entries
<1>10. ASSUME NEW w \in Workers, PastBudget(w) PROVE Quiet
  BY <1>10 DEF PastBudget, ToQueue, Entries
<1>11. ASSUME NEW w \in Workers, WithinBudget(w) PROVE Quiet
  BY <1>11 DEF WithinBudget, ToQueue, Entries
<1>12. ASSUME NEW w \in Workers, OpenChild(w) PROVE Quiet
  BY <1>12 DEF OpenChild, Settle
<1>13. ASSUME NEW w \in Workers, OpenFails(w) PROVE Quiet
  BY <1>13 DEF OpenFails, Settle
<1>14. ASSUME NEW w \in Workers, Panic(w) PROVE Quiet
  BY <1>14 DEF Panic, Entries, Found
<1>15. ASSUME NEW w \in Workers, ReadDone(w) PROVE CountStep
  <2>1. Counted' = Counted \cup Found(w) /\ Counted \cap Found(w) = {} /\ job[w] \in Counted
    BY <1>15 DEF ReadDone, Found, Entries
  <2>2. /\ inFlight' = inFlight + Cardinality(Found(w))
        /\ \A v \in Workers : pc'[v] = "done" => pc[v] = "done"
    BY <1>15 DEF ReadDone
  <2>3. Found(w) \in SUBSET (Dirs \ Counted)
    BY ONLY <2>1 DEF Found
  <2>4. QED
    BY ONLY <2>1, <2>2, <2>3 DEF CountStep
<1>16. ASSUME NEW w \in Workers, Push(w) PROVE Quiet
  BY <1>16 DEF Push, Found
<1>17. ASSUME NEW w \in Workers, Pushed(w) PROVE Quiet
  BY <1>17 DEF Pushed, Found
<1>18. ASSUME NEW w \in Workers, Wake(w) PROVE Quiet
  BY <1>18 DEF Wake, NotifyAll
<1>19. ASSUME NEW w \in Workers, Retire(w) PROVE CountStep
  <2>1. job[w] \in Counted /\ Counted' = Counted \ {job[w]}
    BY <1>19 DEF Retire
  <2>2. inFlight' = inFlight - 1 /\ \A v \in Workers : pc'[v] = "done" => pc[v] = "done"
    BY <1>19 DEF Retire
  <2>3. QED
    BY ONLY <2>1, <2>2 DEF CountStep
<1>20. ASSUME NEW w \in Workers, WakeAllFinal(w) PROVE Quiet
  BY <1>20 DEF WakeAllFinal, NotifyAll
<1>21. ASSUME NEW w \in Workers, Check(w) PROVE Quiet
  BY <1>21 DEF Check
<1>22. ASSUME NEW w \in Workers, Lock(w) PROVE Quiet
  BY <1>22 DEF Lock
<1>23. ASSUME NEW w \in Workers, Recheck(w) PROVE Quiet
  BY <1>23 DEF Recheck
<1>24. ASSUME NEW w \in Workers, WakeUp(w) PROVE Quiet
  BY <1>24 DEF WakeUp
<1>25. ASSUME NEW w \in Workers, Timeout(w) PROVE Quiet
  BY <1>25 DEF Timeout
<1>26. CASE UNCHANGED vars
  <2>1. Quiet
    BY <1>26
  <2>2. QED
    BY <2>1 DEF CountStep
<1>27. QED
  BY <1>1, <1>2, <1>3, <1>4, <1>5, <1>6, <1>7, <1>8, <1>9, <1>10, <1>11, <1>12, <1>13, <1>14,
     <1>15, <1>16, <1>17, <1>18, <1>19, <1>20, <1>21, <1>22, <1>23, <1>24, <1>25, <1>26
     DEF Next, Work, Join, CountStep

\* So in_flight stays the number of what it counts, and stays zero once zero has
\* let a worker leave.
LEMMA NextCounted ==
    ASSUME Shape, Typed', [Next]_vars, InFlightCounts, Exit
    PROVE  InFlightCounts' /\ Exit'
<1>1. CountStep
  BY NextCountStep
<1>2. IsFiniteSet(Counted) /\ IsFiniteSet(Dirs)
  BY PoolAssumption, FS_Subset DEF Counted
<1>3. Cardinality(Counted) \in Nat /\ inFlight = Cardinality(Counted)
  BY <1>2, FS_CardinalityType DEF InFlightCounts
<1>4. Counted # {} => inFlight # 0
  BY <1>2, <1>3, FS_EmptySet
<1>5. InFlightCounts'
  <2>1. CASE Counted' = Counted /\ inFlight' = inFlight
    BY <2>1, <1>3 DEF InFlightCounts
  <2>2. CASE \E d \in Counted : Counted' = Counted \ {d} /\ inFlight' = inFlight - 1
    BY <2>2, <1>2, <1>3, FS_RemoveElement DEF InFlightCounts
  <2>3. CASE \E S \in SUBSET (Dirs \ Counted) :
                Counted' = Counted \cup S /\ inFlight' = inFlight + Cardinality(S)
    <3>1. PICK S \in SUBSET (Dirs \ Counted) :
                Counted' = Counted \cup S /\ inFlight' = inFlight + Cardinality(S)
      BY <2>3
    <3>2. IsFiniteSet(S) /\ Cardinality(S) \in Nat
      BY <1>2, FS_Subset, FS_CardinalityType
    <3>3. Counted \cap S = {} /\ Cardinality({}) = 0
      BY FS_EmptySet
    <3>4. Cardinality(Counted \cup S) =
             Cardinality(Counted) + Cardinality(S) - Cardinality(Counted \cap S)
      BY <1>2, <3>2, FS_Union
    <3>5. Cardinality(Counted \cap S) = 0
      BY ONLY <3>3
    <3>6. QED
      BY <3>1, <3>2, <3>4, <3>5, <1>3 DEF InFlightCounts
  <2>4. QED
    BY <1>1, <2>1, <2>2, <2>3 DEF CountStep
<1>6. Exit'
  BY <1>1, <1>4 DEF CountStep, Exit
<1>7. QED
  BY <1>5, <1>6

\* Park.sleepers is raised before a wait and lowered after it, under the lock.
LEMMA NextSleepers ==
    ASSUME Typed, Typed', SleepersCount, [Next]_vars
    PROVE  SleepersCount'
<1> USE DEF Typed, Sleeping, Labels, vars, park, Goto
<1>a. IsFiniteSet(Workers) /\ IsFiniteSet(Sleeping)
  <2>1. IsFiniteSet(Workers)
    BY PoolAssumption, FS_Interval DEF Workers
  <2>2. QED
    BY <2>1, FS_Subset DEF Sleeping
<1>1. ASSUME NEW w \in Workers, Pop(w) PROVE Sleeping' = Sleeping /\ sleepers' = sleepers
  BY <1>1 DEF Pop, TakeJob, Queue
<1>2. ASSUME NEW w \in Workers, Steal(w) PROVE Sleeping' = Sleeping /\ sleepers' = sleepers
  BY <1>2 DEF Steal, TakeJob, Queue, Source
<1>3. ASSUME NEW w \in Workers, LookFurther(w)
      PROVE  Sleeping' = Sleeping /\ sleepers' = sleepers
  BY <1>3 DEF LookFurther, Source
<1>4. ASSUME NEW w \in Workers, OpenParked(w) PROVE Sleeping' = Sleeping /\ sleepers' = sleepers
  BY <1>4 DEF OpenParked
<1>5. ASSUME NEW w \in Workers, Reopen(w) PROVE Sleeping' = Sleeping /\ sleepers' = sleepers
  BY <1>5 DEF Reopen
<1>6. ASSUME NEW w \in Workers, ReopenFails(w)
      PROVE  Sleeping' = Sleeping /\ sleepers' = sleepers
  BY <1>6 DEF ReopenFails, SkipJob
<1>7. ASSUME NEW w \in Workers, ListingFails(w)
      PROVE  Sleeping' = Sleeping /\ sleepers' = sleepers
  BY <1>7 DEF ListingFails, SkipJob
<1>8. ASSUME NEW w \in Workers, List(w) PROVE Sleeping' = Sleeping /\ sleepers' = sleepers
  BY <1>8 DEF List
<1>9. ASSUME NEW w \in Workers, StatFirst(w) PROVE Sleeping' = Sleeping /\ sleepers' = sleepers
  BY <1>9 DEF StatFirst, Entries
<1>10. ASSUME NEW w \in Workers, PastBudget(w)
       PROVE  Sleeping' = Sleeping /\ sleepers' = sleepers
  BY <1>10 DEF PastBudget, ToQueue, Entries
<1>11. ASSUME NEW w \in Workers, WithinBudget(w)
       PROVE  Sleeping' = Sleeping /\ sleepers' = sleepers
  BY <1>11 DEF WithinBudget, ToQueue, Entries
<1>12. ASSUME NEW w \in Workers, OpenChild(w) PROVE Sleeping' = Sleeping /\ sleepers' = sleepers
  BY <1>12 DEF OpenChild, Settle
<1>13. ASSUME NEW w \in Workers, OpenFails(w) PROVE Sleeping' = Sleeping /\ sleepers' = sleepers
  BY <1>13 DEF OpenFails, Settle
<1>14. ASSUME NEW w \in Workers, Panic(w) PROVE Sleeping' = Sleeping /\ sleepers' = sleepers
  BY <1>14 DEF Panic, Entries, Found
<1>15. ASSUME NEW w \in Workers, ReadDone(w) PROVE Sleeping' = Sleeping /\ sleepers' = sleepers
  BY <1>15 DEF ReadDone, Entries, Found
<1>16. ASSUME NEW w \in Workers, Push(w) PROVE Sleeping' = Sleeping /\ sleepers' = sleepers
  BY <1>16 DEF Push, Found
<1>17. ASSUME NEW w \in Workers, Pushed(w) PROVE Sleeping' = Sleeping /\ sleepers' = sleepers
  BY <1>17 DEF Pushed, Found
<1>18. ASSUME NEW w \in Workers, Wake(w) PROVE Sleeping' = Sleeping /\ sleepers' = sleepers
  BY <1>18 DEF Wake, NotifyAll
<1>19. ASSUME NEW w \in Workers, Retire(w) PROVE Sleeping' = Sleeping /\ sleepers' = sleepers
  BY <1>19 DEF Retire
<1>20. ASSUME NEW w \in Workers, WakeAllFinal(w)
       PROVE  Sleeping' = Sleeping /\ sleepers' = sleepers
  BY <1>20 DEF WakeAllFinal, NotifyAll
<1>21. ASSUME NEW w \in Workers, Check(w) PROVE Sleeping' = Sleeping /\ sleepers' = sleepers
  BY <1>21 DEF Check
<1>22. ASSUME NEW w \in Workers, Lock(w) PROVE SleepersCount'
  <2>1. w \notin Sleeping /\ Sleeping' = Sleeping \cup {w} /\ sleepers' = sleepers + 1
    BY <1>22 DEF Lock
  <2>2. QED
    BY ONLY <2>1, SleepersCount, Typed, <1>a, FS_AddElement, FS_CardinalityType
       DEF SleepersCount, Typed, Values
<1>23. ASSUME NEW w \in Workers, Recheck(w) PROVE SleepersCount'
  <2>1. CASE inFlight = 0
    <3>1. w \in Sleeping /\ Sleeping' = Sleeping \ {w} /\ sleepers' = sleepers - 1
      BY <1>23, <2>1 DEF Recheck
    <3>2. QED
      BY ONLY <3>1, SleepersCount, <1>a, FS_RemoveElement DEF SleepersCount
  <2>2. CASE inFlight # 0
    <3>1. Sleeping' = Sleeping /\ sleepers' = sleepers
      BY <1>23, <2>2 DEF Recheck
    <3>2. QED
      BY ONLY <3>1, SleepersCount DEF SleepersCount
  <2>3. QED
    BY <2>1, <2>2
<1>24. ASSUME NEW w \in Workers, WakeUp(w) PROVE SleepersCount'
  <2>1. w \in Sleeping /\ Sleeping' = Sleeping \ {w} /\ sleepers' = sleepers - 1
    BY <1>24 DEF WakeUp
  <2>2. QED
    BY ONLY <2>1, SleepersCount, <1>a, FS_RemoveElement DEF SleepersCount
<1>25. ASSUME NEW w \in Workers, Timeout(w) PROVE Sleeping' = Sleeping /\ sleepers' = sleepers
  BY <1>25 DEF Timeout
<1>26. CASE UNCHANGED vars
  <2>1. Sleeping' = Sleeping /\ sleepers' = sleepers
    BY <1>26
  <2>2. QED
    BY <2>1 DEF SleepersCount
<1>27. QED
  BY <1>1, <1>2, <1>3, <1>4, <1>5, <1>6, <1>7, <1>8, <1>9, <1>10, <1>11, <1>12, <1>13, <1>14,
     <1>15, <1>16, <1>17, <1>18, <1>19, <1>20, <1>21, <1>22, <1>23, <1>24, <1>25, <1>26
     DEF Next, Work, Join, SleepersCount

\* A step that leaves the descriptors alone.
Steady ==
    /\ \A d \in parked' : ParkedAt(d)'
    /\ UNCHANGED <<parked, liveFds>>
    /\ \A w \in Workers : pc[w] \in Unwound => pc'[w] \in Unwound

\* A step parks one directory, takes one back, or loses some in a panic.
ParkStep ==
    /\ \A d \in parked' : ParkedAt(d)'
    /\ \/ UNCHANGED <<parked, liveFds>>
       \/ \E d \in Dirs \ parked : parked' = parked \cup {d} /\ liveFds' = liveFds + 1
       \/ \E d \in parked : parked' = parked \ {d} /\ liveFds' = liveFds - 1
       \/ /\ parked' \in SUBSET parked /\ liveFds' = liveFds
          /\ \E w \in Workers : pc'[w] \in Unwound
    /\ \A w \in Workers : pc[w] \in Unwound => pc'[w] \in Unwound

\* Every step is one of these.
LEMMA NextParkStep ==
    ASSUME Shape, Typed', \A d \in parked : ParkedAt(d), [Next]_vars
    PROVE  ParkStep
<1> USE PoolAssumption
    DEF Shape, Typed, Labels, Values, Hands, Pending, Busy, Finished, vars,
        dirs, park, mine, Goto, ParkedAt, Unwound, Steady
<1>1. ASSUME NEW w \in Workers, Pop(w) PROVE Steady
  BY <1>1 DEF Pop, TakeJob, Queue
<1>2. ASSUME NEW w \in Workers, Steal(w) PROVE Steady
  BY <1>2 DEF Steal, TakeJob, Queue, Source
<1>3. ASSUME NEW w \in Workers, LookFurther(w) PROVE Steady
  BY <1>3 DEF LookFurther, Source
<1>4. ASSUME NEW w \in Workers, OpenParked(w) PROVE ParkStep
  <2>1. \A d \in parked' : ParkedAt(d)'
    BY <1>4 DEF OpenParked
  <2>2. job[w] \in parked /\ parked' = parked \ {job[w]} /\ liveFds' = liveFds - 1
    BY <1>4 DEF OpenParked
  <2>3. \A v \in Workers : pc[v] \in Unwound => pc'[v] \in Unwound
    BY <1>4 DEF OpenParked
  <2>4. QED
    BY ONLY <2>1, <2>2, <2>3 DEF ParkStep
<1>5. ASSUME NEW w \in Workers, Reopen(w) PROVE Steady
  BY <1>5 DEF Reopen
<1>6. ASSUME NEW w \in Workers, ReopenFails(w) PROVE Steady
  BY <1>6 DEF ReopenFails, SkipJob
<1>7. ASSUME NEW w \in Workers, ListingFails(w) PROVE Steady
  BY <1>7 DEF ListingFails, SkipJob
<1>8. ASSUME NEW w \in Workers, List(w) PROVE ParkStep
  <2>1. ASSUME NEW d \in parked PROVE ParkedAt(d)'
    <3>1. d # job[w] /\ d \notin Children[job[w]]
      BY <1>8 DEF List, Below
    <3>2. state'[d] = state[d]
      BY <1>8, <3>1 DEF List
    <3>3. QED
      BY <1>8, <3>1, <3>2 DEF List
  <2>2. UNCHANGED <<parked, liveFds>>
    BY <1>8 DEF List
  <2>3. \A v \in Workers : pc[v] \in Unwound => pc'[v] \in Unwound
    BY <1>8 DEF List
  <2>4. QED
    BY ONLY <2>1, <2>2, <2>3 DEF Steady, ParkStep
<1>9. ASSUME NEW w \in Workers, StatFirst(w) PROVE Steady
  BY <1>9 DEF StatFirst, Entries
<1>10. ASSUME NEW w \in Workers, PastBudget(w) PROVE Steady
  BY <1>10 DEF PastBudget, ToQueue, Entries
<1>11. ASSUME NEW w \in Workers, WithinBudget(w) PROVE Steady
  BY <1>11 DEF WithinBudget, ToQueue, Entries
<1>12. ASSUME NEW w \in Workers, OpenChild(w) PROVE ParkStep
  <2>1. child[w] \in Dirs /\ state[child[w]] = "entry"
    BY <1>12 DEF OpenChild
  <2>2. child[w] \notin parked
    BY <2>1
  <2>3. \A d \in parked' : ParkedAt(d)'
    BY <1>12, <2>1 DEF OpenChild, Settle
  <2>4. parked' = parked \cup {child[w]} /\ liveFds' = liveFds + 1
    BY <1>12 DEF OpenChild
  <2>5. \A v \in Workers : pc[v] \in Unwound => pc'[v] \in Unwound
    BY <1>12 DEF OpenChild, Settle
  <2>6. QED
    BY ONLY <2>1, <2>2, <2>3, <2>4, <2>5 DEF ParkStep
<1>13. ASSUME NEW w \in Workers, OpenFails(w) PROVE Steady
  BY <1>13 DEF OpenFails, Settle
<1>14. ASSUME NEW w \in Workers, Panic(w) PROVE ParkStep
  <2>1. \A d \in parked' : ParkedAt(d)'
    BY <1>14 DEF Panic, Entries, Found
  <2>2. parked' \in SUBSET parked /\ liveFds' = liveFds
    BY <1>14 DEF Panic
  <2>3. pc'[w] \in Unwound /\ \A v \in Workers : pc[v] \in Unwound => pc'[v] \in Unwound
    BY <1>14 DEF Panic
  <2>4. QED
    BY ONLY <2>1, <2>2, <2>3 DEF ParkStep
<1>15. ASSUME NEW w \in Workers, ReadDone(w) PROVE Steady
  BY <1>15 DEF ReadDone, Entries, Found
<1>16. ASSUME NEW w \in Workers, Push(w) PROVE Steady
  BY <1>16 DEF Push, Found
<1>17. ASSUME NEW w \in Workers, Pushed(w) PROVE Steady
  BY <1>17 DEF Pushed, Found
<1>18. ASSUME NEW w \in Workers, Wake(w) PROVE ParkStep
  <2>1. ASSUME NEW d \in parked PROVE ParkedAt(d)'
    <3>1. CASE state[d] \in {"found", "queued"}
      BY <1>18, <3>1 DEF Wake, NotifyAll
    <3>2. CASE \E v \in Workers : job[v] = d /\ pc[v] = "open"
      <4>1. PICK v \in Workers : job[v] = d /\ pc[v] = "open"
        BY <3>2
      <4>2. v # w /\ job'[v] = d /\ pc'[v] = "open"
        BY <1>18, <4>1 DEF Wake, NotifyAll
      <4>3. QED
        BY <4>2
    <3>3. QED
      BY <3>1, <3>2
  <2>2. UNCHANGED <<parked, liveFds>>
    BY <1>18 DEF Wake, NotifyAll
  <2>3. \A v \in Workers : pc[v] \in Unwound => pc'[v] \in Unwound
    BY <1>18 DEF Wake, NotifyAll
  <2>4. QED
    BY ONLY <2>1, <2>2, <2>3 DEF Steady, ParkStep
<1>19. ASSUME NEW w \in Workers, Retire(w) PROVE Steady
  BY <1>19 DEF Retire
<1>20. ASSUME NEW w \in Workers, WakeAllFinal(w) PROVE ParkStep
  <2>1. ASSUME NEW d \in parked PROVE ParkedAt(d)'
    <3>1. CASE state[d] \in {"found", "queued"}
      BY <1>20, <3>1 DEF WakeAllFinal, NotifyAll
    <3>2. CASE \E v \in Workers : job[v] = d /\ pc[v] = "open"
      <4>1. PICK v \in Workers : job[v] = d /\ pc[v] = "open"
        BY <3>2
      <4>2. v # w /\ job'[v] = d /\ pc'[v] = "open"
        BY <1>20, <4>1 DEF WakeAllFinal, NotifyAll
      <4>3. QED
        BY <4>2
    <3>3. QED
      BY <3>1, <3>2
  <2>2. UNCHANGED <<parked, liveFds>>
    BY <1>20 DEF WakeAllFinal, NotifyAll
  <2>3. \A v \in Workers : pc[v] \in Unwound => pc'[v] \in Unwound
    BY <1>20 DEF WakeAllFinal, NotifyAll
  <2>4. QED
    BY ONLY <2>1, <2>2, <2>3 DEF Steady, ParkStep
<1>21. ASSUME NEW w \in Workers, Check(w) PROVE Steady
  BY <1>21 DEF Check
<1>22. ASSUME NEW w \in Workers, Lock(w) PROVE Steady
  BY <1>22 DEF Lock
<1>23. ASSUME NEW w \in Workers, Recheck(w) PROVE Steady
  BY <1>23 DEF Recheck
<1>24. ASSUME NEW w \in Workers, WakeUp(w) PROVE Steady
  BY <1>24 DEF WakeUp
<1>25. ASSUME NEW w \in Workers, Timeout(w) PROVE Steady
  BY <1>25 DEF Timeout
<1>26. CASE UNCHANGED vars
  <2>1. Steady
    BY <1>26
  <2>2. QED
    BY <2>1 DEF ParkStep
<1>27. QED
  BY <1>1, <1>2, <1>3, <1>4, <1>5, <1>6, <1>7, <1>8, <1>9, <1>10, <1>11, <1>12, <1>13, <1>14,
     <1>15, <1>16, <1>17, <1>18, <1>19, <1>20, <1>21, <1>22, <1>23, <1>24, <1>25, <1>26
     DEF Next, Work, Join, ParkStep

\* So live_fds never falls below the descriptors there are.
LEMMA NextParked ==
    ASSUME Shape, Typed', [Next]_vars, ParkedCounts
    PROVE  ParkedCounts'
<1>1. ParkStep
  BY NextParkStep DEF ParkedCounts
<1>2. /\ parked \in SUBSET Dirs
      /\ IsFiniteSet(parked) /\ Cardinality(parked) \in Nat /\ liveFds \in Int
  BY PoolAssumption, FS_Subset, FS_CardinalityType DEF Shape, Typed, Values
<1>3. /\ Cardinality(parked') <= liveFds'
      /\ (\A w \in Workers : pc'[w] \notin Unwound) => Cardinality(parked') = liveFds'
  <2>1. CASE UNCHANGED <<parked, liveFds>>
    BY <2>1, <1>1 DEF ParkStep, ParkedCounts
  <2>2. CASE \E d \in Dirs \ parked : parked' = parked \cup {d} /\ liveFds' = liveFds + 1
    <3>1. Cardinality(parked') = Cardinality(parked) + 1
      BY <2>2, <1>2, FS_AddElement
    <3>2. QED
      BY <2>2, <3>1, <1>1, <1>2 DEF ParkStep, ParkedCounts
  <2>3. CASE \E d \in parked : parked' = parked \ {d} /\ liveFds' = liveFds - 1
    <3>1. Cardinality(parked') = Cardinality(parked) - 1
      BY <2>3, <1>2, FS_RemoveElement
    <3>2. QED
      BY <2>3, <3>1, <1>1, <1>2 DEF ParkStep, ParkedCounts
  <2>4. CASE /\ parked' \in SUBSET parked /\ liveFds' = liveFds
             /\ \E w \in Workers : pc'[w] \in Unwound
    <3>1. Cardinality(parked') <= Cardinality(parked) /\ Cardinality(parked') \in Nat
      BY <2>4, <1>2, FS_Subset, FS_CardinalityType
    <3>2. QED
      BY <2>4, <3>1, <1>2 DEF ParkedCounts
  <2>5. QED
    BY <1>1, <2>1, <2>2, <2>3, <2>4 DEF ParkStep
<1>4. QED
  BY <1>1, <1>3 DEF ParkStep, ParkedCounts

\* A directory is given up only by a step that says so.
LEMMA NextSettled ==
    ASSUME Shape, Typed', Settled, [Next]_vars
    PROVE  Settled'
<1> USE PoolAssumption
    DEF Shape, Typed, Labels, Values, Hands, Pending, Below, Busy, Finished,
        States, vars, dirs, park, mine, Goto, Settled, Unwound
<1>1. ASSUME NEW w \in Workers, Pop(w) PROVE Settled'
  BY <1>1 DEF Pop, TakeJob, Queue
<1>2. ASSUME NEW w \in Workers, Steal(w) PROVE Settled'
  BY <1>2 DEF Steal, TakeJob, Queue, Source
<1>3. ASSUME NEW w \in Workers, LookFurther(w) PROVE Settled'
  BY <1>3 DEF LookFurther, Source
<1>4. ASSUME NEW w \in Workers, OpenParked(w) PROVE Settled'
  BY <1>4 DEF OpenParked
<1>5. ASSUME NEW w \in Workers, Reopen(w) PROVE Settled'
  BY <1>5 DEF Reopen
<1>6. ASSUME NEW w \in Workers, ReopenFails(w) PROVE Settled'
  BY <1>6 DEF ReopenFails, SkipJob
<1>7. ASSUME NEW w \in Workers, ListingFails(w) PROVE Settled'
  <2>1. /\ incomplete'
        /\ state' = [state EXCEPT ![job[w]] = "dropped"] /\ state[job[w]] = "running"
    BY <1>7 DEF ListingFails, SkipJob
  <2>2. \A v \in Workers : pc[v] \in Unwound => pc'[v] \in Unwound
    BY <1>7 DEF ListingFails, SkipJob
  <2>3. QED
    BY <2>1, <2>2
<1>8. ASSUME NEW w \in Workers, List(w) PROVE Settled'
  BY <1>8 DEF List
<1>9. ASSUME NEW w \in Workers, StatFirst(w) PROVE Settled'
  BY <1>9 DEF StatFirst, Entries
<1>10. ASSUME NEW w \in Workers, PastBudget(w) PROVE Settled'
  BY <1>10 DEF PastBudget, ToQueue, Entries
<1>11. ASSUME NEW w \in Workers, WithinBudget(w) PROVE Settled'
  BY <1>11 DEF WithinBudget, ToQueue, Entries
<1>12. ASSUME NEW w \in Workers, OpenChild(w) PROVE Settled'
  BY <1>12 DEF OpenChild, Settle
<1>13. ASSUME NEW w \in Workers, OpenFails(w) PROVE Settled'
  BY <1>13 DEF OpenFails, Settle
<1>14. ASSUME NEW w \in Workers, Panic(w) PROVE Settled'
  BY <1>14 DEF Panic, Entries, Found
<1>15. ASSUME NEW w \in Workers, ReadDone(w) PROVE Settled'
  BY <1>15 DEF ReadDone, Entries, Found
<1>16. ASSUME NEW w \in Workers, Push(w) PROVE Settled'
  BY <1>16 DEF Push, Found
<1>17. ASSUME NEW w \in Workers, Pushed(w) PROVE Settled'
  BY <1>17 DEF Pushed, Found
<1>18. ASSUME NEW w \in Workers, Wake(w) PROVE Settled'
  <2>1. UNCHANGED <<state, incomplete>>
    BY <1>18 DEF Wake
  <2>2. \A v \in Workers : pc[v] \in Unwound => pc'[v] \in Unwound
    BY <1>18 DEF Wake, NotifyAll
  <2>3. QED
    BY ONLY <2>1, <2>2, Settled DEF Settled
<1>19. ASSUME NEW w \in Workers, Retire(w) PROVE Settled'
  BY <1>19 DEF Retire
<1>20. ASSUME NEW w \in Workers, WakeAllFinal(w) PROVE Settled'
  <2>1. UNCHANGED <<state, incomplete>>
    BY <1>20 DEF WakeAllFinal
  <2>2. \A v \in Workers : pc[v] \in Unwound => pc'[v] \in Unwound
    BY <1>20 DEF WakeAllFinal, NotifyAll
  <2>3. QED
    BY ONLY <2>1, <2>2, Settled DEF Settled
<1>21. ASSUME NEW w \in Workers, Check(w) PROVE Settled'
  BY <1>21 DEF Check
<1>22. ASSUME NEW w \in Workers, Lock(w) PROVE Settled'
  BY <1>22 DEF Lock
<1>23. ASSUME NEW w \in Workers, Recheck(w) PROVE Settled'
  BY <1>23 DEF Recheck
<1>24. ASSUME NEW w \in Workers, WakeUp(w) PROVE Settled'
  BY <1>24 DEF WakeUp
<1>25. ASSUME NEW w \in Workers, Timeout(w) PROVE Settled'
  BY <1>25 DEF Timeout
<1>26. CASE UNCHANGED vars
  <2>1. Settled'
    BY <1>26
  <2>2. QED
    BY <2>1
<1>27. QED
  BY <1>1, <1>2, <1>3, <1>4, <1>5, <1>6, <1>7, <1>8, <1>9, <1>10, <1>11, <1>12, <1>13, <1>14,
     <1>15, <1>16, <1>17, <1>18, <1>19, <1>20, <1>21, <1>22, <1>23, <1>24, <1>25, <1>26
     DEF Next, Work, Join

\* A step that takes no descriptor and begins no openat.
Narrower == Opening' \in SUBSET Opening /\ liveFds' \in Int /\ liveFds' <= liveFds

\* Only an openat that has begun adds a descriptor, and it begins below the budget.
LEMMA NextFdBound ==
    ASSUME Typed, FdBound, [Next]_vars
    PROVE  FdBound'
<1> USE DEF Typed, Labels, Values, vars, dirs, Goto, Narrower
<1>a. IsFiniteSet(Workers) /\ Cardinality(Workers) = N
  BY PoolAssumption, FS_Interval DEF Workers
<1>b. IsFiniteSet(Opening) /\ Cardinality(Opening) \in Nat
  BY <1>a, FS_Subset, FS_CardinalityType DEF Opening
<1>c. Narrower => FdBound'
  <2>1. ASSUME Narrower
        PROVE  Cardinality(Opening') \in Nat /\ Cardinality(Opening') <= Cardinality(Opening)
    BY <2>1, <1>b, FS_Subset, FS_CardinalityType
  <2>2. QED
    BY <2>1, <1>b, PoolAssumption DEF FdBound
<1>1. ASSUME NEW w \in Workers, Pop(w) PROVE Narrower
  BY <1>1 DEF Pop, TakeJob, Queue, Opening
<1>2. ASSUME NEW w \in Workers, Steal(w) PROVE Narrower
  BY <1>2 DEF Steal, TakeJob, Queue, Source, Opening
<1>3. ASSUME NEW w \in Workers, LookFurther(w) PROVE Narrower
  BY <1>3 DEF LookFurther, Source, Opening
<1>4. ASSUME NEW w \in Workers, OpenParked(w) PROVE Narrower
  BY <1>4 DEF OpenParked, Opening
<1>5. ASSUME NEW w \in Workers, Reopen(w) PROVE Narrower
  BY <1>5 DEF Reopen, Opening
<1>6. ASSUME NEW w \in Workers, ReopenFails(w) PROVE Narrower
  BY <1>6 DEF ReopenFails, SkipJob, Opening
<1>7. ASSUME NEW w \in Workers, ListingFails(w) PROVE Narrower
  BY <1>7 DEF ListingFails, SkipJob, Opening
<1>8. ASSUME NEW w \in Workers, List(w) PROVE Narrower
  BY <1>8 DEF List, Opening
<1>9. ASSUME NEW w \in Workers, StatFirst(w) PROVE Narrower
  BY <1>9 DEF StatFirst, Entries, Opening
<1>10. ASSUME NEW w \in Workers, PastBudget(w) PROVE Narrower
  BY <1>10 DEF PastBudget, ToQueue, Entries, Opening
<1>11. ASSUME NEW w \in Workers, WithinBudget(w) PROVE FdBound'
  <2>1. liveFds < FdCap /\ liveFds' = liveFds
    BY <1>11 DEF WithinBudget
  <2>2. Cardinality(Opening') \in Nat /\ Cardinality(Opening') <= N
    BY <1>a, FS_Subset, FS_CardinalityType DEF Opening
  <2>3. QED
    BY <2>1, <2>2, PoolAssumption DEF FdBound
<1>12. ASSUME NEW w \in Workers, OpenChild(w) PROVE FdBound'
  <2>1. w \in Opening /\ Opening' = Opening \ {w} /\ liveFds' = liveFds + 1
    BY <1>12 DEF OpenChild, Settle, Opening
  <2>2. Cardinality(Opening') = Cardinality(Opening) - 1
    BY <2>1, <1>b, FS_RemoveElement
  <2>3. QED
    BY <2>1, <2>2, <1>b, PoolAssumption DEF FdBound
<1>13. ASSUME NEW w \in Workers, OpenFails(w) PROVE Narrower
  BY <1>13 DEF OpenFails, Settle, Opening
<1>14. ASSUME NEW w \in Workers, Panic(w) PROVE Narrower
  BY <1>14 DEF Panic, Entries, Found, Opening
<1>15. ASSUME NEW w \in Workers, ReadDone(w) PROVE Narrower
  BY <1>15 DEF ReadDone, Entries, Found, Opening
<1>16. ASSUME NEW w \in Workers, Push(w) PROVE Narrower
  BY <1>16 DEF Push, Found, Opening
<1>17. ASSUME NEW w \in Workers, Pushed(w) PROVE Narrower
  BY <1>17 DEF Pushed, Found, Opening
<1>18. ASSUME NEW w \in Workers, Wake(w) PROVE Narrower
  BY <1>18 DEF Wake, NotifyAll, Opening
<1>19. ASSUME NEW w \in Workers, Retire(w) PROVE Narrower
  BY <1>19 DEF Retire, Opening
<1>20. ASSUME NEW w \in Workers, WakeAllFinal(w) PROVE Narrower
  BY <1>20 DEF WakeAllFinal, NotifyAll, Opening
<1>21. ASSUME NEW w \in Workers, Check(w) PROVE Narrower
  BY <1>21 DEF Check, Opening
<1>22. ASSUME NEW w \in Workers, Lock(w) PROVE Narrower
  BY <1>22 DEF Lock, Opening
<1>23. ASSUME NEW w \in Workers, Recheck(w) PROVE Narrower
  BY <1>23 DEF Recheck, Opening
<1>24. ASSUME NEW w \in Workers, WakeUp(w) PROVE Narrower
  BY <1>24 DEF WakeUp, Opening
<1>25. ASSUME NEW w \in Workers, Timeout(w) PROVE Narrower
  BY <1>25 DEF Timeout, Opening
<1>26. CASE UNCHANGED vars
  <2>1. Narrower
    BY <1>26 DEF Opening
  <2>2. QED
    BY <2>1, <1>c
<1>27. QED
  BY <1>1, <1>2, <1>3, <1>4, <1>5, <1>6, <1>7, <1>8, <1>9, <1>10, <1>11, <1>12, <1>13, <1>14,
     <1>15, <1>16, <1>17, <1>18, <1>19, <1>20, <1>21, <1>22, <1>23, <1>24, <1>25, <1>26, <1>c
     DEF Next, Work, Join

-----------------------------------------------------------------------------
(* The invariant, and what follows from it.                                *)

\* The invariant holds at first, and is kept.
LEMMA InitInvariant == Init => IInv
<1> SUFFICES ASSUME Init PROVE IInv
  OBVIOUS
<1>1. Shape
  BY InitShape
<1>2. InFlightCounts
  <2>1. Counted = Initial
    BY PoolAssumption DEF Init, Counted
  <2>2. QED
    BY <2>1 DEF Init, InFlightCounts
<1>3. SleepersCount
  <2>1. Sleeping = {}
    BY DEF Init, Sleeping
  <2>2. QED
    BY <2>1, FS_EmptySet DEF Init, SleepersCount
<1>4. IsFiniteSet(parked) /\ Cardinality(parked) \in Nat /\ parked \subseteq Initial
  BY PoolAssumption, FS_Subset, FS_CardinalityType DEF Init
<1>5. ParkedCounts
  <2>1. \A d \in parked : ParkedAt(d)
    BY <1>4, PoolAssumption DEF Init, ParkedAt
  <2>2. QED
    BY <2>1, <1>4 DEF Init, ParkedCounts
<1>6. Exit
  BY DEF Init, Exit
<1>7. Settled
  BY PoolAssumption DEF Init, Settled
<1>8. FdBound
  <2>1. Opening = {}
    BY DEF Init, Opening
  <2>2. liveFds \in Nat /\ liveFds <= FdCap
    BY <1>4 DEF Init
  <2>3. QED
    BY <2>1, <2>2, FS_EmptySet, PoolAssumption DEF FdBound
<1>9. QED
  BY <1>1, <1>2, <1>3, <1>5, <1>6, <1>7, <1>8 DEF IInv

\* Each part from the lemma about it.
LEMMA NextInvariant == IInv /\ [Next]_vars => IInv'
<1> SUFFICES ASSUME IInv, [Next]_vars PROVE IInv'
  OBVIOUS
<1> USE DEF IInv
<1>1. Typed'
  BY NextTyped
<1>2. Typed
  BY DEF Shape
<1>3. Shape'
  BY <1>1, NextRest DEF Shape
<1>4. InFlightCounts' /\ Exit'
  BY <1>1, NextCounted
<1>5. SleepersCount'
  BY <1>1, <1>2, NextSleepers
<1>6. ParkedCounts'
  BY <1>1, NextParked
<1>7. Settled'
  BY <1>1, NextSettled
<1>8. FdBound'
  BY <1>2, NextFdBound
<1>9. QED
  BY <1>3, <1>4, <1>5, <1>6, <1>7, <1>8

\* The invariant holds of every state the pool reaches, for any number of workers,
\* any tree and any budget.
THEOREM Invariance == Spec => []IInv
<1>1. QED
  BY InitInvariant, NextInvariant, PTL DEF Spec

\* A zero of in_flight is not transient: nothing is left to do.
LEMMA ZeroIsFinal ==
    ASSUME IInv, inFlight = 0
    PROVE  /\ \A d \in Dirs : state[d] \notin {"entry", "found", "queued", "running"}
           /\ \A w \in Workers : job[w] = NoDir
<1>1. Counted = {}
  <2>1. IsFiniteSet(Counted)
    BY PoolAssumption, FS_Subset DEF Counted
  <2>2. QED
    BY <2>1, FS_EmptySet DEF IInv, InFlightCounts
<1>2. \A w \in Workers : job[w] = NoDir
  BY <1>1 DEF IInv, Shape, Typed, Values, Counted
<1>3. \A w \in Workers : pc[w] \notin Busy
  BY <1>2 DEF IInv, Shape, Hands
<1>4. \A d \in Dirs : state[d] \notin {"queued", "running"}
  BY <1>1, <1>2, PoolAssumption DEF IInv, Shape, Hands, Counted
<1>5. \A d \in Dirs : state[d] \notin {"entry", "found"}
  BY <1>3 DEF IInv, Shape, Pending, Busy
<1>6. QED
  BY <1>2, <1>4, <1>5

\* TypeOK holds: the counters never go below zero, and the sleepers are never
\* more than the workers.
THEOREM TypeCorrect == Spec => []TypeOK
<1>1. IInv => TypeOK
  <2> SUFFICES ASSUME IInv PROVE TypeOK
    OBVIOUS
  <2>1. inFlight \in Nat
    <3>1. IsFiniteSet(Counted)
      BY PoolAssumption, FS_Subset DEF Counted
    <3>2. QED
      BY <3>1, FS_CardinalityType DEF IInv, InFlightCounts
  <2>2. liveFds \in Nat
    <3>1. IsFiniteSet(parked) /\ Cardinality(parked) \in Nat
      BY PoolAssumption, FS_Subset, FS_CardinalityType DEF IInv, Shape, Typed, Values
    <3>2. QED
      BY <3>1 DEF IInv, ParkedCounts, Shape, Typed, Values
  <2>3. sleepers \in 0 .. N
    <3>1. IsFiniteSet(Workers) /\ Cardinality(Workers) = N
      BY PoolAssumption, FS_Interval DEF Workers
    <3>2. Cardinality(Sleeping) \in Nat /\ Cardinality(Sleeping) <= N
      BY <3>1, FS_Subset, FS_CardinalityType DEF Sleeping
    <3>3. QED
      BY <3>2, PoolAssumption DEF IInv, SleepersCount
  <2>4. QED
    BY <2>1, <2>2, <2>3 DEF IInv, Shape, Typed, Labels, Values, TypeOK
<1>2. QED
  BY Invariance, <1>1, PTL

\* The termination test never sees a transient zero, however the workers pop,
\* steal, push and retire.
THEOREM NeverEarly == Spec => []NoEarlyExit
<1>1. IInv => NoEarlyExit
  BY ZeroIsFinal DEF NoEarlyExit, IInv, Exit
<1>2. QED
  BY Invariance, <1>1, PTL

\* The soft bound on parked descriptors is fd_cap + N - 1, and no more.
THEOREM FdBounded == Spec => []FdSoftBound
<1>1. IInv => FdSoftBound
  BY DEF IInv, FdBound, Opening, FdSoftBound
<1>2. QED
  BY Invariance, <1>1, PTL

\* A walk that returns has taken every parked descriptor back.
THEOREM NoneLeftParked == Spec => []DescriptorsGivenBack
<1>1. IInv => DescriptorsGivenBack
  <2> SUFFICES ASSUME IInv, \A w \in Workers : pc[w] = "done"
               PROVE  liveFds = 0 /\ parked = {}
    BY DEF DescriptorsGivenBack
  <2>1. 1 \in Workers
    BY PoolAssumption DEF Workers
  <2>2. inFlight = 0
    BY <2>1 DEF IInv, Exit
  <2>3. parked = {}
    BY <2>2, ZeroIsFinal DEF IInv, Shape, Typed, Values, ParkedCounts, ParkedAt
  <2>4. \A w \in Workers : pc[w] \notin Unwound
    BY DEF Unwound
  <2>5. Cardinality(parked) = liveFds
    BY <2>4 DEF IInv, ParkedCounts
  <2>6. QED
    BY <2>3, <2>5, FS_EmptySet
<1>2. QED
  BY Invariance, <1>1, PTL

\* A walk that returns without calling itself incomplete has settled every
\* directory it knew of.
THEOREM WalkIsComplete == Spec => []CompleteOrFlagged
<1>1. IInv => CompleteOrFlagged
  <2> SUFFICES ASSUME IInv, \A w \in Workers : pc[w] = "done", ~incomplete,
                      NEW d \in Dirs,
                      d \in Initial \/ \E e \in Dirs : d \in Children[e] /\ state[e] = "read"
               PROVE  state[d] \in {"read", "listed", "gone"}
    BY DEF CompleteOrFlagged
  <2>1. 1 \in Workers
    BY PoolAssumption DEF Workers
  <2>2. state[d] \notin {"entry", "found", "queued", "running"}
    BY <2>1, ZeroIsFinal DEF IInv, Exit
  <2>3. state[d] # "unseen"
    <3>1. CASE d \in Initial
      BY <3>1 DEF IInv, Settled
    <3>2. CASE \E e \in Dirs : d \in Children[e] /\ state[e] = "read"
      BY <3>2 DEF IInv, Settled
    <3>3. QED
      BY <3>1, <3>2
  <2>5. state[d] # "dropped"
    BY DEF IInv, Settled
  <2>6. \A w \in Workers : pc[w] \notin Unwound
    BY DEF Unwound
  <2>7. state[d] # "lost"
    BY <2>6 DEF IInv, Settled
  <2>4. state[d] \in States
    BY DEF IInv, Shape, Typed, Labels
  <2>8. QED
    BY <2>2, <2>3, <2>4, <2>5, <2>7 DEF States
<1>2. QED
  BY Invariance, <1>1, PTL

-----------------------------------------------------------------------------
(* The refinement.                                                         *)

Frontier == {d \in Dirs : state[d] \in {"entry", "found", "queued", "running"}}
Over     == \E w \in Workers : pc[w] = "done"

\* A step the walk does not see.
Stutter == Frontier' = Frontier /\ incomplete' = incomplete /\ Over' = Over

\* What the walk may make of it: nothing, the return, or one directory settled.
AbstractStep ==
    \/ Stutter
    \/ Frontier = {} /\ Frontier' = Frontier /\ Over' /\ incomplete' = incomplete
    \/ /\ ~Over /\ Over' = Over
       /\ \E d \in Frontier \cap Dirs :
             \/ Frontier' = (Frontier \ {d}) \cup Children[d] /\ incomplete' = incomplete
             \/ Frontier' = Frontier \ {d} /\ (incomplete' = incomplete \/ incomplete' = TRUE)

\* Every step of the pool is one of the walk, or none.
LEMMA NextAbstract ==
    ASSUME IInv, IInv', Panics = {}, [Next]_vars
    PROVE  AbstractStep
<1> USE DEF Shape, Typed, Labels, Values, Hands, Pending, Busy, vars, dirs, park, mine, Goto, IInv
<1>a. \A w \in Workers : job[w] # NoDir => ~Over
  BY ZeroIsFinal DEF Exit, Over
<1>1. ASSUME NEW w \in Workers, Pop(w) PROVE Stutter
  BY <1>1 DEF Pop, TakeJob, Queue, Stutter, Frontier, Over
<1>2. ASSUME NEW w \in Workers, Steal(w) PROVE Stutter
  BY <1>2 DEF Steal, TakeJob, Queue, Source, Stutter, Frontier, Over
<1>3. ASSUME NEW w \in Workers, LookFurther(w) PROVE Stutter
  BY <1>3 DEF LookFurther, Source, Stutter, Frontier, Over
<1>4. ASSUME NEW w \in Workers, OpenParked(w) PROVE Stutter
  BY <1>4 DEF OpenParked, Stutter, Frontier, Over
<1>5. ASSUME NEW w \in Workers, Reopen(w) PROVE Stutter
  BY <1>5 DEF Reopen, Stutter, Frontier, Over
<1>6. ASSUME NEW w \in Workers, ReopenFails(w) PROVE AbstractStep
  <2>1. job[w] \in Dirs /\ state[job[w]] = "running" /\ ~Over
    BY <1>6, <1>a DEF ReopenFails
  <2>2. Over' = Over
    BY <1>6 DEF ReopenFails, SkipJob, Over
  <2>3. Frontier' = Frontier \ {job[w]} /\ job[w] \in Frontier
    BY <1>6, <2>1 DEF ReopenFails, SkipJob, Frontier
  <2>4. \/ incomplete' = incomplete
        \/ incomplete' = TRUE
    BY <1>6 DEF ReopenFails, SkipJob
  <2>5. QED
    BY <2>1, <2>2, <2>3, <2>4 DEF AbstractStep, Stutter
<1>7. ASSUME NEW w \in Workers, ListingFails(w) PROVE AbstractStep
  <2>1. job[w] \in Dirs /\ state[job[w]] = "running" /\ ~Over
    BY <1>7, <1>a DEF ListingFails
  <2>2. Over' = Over
    BY <1>7 DEF ListingFails, SkipJob, Over
  <2>3. Frontier' = Frontier \ {job[w]} /\ job[w] \in Frontier
    BY <1>7, <2>1 DEF ListingFails, SkipJob, Frontier
  <2>4. \/ incomplete' = incomplete
        \/ incomplete' = TRUE
    BY <1>7 DEF ListingFails, SkipJob
  <2>5. QED
    BY <2>1, <2>2, <2>3, <2>4 DEF AbstractStep, Stutter
<1>8. ASSUME NEW w \in Workers, List(w) PROVE AbstractStep
  <2>1. job[w] \in Dirs /\ state[job[w]] = "running" /\ ~Over
    BY <1>8, <1>a DEF List
  <2>2. Over' = Over /\ incomplete' = incomplete
    BY <1>8 DEF List, Over
  <2>3. Frontier' = (Frontier \ {job[w]}) \cup Children[job[w]] /\ job[w] \in Frontier
    <3>1. \A c \in Children[job[w]] : c \in Dirs /\ c # job[w] /\ state'[c] = "entry"
      BY <1>8, <2>1, PoolAssumption DEF List
    <3>2. state'[job[w]] \in Finished
      BY <1>8, <2>1, PoolAssumption DEF List, Finished
    <3>3. \A d \in Dirs \ (Children[job[w]] \cup {job[w]}) : state'[d] = state[d]
      BY <1>8 DEF List
    <3>4. QED
      BY <2>1, <3>1, <3>2, <3>3 DEF Frontier, Finished
  <2>4. QED
    BY <2>1, <2>2, <2>3 DEF AbstractStep, Stutter
<1>9. ASSUME NEW w \in Workers, StatFirst(w) PROVE AbstractStep
  <2>1. ~Over
    BY <1>9, <1>a DEF StatFirst
  <2>2. PICK c \in Entries(w) \cap Repos : state' = [state EXCEPT ![c] = "listed"]
    BY <1>9 DEF StatFirst
  <2>3. Over' = Over /\ incomplete' = incomplete
    BY <1>9 DEF StatFirst, Over
  <2>4. c \in Dirs /\ c \in Frontier /\ Frontier' = Frontier \ {c}
    BY <2>2 DEF Entries, Frontier
  <2>5. QED
    BY <2>1, <2>3, <2>4 DEF AbstractStep, Stutter
<1>10. ASSUME NEW w \in Workers, PastBudget(w) PROVE Stutter
  BY <1>10 DEF PastBudget, ToQueue, Entries, Stutter, Frontier, Over
<1>11. ASSUME NEW w \in Workers, WithinBudget(w) PROVE Stutter
  BY <1>11 DEF WithinBudget, ToQueue, Entries, Stutter, Frontier, Over
<1>12. ASSUME NEW w \in Workers, OpenChild(w) PROVE Stutter
  BY <1>12 DEF OpenChild, Settle, Stutter, Frontier, Over
<1>13. ASSUME NEW w \in Workers, OpenFails(w) PROVE AbstractStep
  <2>1. child[w] \in Dirs /\ state[child[w]] = "entry" /\ ~Over
    BY <1>13, <1>a DEF OpenFails
  <2>2. Over' = Over
    BY <1>13 DEF OpenFails, Settle, Over
  <2>3. PICK o \in {"listed", "found", "gone", "dropped"} : Settle(w, o)
    BY <1>13 DEF OpenFails
  <2>4. CASE o = "found"
    <3>1. Frontier' = Frontier
      BY <2>1, <2>3, <2>4 DEF Settle, Frontier
    <3>2. incomplete' = incomplete
      BY <2>3, <2>4 DEF Settle
    <3>3. QED
      BY <2>2, <3>1, <3>2 DEF AbstractStep, Stutter
  <2>5. CASE o # "found"
    <3>1. child[w] \in Frontier /\ Frontier' = Frontier \ {child[w]}
      BY <2>1, <2>3, <2>5 DEF Settle, Frontier
    <3>2. incomplete' = incomplete \/ incomplete' = TRUE
      BY <2>3, <2>5 DEF Settle
    <3>3. QED
      BY <2>1, <2>2, <3>1, <3>2 DEF AbstractStep, Stutter
  <2>6. QED
    BY <2>4, <2>5
<1>14. ASSUME NEW w \in Workers, Panic(w) PROVE AbstractStep
  BY <1>14, PoolAssumption DEF Panic
<1>15. ASSUME NEW w \in Workers, ReadDone(w) PROVE Stutter
  BY <1>15 DEF ReadDone, Entries, Found, Stutter, Frontier, Over
<1>16. ASSUME NEW w \in Workers, Push(w) PROVE Stutter
  BY <1>16 DEF Push, Found, Stutter, Frontier, Over
<1>17. ASSUME NEW w \in Workers, Pushed(w) PROVE Stutter
  BY <1>17 DEF Pushed, Found, Stutter, Frontier, Over
<1>18. ASSUME NEW w \in Workers, Wake(w) PROVE AbstractStep
  <2>1. \A v \in Workers : pc'[v] = "done" <=> pc[v] = "done"
    BY <1>18 DEF Wake, NotifyAll
  <2>2. UNCHANGED <<state, incomplete>>
    BY <1>18 DEF Wake
  <2>3. QED
    BY <2>1, <2>2 DEF AbstractStep, Stutter, Frontier, Over
<1>19. ASSUME NEW w \in Workers, Retire(w) PROVE Stutter
  BY <1>19 DEF Retire, Stutter, Frontier, Over
<1>20. ASSUME NEW w \in Workers, WakeAllFinal(w) PROVE AbstractStep
  <2>1. \A v \in Workers : pc'[v] = "done" <=> pc[v] = "done"
    BY <1>20 DEF WakeAllFinal, NotifyAll
  <2>2. UNCHANGED <<state, incomplete>>
    BY <1>20 DEF WakeAllFinal
  <2>3. QED
    BY <2>1, <2>2 DEF AbstractStep, Stutter, Frontier, Over
<1>21. ASSUME NEW w \in Workers, Check(w) PROVE AbstractStep
  <2>1. UNCHANGED <<state, incomplete>> /\ (Over' = Over \/ (inFlight = 0 /\ Over'))
    BY <1>21 DEF Check, Over
  <2>2. inFlight = 0 => Frontier = {}
    BY ZeroIsFinal DEF Frontier
  <2>3. Frontier' = Frontier
    BY <2>1 DEF Frontier
  <2>4. QED
    BY <2>1, <2>2, <2>3 DEF AbstractStep, Stutter
<1>22. ASSUME NEW w \in Workers, Lock(w) PROVE Stutter
  BY <1>22 DEF Lock, Stutter, Frontier, Over
<1>23. ASSUME NEW w \in Workers, Recheck(w) PROVE AbstractStep
  <2>1. UNCHANGED <<state, incomplete>> /\ (Over' = Over \/ (inFlight = 0 /\ Over'))
    BY <1>23 DEF Recheck, Over
  <2>2. inFlight = 0 => Frontier = {}
    BY ZeroIsFinal DEF Frontier
  <2>3. Frontier' = Frontier
    BY <2>1 DEF Frontier
  <2>4. QED
    BY <2>1, <2>2, <2>3 DEF AbstractStep, Stutter
<1>24. ASSUME NEW w \in Workers, WakeUp(w) PROVE Stutter
  BY <1>24 DEF WakeUp, Stutter, Frontier, Over
<1>25. ASSUME NEW w \in Workers, Timeout(w) PROVE Stutter
  BY <1>25 DEF Timeout, Stutter, Frontier, Over
<1>26. CASE UNCHANGED vars
  <2>1. Stutter
    BY <1>26 DEF Stutter, Frontier, Over
  <2>2. QED
    BY <2>1 DEF AbstractStep
<1>27. QED
  BY <1>1, <1>2, <1>3, <1>4, <1>5, <1>6, <1>7, <1>8, <1>9, <1>10, <1>11, <1>12, <1>13, <1>14,
     <1>15, <1>16, <1>17, <1>18, <1>19, <1>20, <1>21, <1>22, <1>23, <1>24, <1>25, <1>26
     DEF Next, Work, Join, AbstractStep

\* The pool implements the walk, when no reading panics: work-stealing, the
\* descriptor budget and the parking of idle workers neither lose a directory nor
\* take one up twice.
THEOREM PoolWalks == Panics = {} => (Spec => WalkSpec)
<1> SUFFICES ASSUME Panics = {} PROVE Spec => WalkSpec
  OBVIOUS
<1>1. Init => Walk!Init
  BY PoolAssumption DEF Init, Walk!Init
<1>2. IInv /\ IInv' /\ [Next]_vars => [Walk!Next]_<<Frontier, incomplete, Over>>
  <2> SUFFICES ASSUME IInv, IInv', [Next]_vars
               PROVE  [Walk!Next]_<<Frontier, incomplete, Over>>
    OBVIOUS
  <2>1. AbstractStep
    BY NextAbstract
  <2>2. CASE Stutter
    BY <2>2 DEF Stutter
  <2>3. CASE Frontier = {} /\ Frontier' = Frontier /\ Over' /\ incomplete' = incomplete
    BY <2>3 DEF Walk!Next, Walk!Return, Frontier, Over
  <2>4. CASE /\ ~Over /\ Over' = Over
             /\ \E d \in Frontier \cap Dirs :
                   \/ Frontier' = (Frontier \ {d}) \cup Children[d] /\ incomplete' = incomplete
                   \/ Frontier' = Frontier \ {d} /\ (incomplete' = incomplete \/ incomplete' = TRUE)
    BY <2>4 DEF Walk!Next, Walk!Visit, Walk!Read, Walk!Settle, Walk!Drop, Frontier, Over
  <2>5. QED
    BY <2>1, <2>2, <2>3, <2>4 DEF AbstractStep
<1>3. QED
  BY <1>1, <1>2, Invariance, PTL DEF Spec, WalkSpec, Walk!Spec, Frontier, Over
===============================================================================
