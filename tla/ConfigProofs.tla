---------------------------- MODULE ConfigProofs ----------------------------
(***************************************************************************)
(* Proofs about Config, for any threads, gitconfig files, environments,    *)
(* command lines, failures and edits: first the urlmatch memo, whatever    *)
(* git answers and whatever the operators of Url and Sources compute; then *)
(* the roots a listing walks, from what is read of the files; then what    *)
(* scap makes of the files against what git makes of them; and the remotes *)
(* of a repository against the repository.                                 *)
(***************************************************************************)
EXTENDS Config, FiniteSetTheorems, FunctionTheorems, SequenceTheorems, WellFoundedInduction, TLAPS

Controls == {"start", "idle", "resolve", "slot", "done"}

Shapes ==
  /\ pc \in [Workers -> Controls]
  /\ DOMAIN job = Workers
  /\ failures \in 0..MaxFailures /\ edits \in {0, 1}

\* Before there is a snapshot nobody works, and nothing is decided.
NobodyBefore ==
  snap.err # None => went = {} /\ \A w \in Workers : pc[w] \in {"start", "done"}

\* A thread has a target in hand just while it resolves it.
InHand == \A w \in Workers : pc[w] \in {"resolve", "slot"} <=> job[w] # NoJob

\* A thread that asks has the lock of its remote's slot, and had to ask.
HasSlot ==
  \A w \in Workers : pc[w] = "slot" =>
    /\ Asked(w) \in DOMAIN holder /\ holder[Asked(w)] = w
    /\ Delegates(env, snap, Asked(w))

HoldersAsk == \A u \in DOMAIN holder : holder[u] \in Workers

AnsweredOnce ==
  /\ DOMAIN memo = DOMAIN answered
  /\ \A u \in DOMAIN answered : answered[u] = 1

\* What git said of a remote, if it was to be asked.
Known(u) == IF Delegates(env, snap, u) THEN memo[u] ELSE None

\* Every decision follows from the snapshot and what the memo still says.
Founded(d) ==
  /\ Delegates(env, snap, d.remote) => d.remote \in DOMAIN memo
  /\ d.dest[1] = root_for_url(env, snap, d.remote, Known(d.remote))

MemoInv ==
  /\ Shapes /\ NobodyBefore /\ InHand
  /\ HasSlot /\ HoldersAsk /\ WaitsForItsAnswer
  /\ AnsweredOnce
  /\ \A d \in went : Founded(d)

-----------------------------------------------------------------------------
LEMMA NotLoadedFails == NotLoaded.err # None
BY DEF NotLoaded, ConfigError, None

LEMMA InitMemoInv == Init => MemoInv
<1> SUFFICES ASSUME Init PROVE MemoInv
  OBVIOUS
<1>1. Shapes
  BY MaxFailuresAssumption DEF Init, Shapes, Controls
<1>2. NobodyBefore /\ InHand
  BY DEF Init, NobodyBefore, InHand
<1>3. HasSlot /\ HoldersAsk /\ WaitsForItsAnswer /\ AnsweredOnce
  BY DEF Init, HasSlot, HoldersAsk, WaitsForItsAnswer, AnsweredOnce
<1>4. \A d \in went : Founded(d)
  BY DEF Init
<1> QED
  BY <1>1, <1>2, <1>3, <1>4 DEF MemoInv

\* A thread lets go of its target: it failed, or its place is known.
LetsGo(w) ==
  /\ \E l \in {"idle", "done"} : pc' = [pc EXCEPT ![w] = l]
  /\ job' = [job EXCEPT ![w] = NoJob]

LEMMA ErrorLetsGo == ASSUME NEW w \in Workers, AfterError(w) PROVE LetsGo(w)
BY DEF AfterError, LetsGo

LEMMA DecideLetsGo ==
  ASSUME NEW w \in Workers, NEW answer, Decide(w, answer)
  PROVE  /\ LetsGo(w)
         /\ \A d \in went' \ went : /\ d.remote = Asked(w)
                                    /\ d.dest[1] = root_for_url(env, snap, Asked(w), answer)
<1> DEFINE root == root_for_url(env, snap, Asked(w), answer)
<1>1. CASE root = None
  BY <1>1, ErrorLetsGo DEF Decide
<1>2. CASE root # None
  <2>1. LetsGo(w)
    BY <1>2 DEF Decide, LetsGo
  <2>2. \A d \in went' \ went : d.remote = Asked(w) /\ d.dest = << root, rel_path(job[w].repo, req.bare) >>
    BY <1>2 DEF Decide, dest_path
  <2> QED
    BY <2>1, <2>2
<1> QED
  BY <1>1, <1>2

\* What letting go preserves, of a thread that holds no slot or gives it back.
LEMMA LetsGoSafely ==
  ASSUME MemoInv, NEW w \in Workers, LetsGo(w), snap.err = None,
         UNCHANGED << env, snap >>,
         \/ pc[w] # "slot" /\ UNCHANGED holder
         \/ pc[w] = "slot" /\ Unlock(Asked(w))
  PROVE  /\ pc' \in [Workers -> Controls] /\ DOMAIN job' = Workers
         /\ NobodyBefore' /\ InHand' /\ HasSlot' /\ HoldersAsk' /\ WaitsForItsAnswer'
<1> USE DEF MemoInv
<1>1. pc' \in [Workers -> Controls] /\ DOMAIN job' = Workers
  BY DEF Shapes, LetsGo, Controls
<1>2. NobodyBefore'
  BY DEF NobodyBefore
<1>3. InHand'
  BY DEF Shapes, LetsGo, InHand
<1>4. \A v \in Workers : v # w => pc'[v] = pc[v] /\ job'[v] = job[v]
  BY DEF Shapes, LetsGo
<1>5. pc'[w] \in {"idle", "done"}
  BY DEF Shapes, LetsGo
<1>6. \A v \in Workers : v # w /\ pc[v] = "slot" => Asked(v) # Asked(w) \/ pc[w] # "slot"
  BY DEF HasSlot
<1>7. HasSlot'
  BY <1>4, <1>5, <1>6 DEF HasSlot, Unlock, Asked
<1>8. HoldersAsk'
  BY DEF HoldersAsk, Unlock
<1>9. WaitsForItsAnswer'
  <2> SUFFICES ASSUME NEW u \in DOMAIN holder' PROVE pc'[holder'[u]] = "slot" /\ job'[holder'[u]].remote = u
    BY DEF WaitsForItsAnswer, Asked
  <2>1. u \in DOMAIN holder /\ holder'[u] = holder[u]
    BY DEF Unlock
  <2>2. holder[u] # w
    BY <2>1 DEF WaitsForItsAnswer, Unlock
  <2> QED
    BY <1>4, <2>1, <2>2 DEF WaitsForItsAnswer, HoldersAsk, Asked
<1> QED
  BY <1>1, <1>2, <1>3, <1>7, <1>8, <1>9

\* The memo forgets nothing, so what was decided stays founded.
LEMMA FoundedStays ==
  ASSUME NEW d, Founded(d), UNCHANGED << env, snap >>,
         \A u \in DOMAIN memo : u \in DOMAIN memo' /\ memo'[u] = memo[u]
  PROVE  Founded(d)'
BY DEF Founded, Known

LEMMA WorkerIsLoaded ==
  ASSUME MemoInv, NEW w \in Workers, pc[w] \in {"idle", "resolve", "slot"}
  PROVE  snap.err = None
BY DEF MemoInv, NobodyBefore

-----------------------------------------------------------------------------
(* The steps.                                                              *)

LEMMA LoadStep == MemoInv /\ Load => MemoInv'
<1> SUFFICES ASSUME MemoInv, Load PROVE MemoInv'
  OBVIOUS
<1> USE DEF MemoInv
<1>1. went = {} /\ \A w \in Workers : pc[w] \in {"start", "done"}
  BY NotLoadedFails DEF Load, NobodyBefore
<1>2. DOMAIN holder = {}
  BY <1>1 DEF HoldersAsk, WaitsForItsAnswer
<1>3. /\ \A w \in Workers : pc'[w] \in {"idle", "done"}
      /\ pc' \in [Workers -> Controls]
      /\ snap'.err # None => \A w \in Workers : pc'[w] = "done"
  BY DEF Load, Controls
<1>4. Shapes' /\ NobodyBefore'
  BY <1>1, <1>3 DEF Load, Shapes, NobodyBefore
<1>5. InHand' /\ HasSlot'
  BY <1>1, <1>3 DEF Load, InHand, HasSlot
<1>6. HoldersAsk' /\ WaitsForItsAnswer'
  BY <1>2 DEF Load, HoldersAsk, WaitsForItsAnswer
<1>7. AnsweredOnce' /\ \A d \in went' : Founded(d)'
  BY <1>1 DEF Load, AnsweredOnce
<1> QED
  BY <1>4, <1>5, <1>6, <1>7

LEMMA TakeStep == ASSUME MemoInv, NEW w \in Workers, Take(w) PROVE MemoInv'
<1> DEFINE repo == from_input(Head(todo), snap.user, snap.complete_user, env.aws)
           remote == IF req.cmd = "get" /\ repo.host = <<>> THEN repo.original
                     ELSE IF req.ssh THEN repo.ssh_url ELSE repo.https_url
<1>a. snap.err = None
  BY WorkerIsLoaded DEF Take
<1>b. AnsweredOnce' /\ \A d \in went' : Founded(d)'
  BY FoundedStays DEF Take, MemoInv, AnsweredOnce
<1>c. pc[w] = "idle" /\ UNCHANGED << env, snap, holder, failures, edits >>
  BY DEF Take
<1>1. CASE repo.err # None
  <2>1. LetsGo(w)
    BY <1>1, ErrorLetsGo DEF Take
  <2> QED
    BY <2>1, <1>a, <1>b, <1>c, LetsGoSafely DEF MemoInv, Shapes
<1>2. CASE repo.err = None
  <2>1. /\ pc' = [pc EXCEPT ![w] = "resolve"]
        /\ job' = [job EXCEPT ![w] = [input |-> Head(todo), repo |-> repo, remote |-> remote]]
    BY <1>2 DEF Take
  <2>2. [input |-> Head(todo), repo |-> repo, remote |-> remote] # NoJob
    <3>1. NoJob.repo.err = "Empty"
      BY DEF NoJob, UrlError, Repo
    <3> QED
      BY <1>2, <3>1 DEF None
  <2> HIDE DEF repo, remote
  <2> USE <1>c DEF MemoInv, Shapes
  <2>3. Shapes' /\ NobodyBefore'
    BY <2>1, <1>a DEF Controls, NobodyBefore
  <2>4. InHand'
    BY <2>1, <2>2 DEF InHand
  <2>5. HasSlot' /\ HoldersAsk' /\ WaitsForItsAnswer'
    BY <2>1 DEF HasSlot, HoldersAsk, WaitsForItsAnswer, Asked
  <2> QED
    BY <2>3, <2>4, <2>5, <1>b
<1> QED
  BY <1>1, <1>2

LEMMA ResolveStep == ASSUME MemoInv, NEW w \in Workers, Resolve(w) PROVE MemoInv'
<1>a. snap.err = None
  BY WorkerIsLoaded DEF Resolve
<1>1. /\ LetsGo(w)
      /\ \A d \in went' \ went : d.remote = Asked(w) /\ d.dest[1] = root_for_url(env, snap, Asked(w), None)
  BY DecideLetsGo DEF Resolve
<1>2. pc[w] # "slot" /\ ~Delegates(env, snap, Asked(w)) /\ UNCHANGED << env, snap, memo, holder, answered, failures, edits >>
  BY DEF Resolve
<1>3. ASSUME NEW d \in went' PROVE Founded(d)'
  <2>1. CASE d \in went
    BY <1>2, <2>1, FoundedStays DEF MemoInv
  <2>2. CASE d \notin went
    BY <1>1, <1>2, <2>2 DEF Founded, Known
  <2> QED
    BY <2>1, <2>2
<1> QED
  BY <1>a, <1>1, <1>2, <1>3, LetsGoSafely DEF MemoInv, Shapes, AnsweredOnce

LEMMA LockSlotStep == ASSUME MemoInv, NEW w \in Workers, LockSlot(w) PROVE MemoInv'
<1> USE DEF MemoInv
<1>a. snap.err = None
  BY WorkerIsLoaded DEF LockSlot
<1>1. /\ DOMAIN holder' = DOMAIN holder \cup {Asked(w)}
      /\ holder'[Asked(w)] = w
      /\ \A u \in DOMAIN holder : holder'[u] = holder[u]
  BY DEF LockSlot, With
<1>2. /\ pc[w] = "resolve" /\ Delegates(env, snap, Asked(w)) /\ Asked(w) \notin DOMAIN holder
      /\ pc' = [pc EXCEPT ![w] = "slot"]
      /\ UNCHANGED << env, snap, job, memo, went, answered, failures, edits >>
  BY DEF LockSlot
<1>3. Shapes' /\ NobodyBefore' /\ InHand'
  BY <1>a, <1>2 DEF Shapes, Controls, NobodyBefore, InHand
<1>4. HasSlot' /\ HoldersAsk' /\ WaitsForItsAnswer'
  BY <1>1, <1>2 DEF Shapes, HasSlot, HoldersAsk, WaitsForItsAnswer, Asked
<1>5. AnsweredOnce' /\ \A d \in went' : Founded(d)'
  BY <1>2, FoundedStays DEF AnsweredOnce
<1> QED
  BY <1>3, <1>4, <1>5

LEMMA RememberedStep == ASSUME MemoInv, NEW w \in Workers, Remembered(w) PROVE MemoInv'
<1>a. snap.err = None
  BY WorkerIsLoaded DEF Remembered
<1>1. /\ LetsGo(w)
      /\ \A d \in went' \ went : d.remote = Asked(w) /\ d.dest[1] = root_for_url(env, snap, Asked(w), memo[Asked(w)])
  BY DecideLetsGo DEF Remembered
<1>2. /\ pc[w] = "slot" /\ Asked(w) \in DOMAIN memo /\ Unlock(Asked(w))
      /\ UNCHANGED << env, snap, memo, answered, failures, edits >>
  BY DEF Remembered
<1>3. Delegates(env, snap, Asked(w))
  BY <1>2 DEF MemoInv, HasSlot
<1>4. ASSUME NEW d \in went' PROVE Founded(d)'
  <2>1. CASE d \in went
    BY <1>2, <2>1, FoundedStays DEF MemoInv
  <2>2. CASE d \notin went
    BY <1>1, <1>2, <1>3, <2>2 DEF Founded, Known
  <2> QED
    BY <2>1, <2>2
<1> QED
  BY <1>a, <1>1, <1>2, <1>4, LetsGoSafely DEF MemoInv, Shapes, AnsweredOnce

\* The first answer for a remote is the only one: nobody else holds its slot.
LEMMA AnsweredStep == ASSUME MemoInv, NEW w \in Workers, Answered(w) PROVE MemoInv'
<1> DEFINE answer == get_urlmatch(env, files, Asked(w))
<1>a. snap.err = None
  BY WorkerIsLoaded DEF Answered, MustSpawn
<1>1. /\ LetsGo(w)
      /\ \A d \in went' \ went : d.remote = Asked(w) /\ d.dest[1] = root_for_url(env, snap, Asked(w), answer)
  BY DecideLetsGo DEF Answered
<1>2. /\ pc[w] = "slot" /\ Asked(w) \notin DOMAIN memo /\ Unlock(Asked(w))
      /\ UNCHANGED << env, snap, failures, edits >>
  BY DEF Answered, MustSpawn
<1>3. Asked(w) \notin DOMAIN answered
  BY <1>2 DEF MemoInv, AnsweredOnce
<1>4. /\ DOMAIN memo' = DOMAIN memo \cup {Asked(w)}
      /\ memo'[Asked(w)] = answer
      /\ \A u \in DOMAIN memo : u # Asked(w) => memo'[u] = memo[u]
  BY DEF Answered, With
<1>5. answered' = With(answered, {Asked(w)}, 1)
  BY <1>3 DEF Answered
<1>6. AnsweredOnce'
  BY <1>4, <1>5 DEF MemoInv, AnsweredOnce, With
<1>7. Delegates(env, snap, Asked(w))
  BY <1>2 DEF MemoInv, HasSlot
<1> HIDE DEF answer
<1>8. ASSUME NEW d \in went' PROVE Founded(d)'
  <2>1. CASE d \in went
    BY <1>2, <1>4, <2>1, FoundedStays DEF MemoInv
  <2>2. CASE d \notin went
    BY <1>1, <1>2, <1>4, <1>7, <2>2 DEF Founded, Known
  <2> QED
    BY <2>1, <2>2
<1> QED
  BY <1>a, <1>1, <1>2, <1>6, <1>8, LetsGoSafely DEF MemoInv, Shapes

LEMMA SpawnFailsStep == ASSUME MemoInv, NEW w \in Workers, SpawnFails(w) PROVE MemoInv'
<1>a. snap.err = None
  BY WorkerIsLoaded DEF SpawnFails, MustSpawn
<1>1. LetsGo(w)
  BY ErrorLetsGo DEF SpawnFails
<1>2. /\ pc[w] = "slot" /\ Unlock(Asked(w))
      /\ UNCHANGED << env, snap, memo, went, answered, edits >>
  BY DEF SpawnFails, MustSpawn
<1>3. failures' \in 0..MaxFailures
  BY MaxFailuresAssumption DEF SpawnFails, MemoInv, Shapes
<1>4. \A d \in went' : Founded(d)'
  BY <1>2, FoundedStays DEF MemoInv
<1> QED
  BY <1>a, <1>1, <1>2, <1>3, <1>4, LetsGoSafely DEF MemoInv, Shapes, AnsweredOnce

LEMMA LeaveStep == ASSUME MemoInv, NEW w \in Workers, Leave(w) PROVE MemoInv'
<1> USE DEF MemoInv
<1>a. snap.err = None
  BY WorkerIsLoaded DEF Leave
<1>1. /\ pc[w] = "idle" /\ pc' = [pc EXCEPT ![w] = "done"]
      /\ UNCHANGED << env, snap, job, memo, holder, went, answered, failures, edits >>
  BY DEF Leave
<1>2. Shapes' /\ NobodyBefore' /\ InHand'
  BY <1>a, <1>1 DEF Shapes, Controls, NobodyBefore, InHand
<1>3. HasSlot' /\ HoldersAsk' /\ WaitsForItsAnswer'
  BY <1>1 DEF Shapes, HasSlot, HoldersAsk, WaitsForItsAnswer, Asked
<1>4. AnsweredOnce' /\ \A d \in went' : Founded(d)'
  BY <1>1, FoundedStays DEF AnsweredOnce
<1> QED
  BY <1>2, <1>3, <1>4

LEMMA ExecLookStep == MemoInv /\ ExecLook => MemoInv'
<1> SUFFICES ASSUME MemoInv, ExecLook PROVE MemoInv'
  OBVIOUS
<1> USE DEF MemoInv
<1>1. /\ snap.err = None /\ \A w \in Workers : pc[w] = "done"
      /\ pc' \in [Workers -> Controls] /\ \A w \in Workers : pc'[w] \in {"idle", "done"}
      /\ UNCHANGED << env, snap, job, memo, holder, went, answered, failures, edits >>
  BY DEF ExecLook, Controls
<1>2. DOMAIN holder = {}
  BY <1>1 DEF HoldersAsk, WaitsForItsAnswer
<1>3. Shapes' /\ NobodyBefore' /\ InHand'
  BY <1>1 DEF Shapes, NobodyBefore, InHand
<1>4. HasSlot' /\ HoldersAsk' /\ WaitsForItsAnswer'
  BY <1>1, <1>2 DEF HasSlot, HoldersAsk, WaitsForItsAnswer
<1>5. AnsweredOnce' /\ \A d \in went' : Founded(d)'
  BY <1>1, FoundedStays DEF AnsweredOnce
<1> QED
  BY <1>3, <1>4, <1>5

LEMMA NoStep ==
  ASSUME MemoInv, UNCHANGED << env, snap, pc, job, memo, holder, went, answered, failures >>,
         edits' \in {0, 1}
  PROVE  MemoInv'
<1> USE DEF MemoInv
<1>1. Shapes' /\ NobodyBefore' /\ InHand'
  BY DEF Shapes, NobodyBefore, InHand
<1>2. HasSlot' /\ HoldersAsk' /\ WaitsForItsAnswer'
  BY DEF HasSlot, HoldersAsk, WaitsForItsAnswer, Asked
<1>3. AnsweredOnce' /\ \A d \in went' : Founded(d)'
  BY FoundedStays DEF AnsweredOnce
<1> QED
  BY <1>1, <1>2, <1>3

LEMMA NextMemoInv == MemoInv /\ [Next]_vars => MemoInv'
<1> SUFFICES ASSUME MemoInv, [Next]_vars PROVE MemoInv'
  OBVIOUS
<1>1. CASE Load
  BY <1>1, LoadStep
<1>2. CASE ExecLook
  BY <1>2, ExecLookStep
<1>3. CASE Edit
  BY <1>3, NoStep DEF Edit
<1>4. ASSUME NEW w \in Workers, Work(w) PROVE MemoInv'
  BY <1>4, TakeStep, ResolveStep, LockSlotStep, RememberedStep, AnsweredStep, SpawnFailsStep, LeaveStep DEF Work
<1>5. CASE UNCHANGED vars
  BY <1>5, NoStep DEF vars, MemoInv, Shapes
<1> QED
  BY <1>1, <1>2, <1>3, <1>4, <1>5 DEF Next, Ended

-----------------------------------------------------------------------------
(* The theorems.                                                           *)

\* The inductive invariant: every decision is founded on the snapshot and the memo, and the
\* memo is filled under the slots' locks only.
THEOREM Invariance == Spec => []MemoInv
<1>1. Init => MemoInv
  BY InitMemoInv
<1>2. MemoInv /\ [Next]_vars => MemoInv'
  BY NextMemoInv
<1> QED
  BY <1>1, <1>2, PTL DEF Spec

\* Every variable stays in its type.
THEOREM TypeCorrect == Spec => []TypeOK
<1>1. MemoInv => TypeOK
  BY DEF MemoInv, Shapes, Controls, InHand, AnsweredOnce, TypeOK
<1> QED
  BY <1>1, Invariance, PTL

\* A locked slot is locked by a thread that asks git for that remote: no error path keeps the
\* lock, and nobody waits for a thread that waits for another (config.rs:180-184, 843).
THEOREM SlotsAreFreed == Spec => []WaitsForItsAnswer
<1>1. MemoInv => WaitsForItsAnswer
  BY DEF MemoInv
<1> QED
  BY <1>1, Invariance, PTL

\* No remote is answered by git twice, however many threads ask (config.rs:814-815).
THEOREM OneSpawn == Spec => []OneSpawnAnswers
<1>1. MemoInv => OneSpawnAnswers
  BY DEF MemoInv, AnsweredOnce, OneSpawnAnswers
<1> QED
  BY <1>1, Invariance, PTL

\* One remote has one root for the life of a process, whatever is edited or fails meanwhile
\* (config.rs:178-184; get.rs: exec_look).
THEOREM OneRoot == Spec => []OneAnswer
<1>1. MemoInv => OneAnswer
  BY DEF MemoInv, Founded, OneAnswer
<1> QED
  BY <1>1, Invariance, PTL

-----------------------------------------------------------------------------
(* What the operators on sequences hold, whatever the order.               *)

LEMMA LeastOne ==
  ASSUME NEW S \in SUBSET Nat, S # {}
  PROVE  \E x \in S : \A y \in S : x <= y
<1> DEFINE R == {ss \in Nat \X Nat : ss[1] < ss[2]}
<1>1. IsWellFoundedOn(R, Nat)
  BY NatLessThanWellFounded DEF OpToRel
<1> HIDE DEF R
<1>2. PICK x \in S : \A y \in S : ~(<< y, x >> \in R)
  BY <1>1, WFMin
<1>3. ASSUME NEW y \in S PROVE x <= y
  <2>1. << y, x >> \in Nat \X Nat /\ (y < x => << y, x >> \in R)
    BY DEF R
  <2> QED BY <1>2, <2>1
<1> QED BY <1>3

LEMMA SequenceHas ==
  ASSUME NEW s, IsSequence(s)
  PROVE  Len(s) \in Nat /\ DOMAIN s = 1..Len(s) /\ s \in Seq(ToSet(s)) /\ \A i \in 1..Len(s) : s[i] \in ToSet(s)
<1> DEFINE T == ToSet(s)
<1>1. s \in Seq(T)
  BY DEF IsSequence
<1> HIDE DEF T
<1>2. Len(s) \in Nat /\ DOMAIN s = 1..Len(s) /\ \A i \in 1..Len(s) : s[i] \in T
  BY <1>1
<1> QED BY <1>1, <1>2 DEF T

LEMMA SequenceOf ==
  ASSUME NEW T, NEW s \in Seq(T)
  PROVE  IsSequence(s) /\ ToSet(s) \subseteq T
<1>1. \A i \in DOMAIN s : s[i] \in T /\ s[i] \in ToSet(s)
  BY DEF ToSet
<1> DEFINE U == ToSet(s)
<1>2. U \subseteq T
  BY <1>1 DEF ToSet
<1> HIDE DEF U
<1>3. s \in Seq(U)
  <2>1. Len(s) \in Nat /\ DOMAIN s = 1..Len(s) /\ s = [i \in 1..Len(s) |-> s[i]]
    OBVIOUS
  <2>2. \A i \in 1..Len(s) : s[i] \in U
    BY <1>1, <2>1 DEF U
  <2> QED BY <2>1, <2>2
<1> QED BY <1>2, <1>3 DEF U, IsSequence

LEMMA ConcatHolds ==
  ASSUME NEW T, NEW a \in Seq(T), NEW b \in Seq(T)
  PROVE  a \o b \in Seq(T) /\ ToSet(a \o b) = ToSet(a) \cup ToSet(b)
<1>1. /\ a \o b \in Seq(T) /\ DOMAIN (a \o b) = 1..Len(a \o b) /\ Len(a \o b) = Len(a) + Len(b)
      /\ Len(a) \in Nat /\ Len(b) \in Nat /\ DOMAIN a = 1..Len(a) /\ DOMAIN b = 1..Len(b)
      /\ \A i \in 1..(Len(a) + Len(b)) : (a \o b)[i] = IF i <= Len(a) THEN a[i] ELSE b[i - Len(a)]
  OBVIOUS
<1> DEFINE c == a \o b
<1> HIDE DEF c
<1>2. ASSUME NEW x \in ToSet(c) PROVE x \in ToSet(a) \cup ToSet(b)
  <2>1. PICK i \in 1..(Len(a) + Len(b)) : x = c[i]
    BY <1>1, <1>2 DEF ToSet, c
  <2>2. CASE i <= Len(a)
    BY <1>1, <2>1, <2>2 DEF ToSet, c
  <2>3. CASE i > Len(a)
    <3>1. i - Len(a) \in 1..Len(b) /\ x = b[i - Len(a)]
      BY <1>1, <2>1, <2>3 DEF c
    <3> QED BY <1>1, <3>1 DEF ToSet
  <2> QED BY <1>1, <2>1, <2>2, <2>3
<1>3. ASSUME NEW x \in ToSet(a) PROVE x \in ToSet(c)
  <2>1. PICK i \in 1..Len(a) : x = a[i]
    BY <1>1, <1>3 DEF ToSet
  <2>2. i \in DOMAIN c /\ c[i] = a[i]
    BY <1>1, <2>1 DEF c
  <2> QED BY <2>1, <2>2 DEF ToSet
<1>4. ASSUME NEW x \in ToSet(b) PROVE x \in ToSet(c)
  <2>1. PICK i \in 1..Len(b) : x = b[i]
    BY <1>1, <1>4 DEF ToSet
  <2>2. Len(a) + i \in 1..(Len(a) + Len(b)) /\ ~(Len(a) + i <= Len(a)) /\ Len(a) + i - Len(a) = i
    BY <1>1, <2>1
  <2>3. Len(a) + i \in DOMAIN c /\ c[Len(a) + i] = b[i]
    BY <1>1, <2>2 DEF c
  <2> QED BY <2>1, <2>3 DEF ToSet
<1> QED BY <1>1, <1>2, <1>3, <1>4 DEF c

\* Where in Picks(s, S) an element goes.
Rank(S, i) == Cardinality({j \in S : j <= i})

Ranked(s, S) ==
  /\ IsFiniteSet(S) /\ Cardinality(S) \in Nat
  /\ \A i \in S : Rank(S, i) \in 1..Cardinality(S) /\ Picks(s, S)[Rank(S, i)] = s[i]
  /\ \A k \in 1..Cardinality(S) : \E i \in S : Rank(S, i) = k

LEMMA PickAt ==
  ASSUME NEW s, IsSequence(s), NEW S, S \subseteq DOMAIN s
  PROVE  Ranked(s, S)
<1> DEFINE m == Cardinality(S)
           upTo(i) == {j \in S : j <= i}
           rank == [i \in S |-> Cardinality(upTo(i))]
<1>0. Len(s) \in Nat /\ DOMAIN s = 1..Len(s) /\ \A i \in S : i \in Int
  BY SequenceHas
<1>1. IsFiniteSet(S) /\ m \in Nat /\ IsFiniteSet(1..m) /\ Cardinality(1..m) = m
  <2>1. IsFiniteSet(S)
    <3>1. IsFiniteSet(1..Len(s))
      BY <1>0, FS_Interval
    <3> QED BY <1>0, <3>1, FS_Subset
  <2>2. m \in Nat
    BY <2>1, FS_CardinalityType
  <2>3. IsFiniteSet(1..m) /\ Cardinality(1..m) = m
    BY <2>2, FS_Interval
  <2> QED BY <2>1, <2>2, <2>3
<1>2. ASSUME NEW i \in S PROVE rank[i] \in 1..m
  <2>1. upTo(i) \in SUBSET S /\ i \in upTo(i)
    BY <1>0
  <2>2. IsFiniteSet(upTo(i)) /\ Cardinality(upTo(i)) \in Nat /\ Cardinality(upTo(i)) <= m /\ Cardinality(upTo(i)) # 0
    BY <1>1, <2>1, FS_Subset, FS_CardinalityType, FS_EmptySet
  <2> QED BY <1>1, <2>2
<1>3. ASSUME NEW a \in S, NEW b \in S, a < b PROVE rank[a] # rank[b]
  <2>1. upTo(a) \in SUBSET upTo(b) /\ b \in upTo(b) /\ b \notin upTo(a) /\ upTo(b) \in SUBSET S
    BY <1>0, <1>3
  <2>2. upTo(a) # upTo(b)
    BY <2>1
  <2>3. IsFiniteSet(upTo(b))
    BY <1>1, <2>1, FS_Subset
  <2>4. Cardinality(upTo(b)) # Cardinality(upTo(a))
    BY <2>1, <2>2, <2>3, FS_Subset
  <2> QED BY <2>4
<1>4. ASSUME NEW i \in S, NEW j \in S, rank[i] = rank[j] PROVE i = j
  <2>1. i < j \/ j < i \/ i = j
    BY <1>0
  <2>2. ~(i < j)
    BY <1>3, <1>4
  <2>3. ~(j < i)
    BY <1>3, <1>4
  <2> QED BY <2>1, <2>2, <2>3
<1>5. rank \in Injection(S, 1..m)
  BY <1>2, <1>4 DEF Injection, IsInjective
<1>6. rank \in Surjection(S, 1..m)
  BY <1>1, <1>5, FS_Injection
<1>7. \A k \in 1..m : \E i \in S : rank[i] = k
  BY <1>6 DEF Surjection
<1>8. ASSUME NEW i \in S PROVE Picks(s, S)[rank[i]] = s[i]
  <2> DEFINE c == CHOOSE j \in S : Cardinality({x \in S : x <= j}) = rank[i]
  <2>1. c \in S /\ rank[c] = rank[i]
    OBVIOUS
  <2>2. Picks(s, S)[rank[i]] = s[c]
    BY <1>2 DEF Picks
  <2> QED BY <1>4, <2>1, <2>2
<1> QED BY <1>1, <1>2, <1>7, <1>8 DEF Rank, Ranked

\* Picks gives what is at the positions it is given.
LEMMA PicksAre ==
  ASSUME NEW s, IsSequence(s), NEW S \in SUBSET DOMAIN s
  PROVE  /\ IsSequence(Picks(s, S)) /\ ToSet(Picks(s, S)) = {s[i] : i \in S}
         /\ Len(Picks(s, S)) = Cardinality(S)
<1> DEFINE m == Cardinality(S)
           q == Picks(s, S)
<1>1. /\ m \in Nat
      /\ \A i \in S : Rank(S, i) \in 1..m /\ q[Rank(S, i)] = s[i]
      /\ \A k \in 1..m : \E i \in S : Rank(S, i) = k
  BY PickAt DEF Ranked
<1>2. DOMAIN q = 1..m /\ q = [k \in 1..m |-> q[k]]
  BY DEF Picks
<1> HIDE DEF m, q
<1>3. \A k \in 1..m : \E i \in S : q[k] = s[i]
  BY <1>1
<1>4. ToSet(q) = {s[i] : i \in S}
  <2>1. ToSet(q) = {q[k] : k \in 1..m}
    BY <1>2 DEF ToSet
  <2>2. \A k \in 1..m : q[k] \in {s[i] : i \in S}
    BY <1>3
  <2>3. \A i \in S : s[i] \in {q[k] : k \in 1..m}
    BY <1>1
  <2> QED BY <2>1, <2>2, <2>3
<1> DEFINE T == ToSet(q)
<1>5. \A k \in 1..m : q[k] \in T
  BY <1>2 DEF ToSet
<1> HIDE DEF T
<1>6. q \in Seq(T)
  BY <1>1, <1>2, <1>5
<1>7. Len(q) = m
  BY <1>1, <1>2, <1>6
<1> QED BY <1>4, <1>6, <1>7, SequenceOf DEF q, m

\* FlattenSeq puts its parts one after the other; its recursion is followed by looking at a
\* smallest number of parts for which there is no such function, or for which it goes wrong.
Joined(seqs, n, f) == f = [i \in 1..n |-> IF i = 1 THEN seqs[i] ELSE f[i - 1] \o seqs[i]]

LEMMA FlattenIs ==
  ASSUME NEW seqs, Len(seqs) # 0
  PROVE  FlattenSeq(seqs) = (CHOOSE f : Joined(seqs, Len(seqs), f))[Len(seqs)]
BY DEF FlattenSeq, Joined

LEMMA JoinedExists ==
  ASSUME NEW seqs, NEW m \in Nat, m # 0
  PROVE  \E f : Joined(seqs, m, f)
<1> DEFINE Lacking == {n \in Nat : n # 0 /\ \A f : ~Joined(seqs, n, f)}
<1>1. SUFFICES ASSUME Lacking # {} PROVE FALSE
  OBVIOUS
<1>2. PICK n \in Lacking : \A k \in Lacking : n <= k
  BY <1>1, LeastOne
<1>3. n \in Nat /\ n # 0 /\ \A f : ~Joined(seqs, n, f)
  BY <1>2
<1>4. CASE n = 1
  <2> DEFINE f == [i \in 1..1 |-> seqs[i]]
  <2>1. f = [i \in 1..1 |-> IF i = 1 THEN seqs[i] ELSE f[i - 1] \o seqs[i]]
    OBVIOUS
  <2> HIDE DEF f
  <2>2. Joined(seqs, 1, f)
    BY <2>1 DEF Joined
  <2> QED BY <1>3, <1>4, <2>2
<1>5. CASE n # 1
  <2>1. n - 1 \in Nat /\ n - 1 # 0 /\ n - 1 \notin Lacking
    BY <1>2, <1>3, <1>5
  <2>2. PICK g : Joined(seqs, n - 1, g)
    BY <2>1
  <2> DEFINE f == [i \in 1..n |-> IF i = n THEN g[n - 1] \o seqs[n] ELSE g[i]]
  <2>3. ASSUME NEW i \in 1..n PROVE f[i] = IF i = 1 THEN seqs[i] ELSE f[i - 1] \o seqs[i]
    <3>1. CASE i = n
      <4>1. f[i] = g[n - 1] \o seqs[n]
        BY <3>1
      <4>3. n - 1 \in 1..n /\ n - 1 # n
        BY <1>3, <1>5
      <4>2. f[n - 1] = g[n - 1]
        BY <4>3
      <4> HIDE DEF f
      <4> QED BY <1>5, <3>1, <4>1, <4>2
    <3>2. CASE i # n
      <4>1. i \in 1..(n - 1) /\ f[i] = g[i]
        BY <1>3, <3>2
      <4>2. g[i] = IF i = 1 THEN seqs[i] ELSE g[i - 1] \o seqs[i]
        BY <2>2, <4>1 DEF Joined
      <4>3. i # 1 => i - 1 \in 1..n /\ i - 1 # n
        BY <1>3, <4>1
      <4>4. i # 1 => f[i - 1] = g[i - 1]
        BY <4>3
      <4> HIDE DEF f
      <4> QED BY <4>1, <4>2, <4>4
    <3> QED BY <3>1, <3>2
  <2>4. f = [i \in 1..n |-> f[i]]
    OBVIOUS
  <2> HIDE DEF f
  <2>5. Joined(seqs, n, f)
    BY <2>3, <2>4 DEF Joined
  <2> QED BY <1>3, <2>5
<1> QED BY <1>4, <1>5

\* Joined parts are sequences, and a function that joins them is determined.
LEMMA JoinedIn ==
  ASSUME NEW T, NEW seqs \in Seq(Seq(T)), NEW m \in Nat, m <= Len(seqs), NEW f, Joined(seqs, m, f)
  PROVE  \A n \in 1..m : f[n] \in Seq(T)
<1> DEFINE Wrong == {n \in 1..m : f[n] \notin Seq(T)}
<1>1. SUFFICES ASSUME Wrong # {} PROVE FALSE
  OBVIOUS
<1>2. Wrong \in SUBSET Nat
  OBVIOUS
<1>3. PICK n \in Wrong : \A k \in Wrong : n <= k
  BY <1>1, <1>2, LeastOne
<1>4. n \in 1..m /\ n \in Nat /\ f[n] \notin Seq(T) /\ seqs[n] \in Seq(T)
  BY <1>3
<1>5. f[n] = IF n = 1 THEN seqs[n] ELSE f[n - 1] \o seqs[n]
  BY <1>4 DEF Joined
<1>6. CASE n = 1
  BY <1>4, <1>5, <1>6
<1>7. CASE n # 1
  <2>1. n - 1 \in 1..m /\ ~(n <= n - 1)
    BY <1>4, <1>7
  <2>2. f[n - 1] \in Seq(T)
    BY <1>3, <2>1
  <2>3. f[n - 1] \o seqs[n] \in Seq(T)
    BY <1>4, <2>2
  <2> QED BY <1>4, <1>5, <1>7, <2>3
<1> QED BY <1>6, <1>7

LEMMA FlattenHolds ==
  ASSUME NEW T, NEW seqs \in Seq(Seq(T))
  PROVE  /\ FlattenSeq(seqs) \in Seq(T)
         /\ ToSet(FlattenSeq(seqs)) = UNION {ToSet(seqs[i]) : i \in 1..Len(seqs)}
<1>1. CASE Len(seqs) = 0
  <2>1. FlattenSeq(seqs) = seqs
    BY <1>1 DEF FlattenSeq
  <2>4. seqs = <<>>
    BY <1>1
  <2>2. ToSet(<<>>) = {}
    BY DEF ToSet
  <2>3. 1..Len(seqs) = {}
    BY <1>1
  <2> QED BY <2>1, <2>2, <2>3, <2>4
<1>2. CASE Len(seqs) # 0
  <2> DEFINE m == Len(seqs)
             f == CHOOSE g : Joined(seqs, m, g)
             Upto(n) == UNION {ToSet(seqs[i]) : i \in 1..n}
             Right(n) == f[n] \in Seq(T) /\ ToSet(f[n]) = Upto(n)
             Wrong == {n \in 1..m : ~Right(n)}
  <2>1. m \in Nat /\ m # 0 /\ Joined(seqs, m, f) /\ FlattenSeq(seqs) = f[m]
    <3>1. m \in Nat /\ m # 0
      BY <1>2
    <3>2. \E g : Joined(seqs, m, g)
      BY <3>1, JoinedExists
    <3>3. Joined(seqs, m, f)
      BY <3>2
    <3> QED BY <1>2, <3>1, <3>3, FlattenIs
  <2> HIDE DEF f
  <2>2. \A n \in 1..m : f[n] = IF n = 1 THEN seqs[n] ELSE f[n - 1] \o seqs[n]
    BY <2>1 DEF Joined
  <2>3. SUFFICES ASSUME Wrong # {} PROVE FALSE
    <3>1. m \in 1..m
      BY <2>1
    <3> HIDE DEF Upto, m
    <3> QED BY <2>1, <3>1 DEF m, Upto
  <2>4. Wrong \in SUBSET Nat
    OBVIOUS
  <2>5. PICK n \in Wrong : \A k \in Wrong : n <= k
    BY <2>3, <2>4, LeastOne
  <2>6. n \in 1..m /\ ~Right(n) /\ seqs[n] \in Seq(T)
    BY <2>5
  <2>7. CASE n = 1
    <3>1. f[n] = seqs[n]
      BY <2>2, <2>6, <2>7
    <3>2. Upto(1) = ToSet(seqs[1])
      OBVIOUS
    <3> QED BY <2>6, <2>7, <3>1, <3>2
  <2>8. CASE n # 1
    <3>1. n - 1 \in 1..m /\ ~(n <= n - 1)
      BY <2>1, <2>6, <2>8
    <3>2. n - 1 \notin Wrong
      BY <2>5, <3>1
    <3>3. Right(n - 1)
      BY <3>1, <3>2
    <3>4. f[n] = f[n - 1] \o seqs[n]
      BY <2>2, <2>6, <2>8
    <3>5. Upto(n) = Upto(n - 1) \cup ToSet(seqs[n])
      <4>1. 1..n = 1..(n - 1) \cup {n}
        BY <2>1, <2>6, <3>1
      <4> QED BY <4>1
    <3> DEFINE a == f[n - 1]
               b == seqs[n]
    <3>6. a \in Seq(T) /\ b \in Seq(T) /\ ToSet(a) = Upto(n - 1)
      BY <2>6, <3>3
    <3>7. Upto(n) = Upto(n - 1) \cup ToSet(b) /\ f[n] = a \o b
      BY <3>4, <3>5
    <3> HIDE DEF a, b, Upto
    <3>8. a \o b \in Seq(T) /\ ToSet(a \o b) = ToSet(a) \cup ToSet(b)
      BY <3>6, ConcatHolds
    <3> QED BY <2>6, <3>6, <3>7, <3>8
  <2> QED BY <2>7, <2>8
<1> QED BY <1>1, <1>2

\* The parts of two lists, one list after the other.
LEMMA FlattenJoin ==
  ASSUME NEW T, NEW x \in Seq(Seq(T)), NEW y \in Seq(Seq(T))
  PROVE  FlattenSeq(x \o y) = FlattenSeq(x) \o FlattenSeq(y)
<1> DEFINE n == Len(x)
           m == Len(y)
           c == x \o y
<1>0. n \in Nat /\ m \in Nat
  OBVIOUS
<1>1. /\ c \in Seq(Seq(T)) /\ Len(c) = n + m
      /\ \A i \in 1..n : c[i] = x[i]
      /\ \A i \in 1..m : c[n + i] = y[i]
  <2>1. c \in Seq(Seq(T)) /\ Len(c) = n + m
    OBVIOUS
  <2>2. \A i \in 1..n : c[i] = x[i]
    OBVIOUS
  <2>3. ASSUME NEW i \in 1..m PROVE c[n + i] = y[i]
    <3>1. n + i \in 1..(n + m) /\ ~(n + i <= n) /\ n + i - n = i
      BY <1>0
    <3>2. \A k \in 1..(n + m) : c[k] = IF k <= n THEN x[k] ELSE y[k - n]
      OBVIOUS
    <3> QED BY <3>1, <3>2
  <2> QED BY <2>1, <2>2, <2>3
<1>2. FlattenSeq(x) \in Seq(T) /\ FlattenSeq(y) \in Seq(T)
  BY FlattenHolds
<1>3. CASE n = 0
  <2>1. x = <<>> /\ FlattenSeq(x) = x /\ c = y
    BY <1>3 DEF FlattenSeq
  <2>2. <<>> \o FlattenSeq(y) = FlattenSeq(y)
    BY <1>2, ConcatEmptySeq
  <2> QED BY <2>1, <2>2
<1>4. CASE m = 0
  <2>1. y = <<>> /\ FlattenSeq(y) = y /\ c = x
    BY <1>4 DEF FlattenSeq
  <2>2. FlattenSeq(x) \o <<>> = FlattenSeq(x)
    BY <1>2, ConcatEmptySeq
  <2> QED BY <2>1, <2>2
<1>5. CASE n # 0 /\ m # 0
  <2> DEFINE f == CHOOSE z : Joined(x, n, z)
             g == CHOOSE z : Joined(y, m, z)
             h == CHOOSE z : Joined(c, n + m, z)
  <2>1. Joined(x, n, f) /\ FlattenSeq(x) = f[n]
    <3>1. \E z : Joined(x, n, z)
      BY <1>0, <1>5, JoinedExists
    <3> QED BY <1>5, <3>1, FlattenIs
  <2>2. Joined(y, m, g) /\ FlattenSeq(y) = g[m]
    <3>1. \E z : Joined(y, m, z)
      BY <1>0, <1>5, JoinedExists
    <3> QED BY <1>5, <3>1, FlattenIs
  <2>3. Joined(c, n + m, h) /\ FlattenSeq(c) = h[n + m]
    <3>0. n + m \in Nat /\ n + m # 0
      BY <1>0, <1>5
    <3>1. \E z : Joined(c, n + m, z)
      BY <3>0, JoinedExists
    <3>2. FlattenSeq(c) = (CHOOSE z : Joined(c, Len(c), z))[Len(c)]
      BY <1>1, <3>0, FlattenIs
    <3> QED BY <1>1, <3>1, <3>2
  <2> HIDE DEF f, g, h
  <2>4. (\A i \in 1..n : f[i] \in Seq(T)) /\ (\A i \in 1..m : g[i] \in Seq(T))
    <3>1. \A i \in 1..n : f[i] \in Seq(T)
      <4>1. n \in Nat /\ n <= Len(x)
        BY <1>0
      <4> QED BY <2>1, <4>1, JoinedIn
    <3>2. \A i \in 1..m : g[i] \in Seq(T)
      <4>1. m \in Nat /\ m <= Len(y)
        BY <1>0
      <4> QED BY <2>2, <4>1, JoinedIn
    <3> QED BY <3>1, <3>2
  <2> HIDE DEF n, m, c
  <2>5. /\ \A i \in 1..n : f[i] = IF i = 1 THEN x[i] ELSE f[i - 1] \o x[i]
        /\ \A i \in 1..m : g[i] = IF i = 1 THEN y[i] ELSE g[i - 1] \o y[i]
        /\ \A i \in 1..(n + m) : h[i] = IF i = 1 THEN c[i] ELSE h[i - 1] \o c[i]
    BY <2>1, <2>2, <2>3 DEF Joined
  <2>6. \A i \in 1..n : h[i] = f[i]
    <3> DEFINE Wrong == {i \in 1..n : h[i] # f[i]}
    <3>1. SUFFICES ASSUME Wrong # {} PROVE FALSE
      OBVIOUS
    <3>2. Wrong \in SUBSET Nat
      OBVIOUS
    <3>3. PICK i \in Wrong : \A k \in Wrong : i <= k
      BY <3>1, <3>2, LeastOne
    <3>4. i \in 1..n /\ i \in 1..(n + m) /\ h[i] # f[i] /\ c[i] = x[i]
      BY <1>0, <1>1, <3>3
    <3>5. CASE i = 1
      BY <2>5, <3>4, <3>5
    <3>6. CASE i # 1
      <4>1. i - 1 \in 1..n /\ ~(i <= i - 1)
        BY <1>0, <3>4, <3>6
      <4>2. h[i - 1] = f[i - 1]
        BY <3>3, <4>1
      <4> QED BY <2>5, <3>4, <3>6, <4>2
    <3> QED BY <3>5, <3>6
  <2>7. \A k \in 1..m : h[n + k] = f[n] \o g[k]
    <3> DEFINE Right(k) == h[n + k] = f[n] \o g[k]
               Wrong == {k \in 1..m : ~Right(k)}
    <3>0. SUFFICES ASSUME NEW k0 \in 1..m, ~Right(k0) PROVE FALSE
      OBVIOUS
    <3> HIDE DEF Right
    <3>2. Wrong \in SUBSET Nat /\ k0 \in Wrong
      BY <3>0
    <3>3. PICK k \in Wrong : \A j \in Wrong : k <= j
      BY <3>2, LeastOne
    <3>p. k \in 1..m /\ ~Right(k) /\ \A j \in 1..m : ~(k <= j) => Right(j)
      BY <3>3
    <3> HIDE DEF Wrong
    <3>q. h[n + k] # f[n] \o g[k]
      BY <3>p DEF Right
    <3>r. k \in Int /\ n + k \in 1..(n + m) /\ n + k # 1
      BY <1>0, <1>5, <3>p
    <3>4. k \in 1..m /\ n + k \in 1..(n + m) /\ n + k # 1 /\ h[n + k] # f[n] \o g[k] /\ c[n + k] = y[k]
      BY <1>1, <3>p, <3>q, <3>r
    <3>5. h[n + k] = h[(n + k) - 1] \o y[k]
      BY <2>5, <3>4
    <3>6. CASE k = 1
      <4>1. (n + k) - 1 = n /\ n \in 1..n
        BY <1>0, <1>5, <3>6
      <4>2. h[n] = f[n] /\ g[k] = y[k]
        BY <2>5, <2>6, <3>4, <3>6, <4>1
      <4> QED BY <3>4, <3>5, <4>1, <4>2
    <3>7. CASE k # 1
      <4>1. k - 1 \in 1..m /\ ~(k <= k - 1) /\ (n + k) - 1 = n + (k - 1) /\ n \in 1..n
        BY <1>0, <1>5, <3>4, <3>7
      <4>2. h[n + (k - 1)] = f[n] \o g[k - 1]
        BY <3>p, <4>1 DEF Right
      <4>3. g[k] = g[k - 1] \o y[k]
        BY <2>5, <3>4, <3>7
      <4>4. f[n] \in Seq(T) /\ g[k - 1] \in Seq(T) /\ y[k] \in Seq(T)
        <5>1. f[n] \in Seq(T)
          BY <2>4, <4>1
        <5>2. g[k - 1] \in Seq(T)
          BY <2>4, <4>1
        <5>3. y[k] \in Seq(T)
          BY <3>4 DEF m
        <5> QED BY <5>1, <5>2, <5>3
      <4>5. (f[n] \o g[k - 1]) \o y[k] = f[n] \o (g[k - 1] \o y[k])
        <5> DEFINE u == f[n]
                   v == g[k - 1]
                   t == y[k]
        <5>1. u \in Seq(T) /\ v \in Seq(T) /\ t \in Seq(T)
          BY <4>4
        <5> HIDE DEF u, v, t
        <5>2. (u \o v) \o t = u \o (v \o t)
          BY <5>1, ConcatAssociative, SMTT(60)
        <5> QED BY <5>2 DEF u, v, t
      <4> QED BY <3>4, <3>5, <4>1, <4>2, <4>3, <4>5
    <3> QED BY <3>6, <3>7
  <2>8. m \in 1..m
    BY <1>0, <1>5
  <2> QED BY <2>1, <2>2, <2>3, <2>7, <2>8 DEF c
<1> QED BY <1>3, <1>4, <1>5

LEMMA JoinHolds ==
  ASSUME NEW a, IsSequence(a), NEW b, IsSequence(b)
  PROVE  IsSequence(a \o b) /\ ToSet(a \o b) = ToSet(a) \cup ToSet(b)
<1> DEFINE T == ToSet(a) \cup ToSet(b)
<1>1. \A S, U, c : c \in Seq(S) /\ S \subseteq U => c \in Seq(U)
  <2> TAKE S, U, c
  <2> HAVE c \in Seq(S) /\ S \subseteq U
  <2>1. Len(c) \in Nat /\ c = [i \in 1..Len(c) |-> c[i]] /\ \A i \in 1..Len(c) : c[i] \in U
    OBVIOUS
  <2> QED BY <2>1
<1>2. a \in Seq(ToSet(a)) /\ b \in Seq(ToSet(b)) /\ ToSet(a) \subseteq T /\ ToSet(b) \subseteq T
  BY DEF IsSequence
<1> HIDE DEF T
<1>3. a \in Seq(T) /\ b \in Seq(T)
  BY <1>1, <1>2
<1>4. a \o b \in Seq(T) /\ ToSet(a \o b) = ToSet(a) \cup ToSet(b)
  BY <1>3, ConcatHolds
<1> QED BY <1>4, SequenceOf

-----------------------------------------------------------------------------
(* What is read: git reads no file that scap does not.                     *)

Held(locs, fs) == UNION {ToSet(fs[l]) : l \in ToSet(locs) \cap DOMAIN fs}

LEMMA ReadHolds ==
  ASSUME NEW fs, \A l \in DOMAIN fs : IsSequence(fs[l]), NEW locs, IsSequence(locs)
  PROVE  IsSequence(Read(locs, fs)) /\ ToSet(Read(locs, fs)) = Held(locs, fs)
<1> DEFINE T == UNION {ToSet(fs[l]) : l \in DOMAIN fs}
           parts == [i \in DOMAIN locs |-> IF locs[i] \in DOMAIN fs THEN fs[locs[i]] ELSE <<>>]
<1>1. Len(locs) \in Nat /\ DOMAIN locs = 1..Len(locs)
  BY SequenceHas
<1>2. ASSUME NEW i \in DOMAIN locs
      PROVE  /\ parts[i] \in Seq(T)
             /\ ToSet(parts[i]) = IF locs[i] \in DOMAIN fs THEN ToSet(fs[locs[i]]) ELSE {}
  <2>1. CASE locs[i] \in DOMAIN fs
    <3> DEFINE q == fs[locs[i]]
    <3>1. IsSequence(q) /\ ToSet(q) \subseteq T /\ parts[i] = q
      BY <2>1
    <3> HIDE DEF T, q, parts
    <3>2. Len(q) \in Nat /\ DOMAIN q = 1..Len(q) /\ q \in Seq(ToSet(q)) /\ \A k \in 1..Len(q) : q[k] \in T
      BY <3>1, SequenceHas
    <3>3. q = [k \in 1..Len(q) |-> q[k]]
      BY <3>2
    <3>4. q \in Seq(T)
      BY <3>2, <3>3
    <3> QED BY <2>1, <3>1, <3>4 DEF q
  <2>2. CASE locs[i] \notin DOMAIN fs
    <3>1. parts[i] = <<>>
      BY <2>2
    <3>2. ToSet(<<>>) = {} /\ <<>> \in Seq(T)
      BY DEF ToSet
    <3> QED BY <2>2, <3>1, <3>2
  <2> QED BY <2>1, <2>2
<1>3. DOMAIN parts = 1..Len(locs) /\ parts = [i \in 1..Len(locs) |-> parts[i]]
  BY <1>1
<1> HIDE DEF T, parts
<1>4. parts \in Seq(Seq(T)) /\ Len(parts) = Len(locs)
  BY <1>1, <1>2, <1>3
<1>5. Read(locs, fs) = FlattenSeq(parts)
  BY DEF Read, parts
<1>6. Read(locs, fs) \in Seq(T) /\ ToSet(Read(locs, fs)) = UNION {ToSet(parts[i]) : i \in DOMAIN locs}
  BY <1>1, <1>4, <1>5, FlattenHolds
<1>7. UNION {ToSet(parts[i]) : i \in DOMAIN locs} = Held(locs, fs)
  <2>1. ASSUME NEW i \in DOMAIN locs, NEW x \in ToSet(parts[i]) PROVE x \in Held(locs, fs)
    <3>1. locs[i] \in ToSet(locs)
      BY DEF ToSet
    <3> QED BY <1>2, <2>1, <3>1 DEF Held
  <2>2. ASSUME NEW l \in ToSet(locs) \cap DOMAIN fs, NEW x \in ToSet(fs[l])
        PROVE  \E i \in DOMAIN locs : x \in ToSet(parts[i])
    <3>1. PICK i \in DOMAIN locs : l = locs[i]
      BY DEF ToSet
    <3> QED BY <1>2, <2>2, <3>1
  <2> QED BY <2>1, <2>2 DEF Held
<1> QED BY <1>6, <1>7, SequenceOf

LEMMA NoneHeld == IsSequence(<<>>) /\ ToSet(<<>>) = {}
<1>1. <<>> \in Seq(Int)
  OBVIOUS
<1>2. ToSet(<<>>) = {}
  BY DEF ToSet
<1> QED BY <1>1, <1>2, SequenceOf

LEMMA OneHeld ==
  ASSUME NEW x PROVE IsSequence(<< x >>) /\ ToSet(<< x >>) = {x}
<1>1. << x >> \in Seq({x})
  OBVIOUS
<1>2. x \in ToSet(<< x >>)
  BY DEF ToSet
<1> QED BY <1>1, <1>2, SequenceOf

LEMMA TwoHeld ==
  ASSUME NEW x, NEW y PROVE IsSequence(<< x, y >>) /\ ToSet(<< x, y >>) = {x, y}
<1>1. << x, y >> \in Seq({x, y})
  OBVIOUS
<1>2. x \in ToSet(<< x, y >>) /\ y \in ToSet(<< x, y >>)
  <2>1. << x, y >>[1] = x /\ << x, y >>[2] = y /\ 1 \in DOMAIN << x, y >> /\ 2 \in DOMAIN << x, y >>
    OBVIOUS
  <2> QED BY <2>1 DEF ToSet
<1> QED BY <1>1, <1>2, SequenceOf

\* The files of a starting state.
Given(e, fs) ==
  /\ IsSequence(e.scapRoot) /\ GivesRoots(e.extra)
  /\ \A l \in DOMAIN fs : GivesRoots(fs[l])
  /\ e.oneGlobal /\ "home" \in DOMAIN fs => "xdg" \in DOMAIN fs /\ fs["xdg"] = fs["home"]

LEMMA ProbeHolds ==
  ASSUME NEW fs
  PROVE  /\ IsSequence(probe_system_config(fs))
         /\ ToSet(probe_system_config(fs)) = ToSet(SystemCandidates) \cap DOMAIN fs
<1> DEFINE S == {i \in DOMAIN SystemCandidates : SystemCandidates[i] \in DOMAIN fs}
<1>1. {SystemCandidates[i] : i \in S} = ToSet(SystemCandidates) \cap DOMAIN fs
  BY DEF ToSet
<1>2. S \in SUBSET DOMAIN SystemCandidates /\ probe_system_config(fs) = Picks(SystemCandidates, S)
  BY DEF probe_system_config
<1>3. IsSequence(SystemCandidates)
  BY StartsAssumption
<1> HIDE DEF S
<1> QED BY <1>1, <1>2, <1>3, PicksAre

LEMMA SystemHolds ==
  ASSUME NEW e, NEW fs
  PROVE  LET git == IF e.nosystem THEN <<>> ELSE IF e.systemVar THEN << "GIT_CONFIG_SYSTEM" >> ELSE << GitPrefix >>
         IN  /\ IsSequence(git) /\ IsSequence(system_files(e, fs))
             /\ ToSet(git) \cap DOMAIN fs \subseteq ToSet(system_files(e, fs))
<1>1. GitPrefix \in ToSet(SystemCandidates)
  BY StartsAssumption
<1>2. CASE e.systemVar
  BY <1>2, NoneHeld, OneHeld DEF system_files
<1>3. CASE ~e.systemVar /\ e.nosystem
  BY <1>3, NoneHeld DEF system_files
<1>4. CASE ~e.systemVar /\ ~e.nosystem
  BY <1>1, <1>4, OneHeld, ProbeHolds DEF system_files
<1> QED BY <1>2, <1>3, <1>4

LEMMA GlobalHolds ==
  ASSUME NEW e, NEW fs, Given(e, fs)
  PROVE  LET git == IF e.globalVar THEN << "GIT_CONFIG_GLOBAL" >> ELSE IF e.home THEN << "xdg", "home" >> ELSE <<>>
         IN  /\ IsSequence(git) /\ IsSequence(global_files(e))
             /\ \A l \in ToSet(git) \cap DOMAIN fs : \E k \in ToSet(global_files(e)) \cap DOMAIN fs : fs[k] = fs[l]
<1>1. CASE e.globalVar
  BY <1>1, OneHeld DEF global_files
<1>2. CASE ~e.globalVar /\ ~e.home
  BY <1>2, NoneHeld DEF global_files
<1>3. CASE ~e.globalVar /\ e.home /\ e.oneGlobal
  <2>1. global_files(e) = << "xdg" >>
    BY <1>3 DEF global_files
  <2>2. "home" \in DOMAIN fs => "xdg" \in DOMAIN fs /\ fs["xdg"] = fs["home"]
    BY <1>3 DEF Given
  <2>3. IsSequence(<< "xdg" >>) /\ ToSet(<< "xdg" >>) = {"xdg"}
    BY OneHeld
  <2>4. IsSequence(<< "xdg", "home" >>) /\ ToSet(<< "xdg", "home" >>) = {"xdg", "home"}
    BY TwoHeld
  <2> QED BY <1>3, <2>1, <2>2, <2>3, <2>4
<1>4. CASE ~e.globalVar /\ e.home /\ ~e.oneGlobal
  BY <1>4, TwoHeld DEF global_files
<1> QED BY <1>1, <1>2, <1>3, <1>4

\* RepositoryIsFound, of any environment.
RepoFound(e) == git_repository(e) \in {None, discover_git_dir(e)}

\* The files of a repository as git reads them.
RepoMain(dir) == IF dir = None THEN <<>> ELSE << "main/config" >>
RepoTree(dir, fs) ==
  IF dir # None /\ worktree_config_enabled(fs, "main/config") THEN << WorktreeIn[dir] >> ELSE <<>>

LEMMA RepoHolds ==
  ASSUME NEW dir, NEW fs
  PROVE  /\ IsSequence(RepoMain(dir)) /\ IsSequence(RepoTree(dir, fs))
         /\ dir = None => ToSet(RepoMain(dir)) = {} /\ ToSet(RepoTree(dir, fs)) = {}
BY OneHeld, NoneHeld DEF RepoMain, RepoTree

LEMMA LocalHolds ==
  ASSUME NEW e, NEW fs
  PROVE  LET dir == discover_git_dir(e)
             main == RepoMain(dir)
             tree == RepoTree(dir, fs)
         IN  /\ IsSequence(main) /\ IsSequence(tree) /\ IsSequence(local_files(e, fs))
             /\ (ToSet(main) \cup ToSet(tree)) \cap DOMAIN fs \subseteq ToSet(local_files(e, fs))
<1> DEFINE dir == discover_git_dir(e)
           w == WorktreeIn[dir]
           on == worktree_config_enabled(fs, "main/config")
           own == IF w \in DOMAIN fs /\ on THEN << w >> ELSE <<>>
<1>1. ConfigIn[common_dir_of(dir)] = "main/config"
  BY DEF ConfigIn, common_dir_of
<1>2. local_files(e, fs) = IF dir = None THEN <<>> ELSE << "main/config" >> \o own
  BY <1>1 DEF local_files
<1>3. IsSequence(<< "main/config" >>) /\ ToSet(<< "main/config" >>) = {"main/config"}
  BY OneHeld
<1>4. IsSequence(own) /\ ToSet(own) = IF w \in DOMAIN fs /\ on THEN {w} ELSE {}
  BY OneHeld, NoneHeld
<1>5. IsSequence(<< w >>) /\ ToSet(<< w >>) = {w}
  BY OneHeld
<1> HIDE DEF dir, w, on, own
<1>6. IsSequence(<< "main/config" >> \o own) /\ ToSet(<< "main/config" >> \o own) = {"main/config"} \cup ToSet(own)
  BY <1>3, <1>4, JoinHolds
<1>7. CASE dir = None
  BY <1>2, <1>7, NoneHeld DEF dir, RepoMain, RepoTree
<1>8. CASE dir # None
  BY <1>2, <1>3, <1>4, <1>5, <1>6, <1>8, NoneHeld DEF dir, w, on, RepoMain, RepoTree
<1> QED BY <1>7, <1>8

LEMMA GitReadsNoMore ==
  ASSUME NEW e, NEW fs, Given(e, fs)
  PROVE  /\ IsSequence(GitFiles(e, fs)) /\ IsSequence(enumerate(e, fs).files)
         /\ RepoFound(e) => Held(GitFiles(e, fs), fs) \subseteq Held(enumerate(e, fs).files, fs)
<1> DEFINE dir == git_repository(e)
           s1 == IF e.nosystem THEN <<>> ELSE IF e.systemVar THEN << "GIT_CONFIG_SYSTEM" >> ELSE << GitPrefix >>
           s2 == IF e.globalVar THEN << "GIT_CONFIG_GLOBAL" >> ELSE IF e.home THEN << "xdg", "home" >> ELSE <<>>
           s3 == RepoMain(dir)
           s4 == RepoTree(dir, fs)
<1>1. GitFiles(e, fs) = s1 \o s2 \o s3 \o s4
  BY DEF GitFiles, RepoMain, RepoTree
<1>2. enumerate(e, fs).files = system_files(e, fs) \o global_files(e) \o local_files(e, fs)
  BY DEF enumerate
<1>3. IsSequence(s1) /\ IsSequence(system_files(e, fs)) /\ ToSet(s1) \cap DOMAIN fs \subseteq ToSet(system_files(e, fs))
  BY SystemHolds
<1>4. /\ IsSequence(s2) /\ IsSequence(global_files(e))
      /\ \A l \in ToSet(s2) \cap DOMAIN fs : \E k \in ToSet(global_files(e)) \cap DOMAIN fs : fs[k] = fs[l]
  BY GlobalHolds
<1>5. /\ IsSequence(s3) /\ IsSequence(s4) /\ IsSequence(local_files(e, fs))
      /\ RepoFound(e) => (ToSet(s3) \cup ToSet(s4)) \cap DOMAIN fs \subseteq ToSet(local_files(e, fs))
  BY LocalHolds, RepoHolds DEF RepoFound
<1> HIDE DEF s1, s2, s3, s4
<1>6. /\ IsSequence(s1 \o s2) /\ IsSequence(s1 \o s2 \o s3) /\ IsSequence(s1 \o s2 \o s3 \o s4)
      /\ ToSet(s1 \o s2 \o s3 \o s4) = ToSet(s1) \cup ToSet(s2) \cup ToSet(s3) \cup ToSet(s4)
  <2>1. IsSequence(s1 \o s2) /\ ToSet(s1 \o s2) = ToSet(s1) \cup ToSet(s2)
    BY <1>3, <1>4, JoinHolds
  <2>2. IsSequence(s1 \o s2 \o s3) /\ ToSet(s1 \o s2 \o s3) = ToSet(s1 \o s2) \cup ToSet(s3)
    BY <1>5, <2>1, JoinHolds
  <2>3. IsSequence(s1 \o s2 \o s3 \o s4) /\ ToSet(s1 \o s2 \o s3 \o s4) = ToSet(s1 \o s2 \o s3) \cup ToSet(s4)
    BY <1>5, <2>2, JoinHolds
  <2> QED BY <2>1, <2>2, <2>3
<1> DEFINE a == system_files(e, fs)
           b == global_files(e)
           c == local_files(e, fs)
<1>7. IsSequence(a \o b \o c) /\ ToSet(a \o b \o c) = ToSet(a) \cup ToSet(b) \cup ToSet(c)
  <2>1. IsSequence(a \o b) /\ ToSet(a \o b) = ToSet(a) \cup ToSet(b)
    BY <1>3, <1>4, JoinHolds
  <2> QED BY <1>5, <2>1, JoinHolds
<1>8. ASSUME RepoFound(e), NEW l \in ToSet(GitFiles(e, fs)) \cap DOMAIN fs
      PROVE  \E k \in ToSet(enumerate(e, fs).files) \cap DOMAIN fs : fs[k] = fs[l]
  <2>1. l \in ToSet(s1) \/ l \in ToSet(s2) \/ l \in ToSet(s3) \cup ToSet(s4)
    BY <1>1, <1>6, <1>8
  <2> HIDE DEF a, b, c
  <2>2. l \in ToSet(a) \/ l \in ToSet(c) \/ \E k \in ToSet(b) \cap DOMAIN fs : fs[k] = fs[l]
    BY <1>3, <1>4, <1>5, <1>8, <2>1 DEF a, b, c
  <2> QED BY <1>2, <1>7, <1>8, <2>2 DEF a, b, c
<1> QED BY <1>1, <1>2, <1>6, <1>7, <1>8 DEF Held

-----------------------------------------------------------------------------
(* What git opens of its files.                                            *)

LEMMA OpenedAre ==
  ASSUME NEW fs
  PROVE  /\ DOMAIN Opened(fs) = {l \in DOMAIN fs : ~PassedOver(l, fs)}
         /\ \A l \in DOMAIN Opened(fs) : Opened(fs)[l] = fs[l]
BY DEF Opened

LEMMA OpenedGiven ==
  ASSUME NEW e, NEW fs, Given(e, fs)
  PROVE  Given(e, Opened(fs))
<1>1. \A l \in DOMAIN Opened(fs) : l \in DOMAIN fs /\ Opened(fs)[l] = fs[l]
  BY OpenedAre
<1>2. ASSUME e.oneGlobal, "home" \in DOMAIN Opened(fs)
      PROVE  "xdg" \in DOMAIN Opened(fs) /\ Opened(fs)["xdg"] = Opened(fs)["home"]
  <2>1. "home" \in DOMAIN fs /\ ~PassedOver("home", fs) /\ "xdg" \in DOMAIN fs /\ fs["xdg"] = fs["home"]
    BY <1>2, OpenedAre DEF Given
  <2>2. ~PassedOver("xdg", fs)
    BY <2>1 DEF PassedOver
  <2> QED BY <1>2, <2>1, <2>2, OpenedAre
<1> QED BY <1>1, <1>2 DEF Given

LEMMA OpenedHeld ==
  ASSUME NEW fs, NEW locs
  PROVE  Held(locs, Opened(fs)) \subseteq Held(locs, fs)
BY OpenedAre DEF Held

\* Where git passes over none of them, it reads what is there.
LEMMA OpenedRead ==
  ASSUME NEW fs, NEW locs, \A l \in ToSet(locs) \cap DOMAIN fs : ~PassedOver(l, fs)
  PROVE  /\ Read(locs, Opened(fs)) = Read(locs, fs)
         /\ Held(locs, Opened(fs)) = Held(locs, fs)
<1> DEFINE open == Opened(fs)
<1>1. ASSUME NEW i \in DOMAIN locs
      PROVE  (IF locs[i] \in DOMAIN open THEN open[locs[i]] ELSE <<>>)
             = (IF locs[i] \in DOMAIN fs THEN fs[locs[i]] ELSE <<>>)
  BY OpenedAre DEF ToSet
<1>2. \A l \in ToSet(locs) : (l \in DOMAIN open <=> l \in DOMAIN fs) /\ (l \in DOMAIN fs => open[l] = fs[l])
  BY OpenedAre
<1> HIDE DEF open
<1>3. [i \in DOMAIN locs |-> IF locs[i] \in DOMAIN open THEN open[locs[i]] ELSE <<>>]
      = [i \in DOMAIN locs |-> IF locs[i] \in DOMAIN fs THEN fs[locs[i]] ELSE <<>>]
  BY <1>1
<1>4. Read(locs, open) = Read(locs, fs)
  BY <1>3 DEF Read
<1>5. Held(locs, open) = Held(locs, fs)
  BY <1>2 DEF Held
<1> QED BY <1>4, <1>5 DEF open

-----------------------------------------------------------------------------
(* What a snapshot has for roots, and what git may answer.                 *)

RootsIn(entries, sub) == {x.val : x \in {y \in ToSet(entries) : y.key = "root" /\ (y.sub = <<>> <=> ~sub) /\ y.val # ""}}

LEMMA ValsHold ==
  ASSUME NEW q, IsSequence(q)
  PROVE  IsSequence(Vals(q)) /\ ToSet(Vals(q)) = {x.val : x \in ToSet(q)}
<1>1. Len(q) \in Nat /\ DOMAIN q = 1..Len(q)
  BY SequenceHas
<1>2. DOMAIN Vals(q) = 1..Len(q) /\ \A i \in 1..Len(q) : Vals(q)[i] = q[i].val
  BY <1>1 DEF Vals
<1>3. Vals(q) = [i \in 1..Len(q) |-> Vals(q)[i]]
  BY <1>1 DEF Vals
<1>4. ToSet(Vals(q)) = {x.val : x \in ToSet(q)}
  BY <1>1, <1>2 DEF ToSet
<1> DEFINE T == ToSet(Vals(q))
<1>5. \A i \in 1..Len(q) : Vals(q)[i] \in T
  BY <1>2 DEF ToSet
<1> HIDE DEF T
<1>6. Vals(q) \in Seq(T)
  BY <1>1, <1>3, <1>5
<1> QED BY <1>4, <1>6, SequenceOf

LEMMA NonEmptyHolds ==
  ASSUME NEW q, IsSequence(q)
  PROVE  IsSequence(NonEmpty(q)) /\ ToSet(NonEmpty(q)) = ToSet(q) \ {""}
<1> DEFINE S == {i \in DOMAIN q : q[i] # ""}
<1>1. {q[i] : i \in S} = ToSet(q) \ {""}
  BY DEF ToSet
<1>2. S \in SUBSET DOMAIN q /\ NonEmpty(q) = Picks(q, S)
  BY DEF NonEmpty
<1> HIDE DEF S
<1> QED BY <1>1, <1>2, PicksAre

LEMMA PlainHolds ==
  ASSUME NEW entries, IsSequence(entries), NEW key
  PROVE  /\ IsSequence(Plain(entries, key)) /\ IsSequence(Scoped(entries, key))
         /\ ToSet(Plain(entries, key)) = {x.val : x \in {y \in ToSet(entries) : y.key = key /\ y.sub = <<>>}}
         /\ ToSet(Scoped(entries, key)) = {x.val : x \in {y \in ToSet(entries) : y.key = key /\ y.sub # <<>>}}
<1> DEFINE S == {i \in DOMAIN entries : entries[i].key = key /\ entries[i].sub = <<>>}
           R == {i \in DOMAIN entries : entries[i].key = key /\ entries[i].sub # <<>>}
<1>1. /\ {entries[i] : i \in S} = {y \in ToSet(entries) : y.key = key /\ y.sub = <<>>}
      /\ {entries[i] : i \in R} = {y \in ToSet(entries) : y.key = key /\ y.sub # <<>>}
  BY DEF ToSet
<1>2. /\ S \in SUBSET DOMAIN entries /\ Plain(entries, key) = Vals(Picks(entries, S))
      /\ R \in SUBSET DOMAIN entries /\ Scoped(entries, key) = Vals(Picks(entries, R))
  BY DEF Plain, Scoped
<1> HIDE DEF S, R
<1>3. /\ IsSequence(Picks(entries, S)) /\ ToSet(Picks(entries, S)) = {entries[i] : i \in S}
      /\ IsSequence(Picks(entries, R)) /\ ToSet(Picks(entries, R)) = {entries[i] : i \in R}
  BY <1>2, PicksAre
<1> QED BY <1>1, <1>2, <1>3, ValsHold

LEMMA FileGives ==
  ASSUME NEW entries, IsSequence(entries), NEW e
  PROVE  LET s == from_file(entries, e)
         IN  /\ s.err = None /\ IsSequence(s.roots) /\ IsSequence(s.url_scoped_roots)
             /\ ToSet(s.roots) = RootsIn(entries, FALSE)
             /\ ToSet(s.url_scoped_roots) = RootsIn(entries, TRUE)
<1> DEFINE s == from_file(entries, e)
           p == Plain(entries, "root")
           u == Scoped(entries, "root")
<1>1. s.err = None /\ s.roots = NonEmpty(p) /\ s.url_scoped_roots = NonEmpty(u)
  BY DEF from_file
<1>2. /\ IsSequence(p) /\ ToSet(p) = {x.val : x \in {y \in ToSet(entries) : y.key = "root" /\ y.sub = <<>>}}
      /\ IsSequence(u) /\ ToSet(u) = {x.val : x \in {y \in ToSet(entries) : y.key = "root" /\ y.sub # <<>>}}
  BY PlainHolds
<1> HIDE DEF s, p, u
<1>3. /\ IsSequence(NonEmpty(p)) /\ ToSet(NonEmpty(p)) = ToSet(p) \ {""}
      /\ IsSequence(NonEmpty(u)) /\ ToSet(NonEmpty(u)) = ToSet(u) \ {""}
  BY <1>2, NonEmptyHolds
<1>4. ToSet(p) \ {""} = RootsIn(entries, FALSE)
  BY <1>2 DEF RootsIn
<1>5. ToSet(u) \ {""} = RootsIn(entries, TRUE)
  BY <1>2 DEF RootsIn
<1> QED BY <1>1, <1>3, <1>4, <1>5 DEF s

Included(e, x) == IF x.key = "onbranch" /\ e.onBranch THEN [x EXCEPT !.key = "root"] ELSE x

\* git's listing: the entries of its files, those of an active branch among them, and what
\* the environment adds.
LEMMA ListingIs ==
  ASSUME NEW e, NEW fs, Given(e, fs)
  PROVE  LET read == Held(GitFiles(e, fs), Opened(fs))
             more == e.count = "some" \/ e.parameters
         IN  /\ IsSequence(GitListing(e, fs))
             /\ ToSet(GitListing(e, fs)) = {Included(e, x) : x \in read} \cup (IF more THEN ToSet(e.extra) ELSE {})
<1> DEFINE read == Read(GitFiles(e, fs), Opened(fs))
           more == e.count = "some" \/ e.parameters
           included == [i \in DOMAIN read |-> IF read[i].key = "onbranch" /\ e.onBranch
                                              THEN [read[i] EXCEPT !.key = "root"] ELSE read[i]]
           extra == IF more THEN e.extra ELSE <<>>
<1>1. IsSequence(read) /\ ToSet(read) = Held(GitFiles(e, fs), Opened(fs))
  BY ReadHolds, GitReadsNoMore, OpenedGiven DEF Given, GivesRoots
<1>2. IsSequence(extra) /\ ToSet(extra) = IF more THEN ToSet(e.extra) ELSE {}
  BY NoneHeld DEF Given, GivesRoots
<1>3. GitListing(e, fs) = included \o extra
  BY DEF GitListing
<1> HIDE DEF read, extra
<1>4. Len(read) \in Nat /\ DOMAIN read = 1..Len(read)
  BY <1>1, SequenceHas
<1>5. DOMAIN included = 1..Len(read) /\ \A i \in 1..Len(read) : included[i] = Included(e, read[i])
  BY <1>4 DEF Included
<1>6. included = [i \in 1..Len(read) |-> included[i]]
  BY <1>4
<1> HIDE DEF included
<1>7. ToSet(included) = {Included(e, x) : x \in ToSet(read)}
  BY <1>4, <1>5 DEF ToSet
<1>8. IsSequence(included)
  <2> DEFINE T == ToSet(included)
  <2>1. \A i \in 1..Len(read) : included[i] \in T
    BY <1>5 DEF ToSet
  <2> HIDE DEF T
  <2>2. included \in Seq(T)
    BY <1>4, <1>6, <2>1
  <2> QED BY <2>2, SequenceOf
<1> QED BY <1>1, <1>2, <1>3, <1>7, <1>8, JoinHolds

\* The entries of a listing that are roots have paths.
LEMMA ListingGives ==
  ASSUME NEW e, NEW fs, Given(e, fs)
  PROVE  GivesRoots(GitListing(e, fs))
<1> DEFINE g == GitListing(e, fs)
<1>1. ASSUME NEW x \in Held(GitFiles(e, fs), Opened(fs))
      PROVE  DOMAIN x = {"key", "sub", "val"} /\ (x.key \in {"root", "onbranch"} => x.val \in DOMAIN Cleaned)
  BY <1>1, OpenedGiven DEF Held, Given, GivesRoots
<1>2. ASSUME NEW x \in Held(GitFiles(e, fs), Opened(fs))
      PROVE  LET y == Included(e, x)
             IN  DOMAIN y = {"key", "sub", "val"} /\ (y.key \in {"root", "onbranch"} => y.val \in DOMAIN Cleaned)
  <2>1. CASE x.key = "onbranch" /\ e.onBranch
    <3>1. Included(e, x) = [x EXCEPT !.key = "root"]
      BY <2>1 DEF Included
    <3>2. DOMAIN Included(e, x) = DOMAIN x /\ Included(e, x).val = x.val
      BY <1>1, <3>1
    <3> QED BY <1>1, <2>1, <3>2
  <2>2. CASE ~(x.key = "onbranch" /\ e.onBranch)
    BY <1>1, <2>2 DEF Included
  <2> QED BY <2>1, <2>2
<1>3. \A x \in ToSet(e.extra) :
        DOMAIN x = {"key", "sub", "val"} /\ (x.key \in {"root", "onbranch"} => x.val \in DOMAIN Cleaned)
  BY DEF Given, GivesRoots
<1>4. IsSequence(g) /\ \A y \in ToSet(g) : y \in ToSet(e.extra) \/ \E x \in Held(GitFiles(e, fs), Opened(fs)) : y = Included(e, x)
  BY ListingIs
<1> QED BY <1>2, <1>3, <1>4 DEF GivesRoots

\* What git says of a remote is the root of some entry of its listing.
LEMMA AnswerIsListed ==
  ASSUME NEW e, NEW fs, NEW url, get_urlmatch(e, fs, url) # None
  PROVE  \E x \in ToSet(GitListing(e, fs)) : x.key = "root" /\ x.val # "" /\ get_urlmatch(e, fs, url) = x.val
<1> DEFINE listing == GitListing(e, fs)
           hits == {i \in DOMAIN listing : listing[i].key = "root" /\ (listing[i].sub = <<>> \/ Matches(listing[i].sub, url))}
           best == {i \in hits : \A j \in hits : \/ Len(listing[j].sub) < Len(listing[i].sub)
                                                 \/ Len(listing[j].sub) = Len(listing[i].sub) /\ j <= i}
           vals == {listing[i].val : i \in best} \ {""}
<1>1. get_urlmatch(e, fs, url) = IF vals = {} THEN None ELSE CHOOSE v \in vals : TRUE
  BY DEF get_urlmatch
<1>2. get_urlmatch(e, fs, url) \in vals
  <2> HIDE DEF vals
  <2> QED BY <1>1
<1>3. PICK i \in hits : get_urlmatch(e, fs, url) = listing[i].val /\ listing[i].val # ""
  BY <1>2
<1>4. listing[i] \in ToSet(listing) /\ listing[i].key = "root"
  BY <1>3 DEF ToSet
<1> QED BY <1>3, <1>4

\* Whatever way a snapshot was loaded, it has every root that git may answer.
Tells(s, e, fs) ==
  /\ IsSequence(s.roots) /\ IsSequence(s.url_scoped_roots)
  /\ ToSet(s.roots) \subseteq DOMAIN Cleaned
  /\ \A url : get_urlmatch(e, fs, url) # None =>
        get_urlmatch(e, fs, url) \in ToSet(s.roots) \cup ToSet(s.url_scoped_roots)

LEMMA RootsAreAll ==
  ASSUME NEW entries, NEW x \in ToSet(entries), x.key = "root", x.val # ""
  PROVE  x.val \in RootsIn(entries, FALSE) \cup RootsIn(entries, TRUE)
BY DEF RootsIn

LEMMA LoadTells ==
  ASSUME NEW e, NEW fs, Given(e, fs), RepoFound(e), load(e, fs).err = None
  PROVE  Tells(load(e, fs), e, fs)
<1> DEFINE s == load(e, fs)
           file == Read(enumerate(e, fs).files, fs)
           g == GitListing(e, fs)
<1>1. IsSequence(g) /\ GivesRoots(g)
  BY ListingIs, ListingGives
<1>2. /\ IsSequence(file) /\ ToSet(file) = Held(enumerate(e, fs).files, fs)
      /\ Held(GitFiles(e, fs), Opened(fs)) \subseteq ToSet(file)
  BY GitReadsNoMore, ReadHolds, OpenedHeld DEF Given, GivesRoots
<1>3. \/ s = from_file(g, e)
      \/ s = from_file(file, e) /\ ~has_unevaluable_includeif(file) /\ ~git_config_count_applies(e.count) /\ ~e.parameters
  <2>1. load_git(e, fs).err = None => load_git(e, fs) = from_file(g, e)
    BY DEF load_git, ConfigError, None, from_listing
  <2>2. ConfigError("Parse").err # None
    BY DEF ConfigError, None
  <2> QED BY <2>1, <2>2 DEF load, parse, needs_git_backend
<1>4. ASSUME NEW entries, IsSequence(entries), GivesRoots(entries), s = from_file(entries, e)
      PROVE  /\ IsSequence(s.roots) /\ IsSequence(s.url_scoped_roots)
             /\ ToSet(s.roots) \subseteq DOMAIN Cleaned
             /\ \A x \in ToSet(entries) : x.key = "root" /\ x.val # "" =>
                   x.val \in ToSet(s.roots) \cup ToSet(s.url_scoped_roots)
  <2>1. /\ IsSequence(s.roots) /\ IsSequence(s.url_scoped_roots)
        /\ ToSet(s.roots) = RootsIn(entries, FALSE) /\ ToSet(s.url_scoped_roots) = RootsIn(entries, TRUE)
    BY <1>4, FileGives
  <2>2. RootsIn(entries, FALSE) \subseteq DOMAIN Cleaned
    BY <1>4 DEF RootsIn, GivesRoots
  <2> HIDE DEF s
  <2> QED BY <2>1, <2>2, RootsAreAll
<1>5. CASE s = from_file(g, e)
  <2> HIDE DEF s, g
  <2>1. \A url : get_urlmatch(e, fs, url) # None =>
          \E x \in ToSet(g) : x.key = "root" /\ x.val # "" /\ get_urlmatch(e, fs, url) = x.val
    BY AnswerIsListed DEF g
  <2> QED BY <1>1, <1>4, <1>5, <2>1 DEF Tells, s
<1>6. CASE s = from_file(file, e) /\ ~has_unevaluable_includeif(file) /\ ~git_config_count_applies(e.count) /\ ~e.parameters
  <2>1. \A x \in ToSet(file) : x.key # "onbranch"
    BY <1>6 DEF has_unevaluable_includeif, ToSet
  <2>2. GivesRoots(file)
    BY <1>2 DEF GivesRoots, Held, Given
  <2>3. ToSet(g) \subseteq ToSet(file)
    <3>1. ~(e.count = "some" \/ e.parameters)
      BY <1>6 DEF git_config_count_applies
    <3>2. \A x \in Held(GitFiles(e, fs), Opened(fs)) : Included(e, x) = x
      BY <1>2, <2>1 DEF Included
    <3>3. ToSet(g) = {Included(e, x) : x \in Held(GitFiles(e, fs), Opened(fs))}
      BY <3>1, ListingIs
    <3> QED BY <1>2, <3>2, <3>3
  <2> HIDE DEF s, g, file
  <2>4. \A url : get_urlmatch(e, fs, url) # None =>
          \E x \in ToSet(g) : x.key = "root" /\ x.val # "" /\ get_urlmatch(e, fs, url) = x.val
    BY AnswerIsListed DEF g
  <2> QED BY <1>2, <1>4, <1>6, <2>2, <2>3, <2>4 DEF Tells, s
<1> QED BY <1>3, <1>5, <1>6

-----------------------------------------------------------------------------
(* The roots a listing walks.                                              *)

Real(r) == Physical[Cleaned[r]]

LEMMA DedupeHolds ==
  ASSUME NEW q, IsSequence(q)
  PROVE  IsSequence(Dedupe(q)) /\ ToSet(Dedupe(q)) = {Real(r) : r \in ToSet(q)}
<1> DEFINE real == [i \in DOMAIN q |-> Physical[Cleaned[q[i]]]]
           S == {i \in DOMAIN real : \A j \in 1..(i - 1) : real[j] # real[i]}
<1>1. Len(q) \in Nat /\ DOMAIN q = 1..Len(q)
  BY SequenceHas
<1>2. Dedupe(q) = Picks(real, S)
  BY DEF Dedupe, Firsts
<1>3. DOMAIN real = 1..Len(q) /\ S \in SUBSET DOMAIN real /\ \A i \in 1..Len(q) : real[i] = Real(q[i])
  BY <1>1 DEF Real
<1>4. \A i \in S : i \in 1..Len(q)
  BY <1>3
<1>5. \A i \in 1..Len(q) : i \notin S => \E j \in 1..(i - 1) : real[j] = real[i]
  BY <1>3
<1>6. real = [i \in 1..Len(q) |-> real[i]]
  BY <1>1
<1> HIDE DEF real, S
<1>7. IsSequence(real)
  <2> DEFINE T == ToSet(real)
  <2>1. \A i \in 1..Len(q) : real[i] \in T
    BY <1>3 DEF ToSet
  <2> HIDE DEF T
  <2>2. real \in Seq(T)
    BY <1>1, <1>6, <2>1
  <2> QED BY <2>2, SequenceOf
<1>8. ASSUME NEW i \in 1..Len(q) PROVE \E k \in S : real[k] = real[i]
  <2> DEFINE Same == {j \in 1..Len(q) : real[j] = real[i]}
  <2>1. Same \in SUBSET Nat /\ i \in Same
    OBVIOUS
  <2>2. PICK k \in Same : \A j \in Same : k <= j
    BY <2>1, LeastOne
  <2>3. k \in 1..Len(q) /\ real[k] = real[i]
    BY <2>2
  <2>4. k \in S
    <3>1. ASSUME NEW j \in 1..(k - 1), real[j] = real[k] PROVE FALSE
      <4>1. j \in 1..Len(q) /\ ~(k <= j)
        BY <1>1, <2>3
      <4>2. j \in Same
        BY <2>3, <3>1, <4>1
      <4> QED BY <2>2, <4>1, <4>2
    <3> QED BY <1>5, <2>3, <3>1
  <2> QED BY <2>3, <2>4
<1>9. {real[i] : i \in S} = {Real(r) : r \in ToSet(q)}
  <2>1. \A i \in S : \E r \in ToSet(q) : real[i] = Real(r)
    BY <1>1, <1>3, <1>4 DEF ToSet
  <2>2. \A r \in ToSet(q) : \E i \in S : real[i] = Real(r)
    BY <1>1, <1>3, <1>8 DEF ToSet
  <2> QED BY <2>1, <2>2
<1> QED BY <1>2, <1>3, <1>7, <1>9, PicksAre

LEMMA ReverseHolds ==
  ASSUME NEW q, IsSequence(q)
  PROVE  IsSequence(Reverse(q)) /\ ToSet(Reverse(q)) = ToSet(q) /\ (Reverse(q) = <<>> <=> q = <<>>)
<1> DEFINE T == ToSet(q)
<1>1. Len(q) \in Nat /\ DOMAIN q = 1..Len(q) /\ q \in Seq(T) /\ \A i \in 1..Len(q) : q[i] \in T
  BY SequenceHas
<1>2. /\ Reverse(q) = [i \in 1..Len(q) |-> q[Len(q) - i + 1]]
      /\ \A i \in 1..Len(q) : Len(q) - i + 1 \in 1..Len(q) /\ Len(q) - (Len(q) - i + 1) + 1 = i
  BY <1>1 DEF Reverse
<1> HIDE DEF T
<1>3. Reverse(q) \in Seq(T) /\ Len(Reverse(q)) = Len(q) /\ DOMAIN Reverse(q) = 1..Len(q)
  BY <1>1, <1>2
<1>4. \A i \in 1..Len(q) : Reverse(q)[i] = q[Len(q) - i + 1] /\ Reverse(q)[Len(q) - i + 1] = q[i]
  BY <1>2
<1>5. ToSet(Reverse(q)) = T
  <2>1. ASSUME NEW x \in T PROVE x \in ToSet(Reverse(q))
    <3>1. PICK i \in 1..Len(q) : x = q[i]
      BY <1>1, <2>1 DEF T, ToSet
    <3> QED BY <1>2, <1>3, <1>4, <3>1 DEF ToSet
  <2>2. ToSet(Reverse(q)) \subseteq T
    BY <1>1, <1>2, <1>3, <1>4 DEF ToSet
  <2> QED BY <2>1, <2>2
<1> QED BY <1>1, <1>3, <1>5, SequenceOf DEF T

\* The roots before what the URL sections add.
Base(e, s) ==
  IF e.scapRoot # <<>> THEN ToSet(e.scapRoot)
  ELSE IF s.roots # <<>> THEN ToSet(s.roots)
  ELSE {"home/scap"}

LEMMA ResolveHolds ==
  ASSUME NEW e, NEW s, NEW all \in BOOLEAN,
         IsSequence(e.scapRoot), IsSequence(s.roots), IsSequence(s.url_scoped_roots)
  PROVE  LET homeless == ~e.home /\ e.scapRoot = <<>> /\ s.roots = <<>>
             r == resolve_roots(e, s, all)
             scoped == IF all /\ e.scapRoot = <<>> THEN ToSet(s.url_scoped_roots) ELSE {}
         IN  /\ homeless => r = <<>>
             /\ ~homeless => /\ r # <<>> /\ IsSequence(r)
                             /\ ToSet(r) = {Real(x) : x \in Base(e, s) \cup scoped}
<1> DEFINE homeless == ~e.home /\ e.scapRoot = <<>> /\ s.roots = <<>>
           configured == IF e.scapRoot # <<>> THEN e.scapRoot ELSE Reverse(s.roots)
           roots == IF configured = <<>> /\ e.home THEN << "home/scap" >> ELSE configured
           more == IF all /\ e.scapRoot = <<>> THEN s.url_scoped_roots ELSE <<>>
           r == resolve_roots(e, s, all)
<1>1. r = IF roots = <<>> THEN <<>> ELSE Dedupe(roots \o more)
  BY DEF resolve_roots
<1>2. IsSequence(Reverse(s.roots)) /\ ToSet(Reverse(s.roots)) = ToSet(s.roots) /\ (Reverse(s.roots) = <<>> <=> s.roots = <<>>)
  BY ReverseHolds
<1>3. homeless => roots = <<>>
  BY <1>2
<1>4. ~homeless => roots # <<>> /\ IsSequence(roots) /\ ToSet(roots) = Base(e, s)
  <2>1. IsSequence(<< "home/scap" >>) /\ ToSet(<< "home/scap" >>) = {"home/scap"} /\ << "home/scap" >> # <<>>
    BY OneHeld
  <2> QED BY <1>2, <2>1 DEF Base
<1>5. IsSequence(more) /\ ToSet(more) = IF all /\ e.scapRoot = <<>> THEN ToSet(s.url_scoped_roots) ELSE {}
  BY NoneHeld
<1> HIDE DEF roots, more, r
<1>6. ASSUME ~homeless
      PROVE  r # <<>> /\ IsSequence(r) /\ ToSet(r) = {Real(x) : x \in Base(e, s) \cup ToSet(more)}
  <2>1. IsSequence(roots \o more) /\ ToSet(roots \o more) = Base(e, s) \cup ToSet(more)
    BY <1>4, <1>5, <1>6, JoinHolds
  <2>2. IsSequence(r) /\ ToSet(r) = {Real(x) : x \in Base(e, s) \cup ToSet(more)}
    BY <1>1, <1>4, <1>6, <2>1, DedupeHolds
  <2>3. Base(e, s) # {}
    <3>1. Len(roots) \in Nat /\ DOMAIN roots = 1..Len(roots) /\ roots \in Seq(ToSet(roots)) /\ \A i \in 1..Len(roots) : roots[i] \in ToSet(roots)
      BY <1>4, <1>6, SequenceHas
    <3> DEFINE T == ToSet(roots)
    <3>2. T = Base(e, s) /\ roots # <<>>
      BY <1>4, <1>6
    <3> HIDE DEF T
    <3>3. Len(roots) # 0
      BY <3>1, <3>2 DEF T
    <3> QED BY <3>1, <3>2, <3>3 DEF T
  <2>4. r # <<>>
    BY <2>2, <2>3, NoneHeld
  <2> QED BY <2>2, <2>4
<1> QED BY <1>1, <1>3, <1>5, <1>6 DEF r

LEMMA FirstIsThere ==
  ASSUME NEW q, IsSequence(q), q # <<>>
  PROVE  q[1] \in ToSet(q) /\ Head(q) \in ToSet(q) /\ Last(q) \in ToSet(q)
<1> DEFINE T == ToSet(q)
<1>1. Len(q) \in Nat /\ q \in Seq(T) /\ \A i \in 1..Len(q) : q[i] \in T
  BY SequenceHas
<1> HIDE DEF T
<1>2. Len(q) # 0
  BY <1>1
<1> QED BY <1>1, <1>2 DEF T, Last

\* root_for_url against resolve_roots, of what git may answer.
LEMMA RootIsListed ==
  ASSUME NEW e, NEW fs, Given(e, fs), NEW s, Tells(s, e, fs), NEW url,
         NEW answer, answer \in {None, get_urlmatch(e, fs, url)},
         ~(~e.home /\ e.scapRoot = <<>> /\ s.roots = <<>>)
  PROVE  Physical[root_for_url(e, s, url, answer)] \in ToSet(resolve_roots(e, s, TRUE))
<1> DEFINE r == root_for_url(e, s, url, answer)
           listed == resolve_roots(e, s, TRUE)
           scoped == IF e.scapRoot = <<>> THEN ToSet(s.url_scoped_roots) ELSE {}
<1>1. IsSequence(e.scapRoot) /\ IsSequence(s.roots) /\ IsSequence(s.url_scoped_roots) /\ ToSet(s.roots) \subseteq DOMAIN Cleaned
  BY DEF Given, Tells
<1>2. ToSet(listed) = {Real(x) : x \in Base(e, s) \cup scoped}
  BY <1>1, ResolveHolds
<1>3. CASE e.scapRoot # <<>>
  <2>1. r = Cleaned[Head(e.scapRoot)] /\ Head(e.scapRoot) \in Base(e, s)
    BY <1>1, <1>3, FirstIsThere DEF root_for_url, Base
  <2> QED BY <1>2, <2>1 DEF Real
<1>4. CASE e.scapRoot = <<>> /\ answer # None /\ r = Cleaned[answer]
  <2>1. answer \in ToSet(s.roots) \cup ToSet(s.url_scoped_roots)
    BY <1>4 DEF Tells
  <2>2. answer \in Base(e, s) \cup scoped
    <3>1. CASE s.roots # <<>>
      BY <1>4, <2>1, <3>1 DEF Base
    <3>2. CASE s.roots = <<>>
      BY <1>4, <2>1, <3>2, NoneHeld
    <3> QED BY <3>1, <3>2
  <2> QED BY <1>2, <1>4, <2>2 DEF Real
<1>5. CASE e.scapRoot = <<>> /\ s.roots # <<>> /\ r = Cleaned[Last(s.roots)]
  <2>1. Last(s.roots) \in Base(e, s)
    BY <1>1, <1>5, FirstIsThere DEF Base
  <2> QED BY <1>2, <1>5, <2>1 DEF Real
<1>6. CASE e.scapRoot = <<>> /\ r = PrimaryRoot(e, s)
  <2> DEFINE plain == resolve_roots(e, s, FALSE)
  <2>1. plain # <<>> /\ IsSequence(plain) /\ ToSet(plain) = {Real(x) : x \in Base(e, s)}
    BY <1>1, ResolveHolds
  <2>2. r = plain[1]
    BY <1>6, <2>1 DEF PrimaryRoot
  <2> HIDE DEF plain, r, listed
  <2>3. PICK x \in Base(e, s) : r = Real(x)
    BY <2>1, <2>2, FirstIsThere
  <2>4. x \in DOMAIN Cleaned
    BY <1>1, <1>6, <2>3, StartsAssumption DEF Base
  <2>5. Physical[r] = r
    BY <2>3, <2>4, PathsAssumption DEF Real
  <2> QED BY <1>2, <2>3, <2>5 DEF r, listed
<1> QED BY <1>3, <1>4, <1>5, <1>6 DEF root_for_url

-----------------------------------------------------------------------------
\* Until the user edits a file, the snapshot and the memo hold what the files say.
FreshInv ==
  edits = 0 => /\ Given(env, files)
               /\ snap \in {NotLoaded, load(env, files)}
               /\ \A u \in DOMAIN memo : memo[u] = get_urlmatch(env, files, u)

LEMMA InitFresh == Init => FreshInv
BY StartsAssumption DEF Init, FreshInv, Given

LEMMA FreshKept ==
  ASSUME FreshInv, edits' = 0 => edits = 0 /\ UNCHANGED << env, files, snap, memo >>
  PROVE  FreshInv'
BY DEF FreshInv

LEMMA NextFresh == FreshInv /\ [Next]_vars => FreshInv'
<1> SUFFICES ASSUME FreshInv, [Next]_vars PROVE FreshInv'
  OBVIOUS
<1>1. CASE Load
  BY <1>1 DEF Load, FreshInv
<1>2. CASE ExecLook
  BY <1>2, FreshKept DEF ExecLook
<1>3. CASE Edit
  BY <1>3, FreshKept DEF Edit
<1>4. ASSUME NEW w \in Workers, Work(w) PROVE FreshInv'
  <2>1. CASE Answered(w)
    <3>1. /\ UNCHANGED << env, files, snap, edits >>
          /\ memo' = With(memo, {Asked(w)}, get_urlmatch(env, files, Asked(w)))
      BY <2>1 DEF Answered
    <3> QED BY <3>1 DEF FreshInv, With
  <2>2. CASE ~Answered(w)
    BY <1>4, <2>2, FreshKept DEF Work, Take, Resolve, LockSlot, Remembered, SpawnFails, Leave
  <2> QED BY <2>1, <2>2
<1>5. CASE UNCHANGED vars
  BY <1>5, FreshKept DEF vars
<1> QED BY <1>1, <1>2, <1>3, <1>4, <1>5 DEF Next, Ended

\* The root a target is put in is one that a later listing walks, for any files and any
\* environment in which scap finds the repository git finds, if git finds one, although the one is asked of git, or is the last plain root, and the other comes from the
\* snapshot (config.rs: root_for_url rules (a) to (e), resolve_roots).
THEOREM RootsAreListed == Spec => []ListedRoot
<1>1. MemoInv /\ FreshInv => ListedRoot
  <2> SUFFICES ASSUME MemoInv, FreshInv, edits = 0, RepositoryIsFound, NEW d \in went
               PROVE  LET s == load(env, files)
                          listed == resolve_roots(env, s, TRUE)
                      IN  IF Homeless(s) THEN listed = <<>> ELSE Physical[d.dest[1]] \in ToSet(listed)
    BY DEF ListedRoot
  <2> DEFINE s == load(env, files)
  <2>1. snap = s /\ s.err = None
    BY NotLoadedFails DEF MemoInv, NobodyBefore, FreshInv
  <2>2. Given(env, files) /\ Tells(s, env, files)
    BY <2>1, LoadTells DEF FreshInv, RepositoryIsFound, RepoFound
  <2>3. Known(d.remote) \in {None, get_urlmatch(env, files, d.remote)}
    BY DEF Known, MemoInv, Founded, FreshInv
  <2>4. d.dest[1] = root_for_url(env, s, d.remote, Known(d.remote))
    BY <2>1 DEF MemoInv, Founded
  <2> HIDE DEF s
  <2>5. CASE Homeless(s)
    <3>1. resolve_roots(env, s, TRUE) = <<>>
      BY <2>2, <2>5, ResolveHolds DEF Given, Tells, Homeless
    <3> QED BY <2>5, <3>1 DEF s
  <2>6. CASE ~Homeless(s)
    <3>1. Physical[root_for_url(env, s, d.remote, Known(d.remote))] \in ToSet(resolve_roots(env, s, TRUE))
      BY <2>2, <2>3, <2>6, RootIsListed DEF Homeless
    <3> QED BY <2>4, <2>6, <3>1 DEF s
  <2> QED BY <2>5, <2>6
<1>2. Spec => []FreshInv
  BY InitFresh, NextFresh, PTL DEF Spec
<1> QED BY <1>1, <1>2, Invariance, PTL

-----------------------------------------------------------------------------
(* Sequences that are joined, and what is made of a joined one.            *)

\* Sequences as functions on positions.
LEMMA SameSequence ==
  ASSUME NEW p, NEW q, IsSequence(p), IsSequence(q), Len(p) = Len(q), \A k \in 1..Len(p) : p[k] = q[k]
  PROVE  p = q
<1>1. /\ Len(p) \in Nat /\ p \in Seq(ToSet(p)) /\ q \in Seq(ToSet(q))
  BY SequenceHas
<1>2. p = [k \in 1..Len(p) |-> p[k]] /\ q = [k \in 1..Len(q) |-> q[k]]
  BY <1>1
<1> QED BY <1>2

LEMMA JoinAt ==
  ASSUME NEW a, IsSequence(a), NEW b, IsSequence(b)
  PROVE  /\ IsSequence(a \o b) /\ Len(a) \in Nat /\ Len(b) \in Nat
         /\ Len(a \o b) = Len(a) + Len(b)
         /\ DOMAIN a = 1..Len(a) /\ DOMAIN b = 1..Len(b) /\ DOMAIN (a \o b) = 1..(Len(a) + Len(b))
         /\ \A i \in 1..Len(a) : (a \o b)[i] = a[i]
         /\ \A i \in 1..Len(b) : (a \o b)[Len(a) + i] = b[i]
<1> DEFINE T == ToSet(a) \cup ToSet(b)
<1>1. /\ Len(a) \in Nat /\ DOMAIN a = 1..Len(a) /\ a \in Seq(ToSet(a)) /\ \A i \in 1..Len(a) : a[i] \in ToSet(a)
      /\ Len(b) \in Nat /\ DOMAIN b = 1..Len(b) /\ b \in Seq(ToSet(b)) /\ \A i \in 1..Len(b) : b[i] \in ToSet(b)
  BY SequenceHas
<1>2. a = [i \in 1..Len(a) |-> a[i]] /\ b = [i \in 1..Len(b) |-> b[i]]
  BY <1>1
<1> HIDE DEF T
<1>3. a \in Seq(T) /\ b \in Seq(T)
  BY <1>1, <1>2 DEF T
<1>4. IsSequence(a \o b)
  BY JoinHolds
<1>5. /\ Len(a \o b) = Len(a) + Len(b)
      /\ DOMAIN (a \o b) = 1..(Len(a) + Len(b))
      /\ \A i \in 1..(Len(a) + Len(b)) : (a \o b)[i] = IF i <= Len(a) THEN a[i] ELSE b[i - Len(a)]
  BY <1>3
<1>6. ASSUME NEW i \in 1..Len(b) PROVE (a \o b)[Len(a) + i] = b[i]
  <2>1. Len(a) + i \in 1..(Len(a) + Len(b)) /\ ~(Len(a) + i <= Len(a)) /\ Len(a) + i - Len(a) = i
    BY <1>1
  <2> QED BY <1>5, <2>1
<1> QED BY <1>1, <1>4, <1>5, <1>6

\* A sequence is joined from two when each keeps its order.
Follows(a, b, c) ==
  /\ IsSequence(a) /\ IsSequence(b) /\ IsSequence(c)
  /\ Len(c) = Len(a) + Len(b)
  /\ \A i \in 1..Len(a) : c[i] = a[i]
  /\ \A i \in 1..Len(b) : c[Len(a) + i] = b[i]

LEMMA JoinIs ==
  ASSUME NEW a, NEW b, NEW c, Follows(a, b, c)
  PROVE  c = a \o b
<1>0. /\ IsSequence(a) /\ IsSequence(b) /\ IsSequence(c) /\ Len(c) = Len(a) + Len(b)
      /\ \A i \in 1..Len(a) : c[i] = a[i]
      /\ \A i \in 1..Len(b) : c[Len(a) + i] = b[i]
  BY DEF Follows
<1>1. /\ IsSequence(a \o b) /\ Len(a) \in Nat /\ Len(b) \in Nat
      /\ Len(a \o b) = Len(a) + Len(b)
      /\ \A i \in 1..Len(a) : (a \o b)[i] = a[i]
      /\ \A i \in 1..Len(b) : (a \o b)[Len(a) + i] = b[i]
  BY <1>0, JoinAt
<1>2. ASSUME NEW k \in 1..Len(c) PROVE c[k] = (a \o b)[k]
  <2>1. CASE k <= Len(a)
    BY <1>0, <1>1, <2>1
  <2>2. CASE k > Len(a)
    <3>1. k - Len(a) \in 1..Len(b) /\ k = Len(a) + (k - Len(a))
      BY <1>0, <1>1, <2>2
    <3> QED BY <1>0, <1>1, <3>1
  <2> QED BY <1>0, <1>1, <2>1, <2>2
<1> QED BY <1>0, <1>1, <1>2, SameSequence

\* What is picked of a joined sequence is what is picked of each part, one after the other.
InFirst(a, S) == {i \in DOMAIN a : i \in S}
InSecond(a, b, S) == {i \in DOMAIN b : Len(a) + i \in S}

LEMMA PicksJoin ==
  ASSUME NEW a, IsSequence(a), NEW b, IsSequence(b), NEW S, S \subseteq DOMAIN (a \o b)
  PROVE  Picks(a \o b, S) = Picks(a, InFirst(a, S)) \o Picks(b, InSecond(a, b, S))
<1> DEFINE n == Len(a)
           c == a \o b
           A == InFirst(a, S)
           B == InSecond(a, b, S)
<1>0. A = {i \in DOMAIN a : i \in S} /\ B = {i \in DOMAIN b : Len(a) + i \in S}
  BY DEF InFirst, InSecond
<1> HIDE DEF A, B
<1>1. /\ IsSequence(c) /\ n \in Nat /\ Len(b) \in Nat /\ Len(c) = n + Len(b)
      /\ DOMAIN a = 1..n /\ DOMAIN b = 1..Len(b) /\ DOMAIN c = 1..(n + Len(b))
      /\ \A i \in 1..n : c[i] = a[i]
      /\ \A i \in 1..Len(b) : c[n + i] = b[i]
  BY JoinAt
<1> HIDE DEF n, c
<1>2. A \in SUBSET (1..n) /\ B \in SUBSET (1..Len(b)) /\ S \in SUBSET (1..(n + Len(b)))
  BY <1>0, <1>1 DEF c
<1>3. S = A \cup {n + i : i \in B}
  <2>1. ASSUME NEW x \in S PROVE x \in A \cup {n + i : i \in B}
    <3>1. CASE x <= n
      BY <1>0, <1>1, <1>2, <2>1, <3>1
    <3>2. CASE x > n
      <4>1. x - n \in 1..Len(b) /\ n + (x - n) = x
        BY <1>1, <1>2, <3>2
      <4>2. x - n \in B
        BY <1>0, <1>1, <4>1 DEF n
      <4> QED BY <4>1, <4>2
    <3> QED BY <1>1, <1>2, <3>1, <3>2
  <2>2. \A i \in B : n + i \in S
    BY <1>0 DEF n
  <2> QED BY <1>0, <2>1, <2>2
<1>4. Ranked(a, A)
  BY <1>0, PickAt
<1>5. Ranked(b, B)
  BY <1>0, PickAt
<1>6. Ranked(c, S)
  BY <1>1, PickAt DEF c
<1>7. ASSUME NEW D \in SUBSET B
      PROVE  Cardinality(A \cup {n + i : i \in D}) = Cardinality(A) + Cardinality(D)
  <2> DEFINE E == {n + i : i \in D}
             f == [i \in D |-> n + i]
  <2>1. IsFiniteSet(D)
    BY <1>5, FS_Subset DEF Ranked
  <2>2. f \in Bijection(D, E)
    <3>1. \A i \in D : i \in Nat
      BY <1>2
    <3>2. f \in Injection(D, E)
      BY <1>1, <3>1 DEF Injection, IsInjective
    <3>3. f \in Surjection(D, E)
      BY DEF Surjection
    <3> QED BY <3>2, <3>3 DEF Bijection
  <2>3. IsFiniteSet(E) /\ Cardinality(E) = Cardinality(D)
    BY <2>1, <2>2, FS_Bijection, FS_Surjection DEF Bijection
  <2>4. A \cap E = {}
    BY <1>1, <1>2
  <2> HIDE DEF E
  <2>5. Cardinality(A \cup E) = Cardinality(A) + Cardinality(E) - Cardinality(A \cap E)
    BY <1>4, <2>3, FS_Union DEF Ranked
  <2>6. Cardinality(A \cap E) = 0
    BY <2>4, FS_EmptySet
  <2>7. Cardinality(E) \in Nat
    BY <2>3, FS_CardinalityType
  <2> QED BY <1>4, <2>3, <2>5, <2>6, <2>7 DEF E, Ranked
<1>8. Cardinality(S) = Cardinality(A) + Cardinality(B)
  BY <1>3, <1>7
<1>9. ASSUME NEW i \in A PROVE Rank(S, i) = Rank(A, i)
  <2>1. {j \in S : j <= i} = {j \in A : j <= i}
    BY <1>1, <1>2, <1>3
  <2> QED BY <2>1 DEF Rank
<1>10. ASSUME NEW i \in B PROVE Rank(S, n + i) = Cardinality(A) + Rank(B, i)
  <2> DEFINE D == {j \in B : j <= i}
  <2>1. {j \in S : j <= n + i} = A \cup {n + j : j \in D}
    <3>1. ASSUME NEW j \in S, j <= n + i PROVE j \in A \cup {n + x : x \in D}
      <4>1. CASE j \in A
        BY <4>1
      <4>2. CASE j \notin A
        <5>1. PICK x \in B : j = n + x
          BY <1>3, <4>2
        <5>2. x <= i
          BY <1>1, <1>2, <3>1, <5>1
        <5> QED BY <5>1, <5>2
      <4> QED BY <4>1, <4>2
    <3>2. ASSUME NEW j \in A PROVE j \in S /\ j <= n + i
      BY <1>1, <1>2, <1>3
    <3>3. ASSUME NEW x \in D PROVE n + x \in S /\ n + x <= n + i
      BY <1>1, <1>2, <1>3
    <3> QED BY <3>1, <3>2, <3>3
  <2> HIDE DEF D
  <2>2. D \in SUBSET B
    BY DEF D
  <2> QED BY <1>7, <2>1, <2>2 DEF Rank, D
<1>11. /\ IsSequence(Picks(a, A)) /\ IsSequence(Picks(b, B)) /\ IsSequence(Picks(c, S))
       /\ Len(Picks(a, A)) = Cardinality(A) /\ Len(Picks(b, B)) = Cardinality(B) /\ Len(Picks(c, S)) = Cardinality(S)
  BY <1>1, <1>2, PicksAre
<1>12. ASSUME NEW k \in 1..Cardinality(A) PROVE Picks(c, S)[k] = Picks(a, A)[k]
  <2>1. PICK i \in A : Rank(A, i) = k
    BY <1>4 DEF Ranked
  <2>2. i \in S /\ c[i] = a[i]
    BY <1>1, <1>2, <1>3
  <2> QED BY <1>4, <1>6, <1>9, <2>1, <2>2 DEF Ranked
<1>13. ASSUME NEW k \in 1..Cardinality(B) PROVE Picks(c, S)[Cardinality(A) + k] = Picks(b, B)[k]
  <2>1. PICK i \in B : Rank(B, i) = k
    BY <1>5 DEF Ranked
  <2>2. n + i \in S /\ c[n + i] = b[i]
    BY <1>1, <1>2, <1>3
  <2> QED BY <1>5, <1>6, <1>10, <2>1, <2>2 DEF Ranked
<1> DEFINE p == Picks(a, A)
           q == Picks(b, B)
           r == Picks(c, S)
<1>14. Follows(p, q, r)
  BY <1>8, <1>11, <1>12, <1>13 DEF Follows
<1> HIDE DEF p, q, r
<1>15. r = p \o q
  BY <1>14, JoinIs
<1> QED BY <1>15 DEF p, q, r, c, A, B

LEMMA JoinAssoc ==
  ASSUME NEW a, IsSequence(a), NEW b, IsSequence(b), NEW c, IsSequence(c)
  PROVE  (a \o b) \o c = a \o (b \o c)
<1> DEFINE T == ToSet(a) \cup ToSet(b) \cup ToSet(c)
<1>1. \A q, U : IsSequence(q) /\ ToSet(q) \subseteq U => q \in Seq(U)
  <2> TAKE q, U
  <2> HAVE IsSequence(q) /\ ToSet(q) \subseteq U
  <2>1. Len(q) \in Nat /\ q \in Seq(ToSet(q)) /\ \A i \in 1..Len(q) : q[i] \in U
    BY SequenceHas
  <2>2. q = [i \in 1..Len(q) |-> q[i]]
    BY <2>1
  <2> QED BY <2>1, <2>2
<1>2. a \in Seq(T) /\ b \in Seq(T) /\ c \in Seq(T)
  BY <1>1
<1> HIDE DEF T
<1> QED BY <1>2, ConcatAssociative

LEMMA JoinNone ==
  ASSUME NEW a, IsSequence(a)
  PROVE  a \o <<>> = a /\ <<>> \o a = a
<1>1. a \in Seq(ToSet(a))
  BY DEF IsSequence
<1> QED BY <1>1, ConcatEmptySeq

LEMMA IsNone ==
  ASSUME NEW a, IsSequence(a)
  PROVE  (a = <<>> <=> Len(a) = 0) /\ (a # <<>> => Len(a) \in Nat \ {0})
<1>1. Len(a) \in Nat /\ a \in Seq(ToSet(a))
  BY SequenceHas
<1> QED BY <1>1, EmptySeq

LEMMA LastJoin ==
  ASSUME NEW a, IsSequence(a), NEW b, IsSequence(b), b # <<>>
  PROVE  a \o b # <<>> /\ Last(a \o b) = Last(b)
<1>1. Len(b) \in Nat \ {0}
  BY IsNone
<1>2. /\ IsSequence(a \o b) /\ Len(a) \in Nat /\ Len(a \o b) = Len(a) + Len(b)
      /\ \A i \in 1..Len(b) : (a \o b)[Len(a) + i] = b[i]
  BY JoinAt
<1>3. (a \o b)[Len(a) + Len(b)] = b[Len(b)]
  BY <1>1, <1>2
<1>4. Len(a \o b) # 0
  BY <1>1, <1>2
<1>5. a \o b # <<>>
  BY <1>2, <1>4, IsNone
<1> QED BY <1>2, <1>3, <1>5 DEF Last

-----------------------------------------------------------------------------
\* What s has that is neither in X nor in s before: Firsts, on a sequence that goes on.
Later(s, X) == Picks(s, {i \in DOMAIN s : s[i] \notin X /\ \A j \in 1..(i - 1) : s[j] # s[i]})

LEMMA FirstsAreLater == \A s : Firsts(s) = Later(s, {})
BY DEF Firsts, Later

LEMMA LaterIs ==
  ASSUME NEW s, IsSequence(s), NEW X
  PROVE  IsSequence(Later(s, X))
<1> DEFINE S == {i \in DOMAIN s : s[i] \notin X /\ \A j \in 1..(i - 1) : s[j] # s[i]}
<1>1. S \in SUBSET DOMAIN s /\ Later(s, X) = Picks(s, S)
  BY DEF Later
<1> HIDE DEF S
<1> QED BY <1>1, PicksAre

LEMMA LaterJoin ==
  ASSUME NEW a, IsSequence(a), NEW b, IsSequence(b), NEW X
  PROVE  Later(a \o b, X) = Later(a, X) \o Later(b, X \cup ToSet(a))
<1> DEFINE c == a \o b
           n == Len(a)
           S == {i \in DOMAIN c : c[i] \notin X /\ \A j \in 1..(i - 1) : c[j] # c[i]}
           A == {i \in DOMAIN a : a[i] \notin X /\ \A j \in 1..(i - 1) : a[j] # a[i]}
           B == {i \in DOMAIN b : b[i] \notin X \cup ToSet(a) /\ \A j \in 1..(i - 1) : b[j] # b[i]}
<1>1. /\ IsSequence(c) /\ n \in Nat /\ Len(b) \in Nat
      /\ DOMAIN a = 1..n /\ DOMAIN b = 1..Len(b) /\ DOMAIN c = 1..(n + Len(b))
      /\ \A i \in 1..n : c[i] = a[i]
      /\ \A i \in 1..Len(b) : c[n + i] = b[i]
  BY JoinAt
<1>2. Later(c, X) = Picks(c, S) /\ Later(a, X) = Picks(a, A) /\ Later(b, X \cup ToSet(a)) = Picks(b, B)
  BY DEF Later
<1> HIDE DEF c
<1>3. A = {i \in DOMAIN a : i \in S}
  <2>1. ASSUME NEW i \in DOMAIN a PROVE i \in A <=> i \in S
    <3>1. i \in DOMAIN c /\ c[i] = a[i] /\ \A j \in 1..(i - 1) : j \in 1..n /\ c[j] = a[j]
      BY <1>1
    <3> QED BY <3>1
  <2> QED BY <2>1
<1>4. B = {i \in DOMAIN b : n + i \in S}
  <2>1. ASSUME NEW i \in DOMAIN b PROVE i \in B <=> n + i \in S
    <3>1. n + i \in DOMAIN c /\ c[n + i] = b[i]
      BY <1>1
    <3>2. ASSUME i \in B, NEW j \in 1..(n + i - 1) PROVE c[j] # c[n + i]
      <4>1. CASE j <= n
        <5>1. j \in 1..n /\ j \in DOMAIN a /\ c[j] = a[j]
          BY <1>1, <4>1
        <5>2. a[j] \in ToSet(a)
          BY <5>1 DEF ToSet
        <5> QED BY <3>1, <3>2, <5>1, <5>2
      <4>2. CASE j > n
        <5>1. j - n \in 1..(i - 1) /\ j - n \in 1..Len(b) /\ n + (j - n) = j
          BY <1>1, <4>2
        <5> QED BY <1>1, <3>1, <3>2, <5>1
      <4> QED BY <1>1, <4>1, <4>2
    <3>3. ASSUME n + i \in S PROVE i \in B
      <4>0. \A j \in 1..(n + i - 1) : c[j] # c[n + i]
        BY <1>1, <3>3
      <4>1. b[i] \notin X
        BY <3>1, <3>3
      <4>2. ASSUME b[i] \in ToSet(a) PROVE FALSE
        <5>1. PICK j \in 1..n : a[j] = b[i]
          BY <1>1, <4>2 DEF ToSet
        <5>2. j \in 1..(n + i - 1) /\ c[j] = c[n + i]
          BY <1>1, <3>1, <5>1
        <5> QED BY <4>0, <5>2
      <4>3. ASSUME NEW j \in 1..(i - 1) PROVE b[j] # b[i]
        <5>1. n + j \in 1..(n + i - 1) /\ c[n + j] = b[j]
          BY <1>1
        <5> QED BY <3>1, <4>0, <5>1
      <4> QED BY <4>1, <4>2, <4>3
    <3>4. ASSUME i \in B PROVE n + i \in S
      <4>1. c[n + i] \notin X
        BY <3>1, <3>4
      <4>2. \A j \in 1..(n + i - 1) : c[j] # c[n + i]
        BY <3>2, <3>4
      <4> QED BY <1>1, <3>1, <4>1, <4>2
    <3> QED BY <3>3, <3>4
  <2> QED BY <2>1
<1>5. S \in SUBSET DOMAIN c
  OBVIOUS
<1> HIDE DEF A, B, S
<1>6. Picks(c, S) = Picks(a, A) \o Picks(b, B)
  <2>1. S \subseteq DOMAIN (a \o b) /\ A = InFirst(a, S) /\ B = InSecond(a, b, S)
    BY <1>3, <1>4, <1>5 DEF c, InFirst, InSecond
  <2>2. Picks(a \o b, S) = Picks(a, InFirst(a, S)) \o Picks(b, InSecond(a, b, S))
    BY <2>1, PicksJoin
  <2> QED BY <2>1, <2>2 DEF c
<1> QED BY <1>2, <1>6 DEF c

LEMMA LaterNone ==
  ASSUME NEW s, IsSequence(s), NEW X, ToSet(s) \subseteq X
  PROVE  Later(s, X) = <<>>
<1>1. {i \in DOMAIN s : s[i] \notin X /\ \A j \in 1..(i - 1) : s[j] # s[i]} = {}
  BY DEF ToSet
<1>2. Later(s, X) = Picks(s, {})
  BY <1>1 DEF Later
<1>3. Cardinality({}) = 0
  BY FS_EmptySet
<1>4. DOMAIN Picks(s, {}) = {}
  BY <1>3 DEF Picks
<1>5. IsSequence(Picks(s, {}))
  BY PicksAre
<1>6. Len(Picks(s, {})) = 0
  BY <1>4, <1>5, SequenceHas
<1> QED BY <1>2, <1>5, <1>6, IsNone

\* Two sequences that differ in repetitions only, wherever they stand.
Alike(p, q) ==
  /\ IsSequence(p) /\ IsSequence(q) /\ ToSet(p) = ToSet(q)
  /\ \A X : Later(p, X) = Later(q, X)

LEMMA AlikeJoin ==
  ASSUME NEW p, NEW q, Alike(p, q), NEW u, NEW v, Alike(u, v)
  PROVE  Alike(p \o u, q \o v)
<1>1. IsSequence(p) /\ IsSequence(q) /\ IsSequence(u) /\ IsSequence(v) /\ ToSet(p) = ToSet(q) /\ ToSet(u) = ToSet(v)
  BY DEF Alike
<1>2. /\ IsSequence(p \o u) /\ ToSet(p \o u) = ToSet(p) \cup ToSet(u)
      /\ IsSequence(q \o v) /\ ToSet(q \o v) = ToSet(q) \cup ToSet(v)
  BY <1>1, JoinHolds
<1>3. ASSUME NEW X PROVE Later(p \o u, X) = Later(q \o v, X)
  <2> DEFINE Y == X \cup ToSet(p)
  <2>1. Later(p \o u, X) = Later(p, X) \o Later(u, Y)
    BY <1>1, LaterJoin
  <2>2. Later(q \o v, X) = Later(q, X) \o Later(v, Y)
    <3>1. Later(q \o v, X) = Later(q, X) \o Later(v, X \cup ToSet(q))
      BY <1>1, LaterJoin
    <3>2. X \cup ToSet(q) = Y
      BY <1>1
    <3> QED BY <3>1, <3>2
  <2>3. Later(p, X) = Later(q, X) /\ Later(u, Y) = Later(v, Y)
    BY DEF Alike
  <2> QED BY <2>1, <2>2, <2>3
<1> QED BY <1>1, <1>2, <1>3 DEF Alike

LEMMA AlikeTwice ==
  ASSUME NEW b, IsSequence(b)
  PROVE  Alike(b, b \o b) /\ Alike(b, b)
<1>1. IsSequence(b \o b) /\ ToSet(b \o b) = ToSet(b)
  BY JoinHolds
<1>2. ASSUME NEW X PROVE Later(b, X) = Later(b \o b, X)
  <2>1. Later(b \o b, X) = Later(b, X) \o Later(b, X \cup ToSet(b))
    BY LaterJoin
  <2>2. Later(b, X \cup ToSet(b)) = <<>>
    BY LaterNone
  <2>3. Later(b, X) \o <<>> = Later(b, X)
    <3>1. IsSequence(Later(b, X))
      BY LaterIs
    <3> QED BY <3>1, JoinNone
  <2> QED BY <2>1, <2>2, <2>3
<1> QED BY <1>1, <1>2 DEF Alike

\* q is p with a part of it said twice over: what a file read twice makes of what is read.
Twice(p, q) ==
  \E a, b, c : /\ IsSequence(a) /\ IsSequence(b) /\ IsSequence(c)
               /\ p = (a \o b) \o c /\ q = (a \o (b \o b)) \o c

LEMMA TwiceAlike ==
  ASSUME NEW p, NEW q, Twice(p, q)
  PROVE  Alike(p, q) /\ Firsts(p) = Firsts(q)
<1>1. PICK a, b, c : /\ IsSequence(a) /\ IsSequence(b) /\ IsSequence(c)
                     /\ p = (a \o b) \o c /\ q = (a \o (b \o b)) \o c
  BY DEF Twice
<1>2. Alike(a, a) /\ Alike(b, b \o b) /\ Alike(c, c)
  BY <1>1, AlikeTwice
<1>3. Alike(a \o b, a \o (b \o b))
  BY <1>2, AlikeJoin
<1>4. Alike(p, q)
  BY <1>1, <1>2, <1>3, AlikeJoin
<1> QED BY <1>4, FirstsAreLater DEF Alike

LEMMA TwiceLast ==
  ASSUME NEW p, NEW q, Twice(p, q), NEW d
  PROVE  LastOr(p, d) = LastOr(q, d) /\ (p = <<>> <=> q = <<>>)
<1>1. PICK a, b, c : /\ IsSequence(a) /\ IsSequence(b) /\ IsSequence(c)
                     /\ p = (a \o b) \o c /\ q = (a \o (b \o b)) \o c
  BY DEF Twice
<1>2. IsSequence(b \o b) /\ IsSequence(a \o b) /\ IsSequence(a \o (b \o b))
  <2>1. IsSequence(b \o b)
    BY <1>1, JoinHolds
  <2> QED BY <1>1, <2>1, JoinHolds
<1>3. CASE c # <<>>
  BY <1>1, <1>2, <1>3, LastJoin DEF LastOr
<1>4. CASE c = <<>> /\ b # <<>>
  <2>1. p = a \o b /\ q = a \o (b \o b)
    BY <1>1, <1>2, <1>4, JoinNone
  <2>2. b \o b # <<>> /\ Last(b \o b) = Last(b)
    BY <1>1, <1>4, LastJoin
  <2>3. p # <<>> /\ Last(p) = Last(b) /\ q # <<>> /\ Last(q) = Last(b)
    BY <1>1, <1>2, <1>4, <2>1, <2>2, LastJoin
  <2> QED BY <2>3 DEF LastOr
<1>5. CASE c = <<>> /\ b = <<>>
  <2>1. p = a /\ b \o b = <<>>
    BY <1>1, <1>5, NoneHeld, JoinNone
  <2> QED BY <1>1, <1>5, <2>1, JoinNone
<1> QED BY <1>3, <1>4, <1>5

-----------------------------------------------------------------------------
(* What is made of a sequence of entries, joined or with a part twice.     *)

LEMMA FunctionIs ==
  ASSUME NEW n \in Nat, NEW f, f = [i \in 1..n |-> f[i]]
  PROVE  IsSequence(f) /\ Len(f) = n
<1> DEFINE T == ToSet(f)
<1>1. DOMAIN f = 1..n
  <2>1. DOMAIN [i \in 1..n |-> f[i]] = 1..n
    OBVIOUS
  <2> QED BY <2>1
<1>2. \A i \in 1..n : f[i] \in T
  BY <1>1 DEF ToSet
<1> HIDE DEF T
<1>3. f \in Seq(T)
  BY <1>2
<1>4. Len(f) = n
  BY <1>1, <1>3
<1> QED BY <1>3, <1>4, SequenceOf

LEMMA ValsJoin ==
  ASSUME NEW a, IsSequence(a), NEW b, IsSequence(b)
  PROVE  Vals(a \o b) = Vals(a) \o Vals(b)
<1>1. /\ IsSequence(a \o b) /\ Len(a) \in Nat /\ Len(b) \in Nat /\ Len(a \o b) = Len(a) + Len(b)
      /\ DOMAIN a = 1..Len(a) /\ DOMAIN b = 1..Len(b) /\ DOMAIN (a \o b) = 1..(Len(a) + Len(b))
      /\ \A i \in 1..Len(a) : (a \o b)[i] = a[i]
      /\ \A i \in 1..Len(b) : (a \o b)[Len(a) + i] = b[i]
  BY JoinAt
<1> DEFINE c == a \o b
           f == Vals(a)
           g == Vals(b)
           h == Vals(c)
<1>2. /\ \A i \in 1..Len(a) : f[i] = a[i].val
      /\ \A i \in 1..Len(b) : g[i] = b[i].val
      /\ \A i \in 1..(Len(a) + Len(b)) : h[i] = c[i].val
  BY <1>1 DEF Vals
<1>3. /\ f = [i \in 1..Len(a) |-> f[i]] /\ g = [i \in 1..Len(b) |-> g[i]]
      /\ h = [i \in 1..(Len(a) + Len(b)) |-> h[i]]
  BY <1>1 DEF Vals
<1> HIDE DEF f, g, h
<1>4. /\ IsSequence(f) /\ IsSequence(g) /\ IsSequence(h)
      /\ Len(f) = Len(a) /\ Len(g) = Len(b) /\ Len(h) = Len(a) + Len(b)
  <2>1. Len(a) + Len(b) \in Nat
    BY <1>1
  <2>2. IsSequence(f) /\ Len(f) = Len(a)
    BY <1>1, <1>3, FunctionIs
  <2>3. IsSequence(g) /\ Len(g) = Len(b)
    BY <1>1, <1>3, FunctionIs
  <2>4. IsSequence(h) /\ Len(h) = Len(a) + Len(b)
    BY <1>3, <2>1, FunctionIs
  <2> QED BY <2>2, <2>3, <2>4
<1>5. \A i \in 1..Len(a) : h[i] = f[i]
  BY <1>1, <1>2
<1>6. \A i \in 1..Len(b) : h[Len(a) + i] = g[i]
  BY <1>1, <1>2
<1>7. Follows(f, g, h)
  BY <1>4, <1>5, <1>6 DEF Follows
<1>8. h = f \o g
  BY <1>7, JoinIs
<1> QED BY <1>8 DEF f, g, h, c

PlainAt(entries, key) == {i \in DOMAIN entries : entries[i].key = key /\ entries[i].sub = <<>>}
ScopedAt(entries, key) == {i \in DOMAIN entries : entries[i].key = key /\ entries[i].sub # <<>>}

LEMMA PlainJoin ==
  ASSUME NEW key, NEW a, IsSequence(a), NEW b, IsSequence(b)
  PROVE  /\ Plain(a \o b, key) = Plain(a, key) \o Plain(b, key)
         /\ Scoped(a \o b, key) = Scoped(a, key) \o Scoped(b, key)
<1> DEFINE c == a \o b
<1>1. /\ IsSequence(c) /\ Len(a) \in Nat /\ Len(b) \in Nat
      /\ DOMAIN a = 1..Len(a) /\ DOMAIN b = 1..Len(b) /\ DOMAIN c = 1..(Len(a) + Len(b))
      /\ \A i \in 1..Len(a) : c[i] = a[i]
      /\ \A i \in 1..Len(b) : c[Len(a) + i] = b[i]
  BY JoinAt
<1>p. /\ \A i \in 1..Len(a) : i \in DOMAIN c
      /\ \A i \in 1..Len(b) : Len(a) + i \in DOMAIN c
  BY <1>1
<1> HIDE DEF c
<1>2. ASSUME NEW S, S \subseteq DOMAIN c
      PROVE  Vals(Picks(c, S)) = Vals(Picks(a, InFirst(a, S))) \o Vals(Picks(b, InSecond(a, b, S)))
  <2> DEFINE P == InFirst(a, S)
             Q == InSecond(a, b, S)
  <2>1. P \in SUBSET DOMAIN a /\ Q \in SUBSET DOMAIN b
    BY DEF InFirst, InSecond
  <2> HIDE DEF P, Q
  <2>2. IsSequence(Picks(a, P)) /\ IsSequence(Picks(b, Q))
    BY <2>1, PicksAre
  <2>3. Picks(c, S) = Picks(a, P) \o Picks(b, Q)
    BY <1>2, PicksJoin DEF c, P, Q
  <2>4. Vals(Picks(a, P) \o Picks(b, Q)) = Vals(Picks(a, P)) \o Vals(Picks(b, Q))
    BY <2>2, ValsJoin
  <2> QED BY <2>3, <2>4 DEF P, Q
<1>3. PlainAt(c, key) \subseteq DOMAIN c /\ ScopedAt(c, key) \subseteq DOMAIN c
  BY DEF PlainAt, ScopedAt
<1>4. PlainAt(a, key) = InFirst(a, PlainAt(c, key))
  BY <1>1, <1>p DEF PlainAt, InFirst
<1>5. PlainAt(b, key) = InSecond(a, b, PlainAt(c, key))
  BY <1>1, <1>p DEF PlainAt, InSecond
<1>6. ScopedAt(a, key) = InFirst(a, ScopedAt(c, key))
  BY <1>1, <1>p DEF ScopedAt, InFirst
<1>7. ScopedAt(b, key) = InSecond(a, b, ScopedAt(c, key))
  BY <1>1, <1>p DEF ScopedAt, InSecond
<1>8. \A q : Plain(q, key) = Vals(Picks(q, PlainAt(q, key))) /\ Scoped(q, key) = Vals(Picks(q, ScopedAt(q, key)))
  BY DEF Plain, Scoped, PlainAt, ScopedAt
<1>9. Plain(c, key) = Plain(a, key) \o Plain(b, key)
  <2>1. Vals(Picks(c, PlainAt(c, key))) = Vals(Picks(a, PlainAt(a, key))) \o Vals(Picks(b, PlainAt(b, key)))
    BY <1>2, <1>3, <1>4, <1>5
  <2> QED BY <1>8, <2>1
<1>10. Scoped(c, key) = Scoped(a, key) \o Scoped(b, key)
  <2>1. Vals(Picks(c, ScopedAt(c, key))) = Vals(Picks(a, ScopedAt(a, key))) \o Vals(Picks(b, ScopedAt(b, key)))
    BY <1>2, <1>3, <1>6, <1>7
  <2> QED BY <1>8, <2>1
<1> QED BY <1>9, <1>10 DEF c

LEMMA NonEmptyJoin ==
  ASSUME NEW a, IsSequence(a), NEW b, IsSequence(b)
  PROVE  NonEmpty(a \o b) = NonEmpty(a) \o NonEmpty(b)
<1> DEFINE c == a \o b
           At(q) == {i \in DOMAIN q : q[i] # ""}
<1>1. /\ IsSequence(c) /\ Len(a) \in Nat /\ Len(b) \in Nat
      /\ DOMAIN a = 1..Len(a) /\ DOMAIN b = 1..Len(b) /\ DOMAIN c = 1..(Len(a) + Len(b))
      /\ \A i \in 1..Len(a) : c[i] = a[i]
      /\ \A i \in 1..Len(b) : c[Len(a) + i] = b[i]
  BY JoinAt
<1>p. /\ \A i \in 1..Len(a) : i \in DOMAIN c
      /\ \A i \in 1..Len(b) : Len(a) + i \in DOMAIN c
  BY <1>1
<1>2. NonEmpty(a) = Picks(a, At(a)) /\ NonEmpty(b) = Picks(b, At(b)) /\ NonEmpty(c) = Picks(c, At(c))
  BY DEF NonEmpty
<1> HIDE DEF c
<1>3. At(c) \subseteq DOMAIN c
  OBVIOUS
<1>4. At(a) = InFirst(a, At(c))
  BY <1>1, <1>p DEF InFirst
<1>5. At(b) = InSecond(a, b, At(c))
  BY <1>1, <1>p DEF InSecond
<1> HIDE DEF At
<1>6. Picks(a \o b, At(c)) = Picks(a, InFirst(a, At(c))) \o Picks(b, InSecond(a, b, At(c)))
  BY <1>3, PicksJoin DEF c
<1> QED BY <1>2, <1>4, <1>5, <1>6 DEF c

Normal(given) == [i \in DOMAIN given |-> normalize_exclude(given[i])]
Trimmed(given) == Picks(Normal(given), {i \in DOMAIN Normal(given) : Normal(given)[i] # <<>>})

LEMMA NormalJoin ==
  ASSUME NEW a, IsSequence(a), NEW b, IsSequence(b)
  PROVE  Normal(a \o b) = Normal(a) \o Normal(b) /\ IsSequence(Normal(a))
<1> DEFINE c == a \o b
           f == Normal(a)
           g == Normal(b)
           h == Normal(c)
<1>1. /\ IsSequence(c) /\ Len(a) \in Nat /\ Len(b) \in Nat /\ Len(c) = Len(a) + Len(b)
      /\ DOMAIN a = 1..Len(a) /\ DOMAIN b = 1..Len(b) /\ DOMAIN c = 1..(Len(a) + Len(b))
      /\ \A i \in 1..Len(a) : c[i] = a[i]
      /\ \A i \in 1..Len(b) : c[Len(a) + i] = b[i]
  BY JoinAt
<1> HIDE DEF c
<1>2. /\ \A i \in 1..Len(a) : f[i] = normalize_exclude(a[i])
      /\ \A i \in 1..Len(b) : g[i] = normalize_exclude(b[i])
      /\ \A i \in 1..(Len(a) + Len(b)) : h[i] = normalize_exclude(c[i])
  BY <1>1 DEF Normal
<1>3. /\ f = [i \in 1..Len(a) |-> f[i]] /\ g = [i \in 1..Len(b) |-> g[i]]
      /\ h = [i \in 1..(Len(a) + Len(b)) |-> h[i]]
  BY <1>1 DEF Normal
<1> HIDE DEF f, g, h
<1>4. /\ IsSequence(f) /\ IsSequence(g) /\ IsSequence(h)
      /\ Len(f) = Len(a) /\ Len(g) = Len(b) /\ Len(h) = Len(a) + Len(b)
  <2>1. Len(a) + Len(b) \in Nat
    BY <1>1
  <2>2. IsSequence(f) /\ Len(f) = Len(a)
    BY <1>1, <1>3, FunctionIs
  <2>3. IsSequence(g) /\ Len(g) = Len(b)
    BY <1>1, <1>3, FunctionIs
  <2>4. IsSequence(h) /\ Len(h) = Len(a) + Len(b)
    BY <1>3, <2>1, FunctionIs
  <2> QED BY <2>2, <2>3, <2>4
<1>5. \A i \in 1..Len(a) : h[i] = f[i]
  BY <1>1, <1>2
<1>6. \A i \in 1..Len(b) : h[Len(a) + i] = g[i]
  BY <1>1, <1>2
<1>7. Follows(f, g, h)
  BY <1>4, <1>5, <1>6 DEF Follows
<1>8. h = f \o g
  BY <1>7, JoinIs
<1> QED BY <1>4, <1>8 DEF f, g, h, c

LEMMA TrimmedJoin ==
  ASSUME NEW a, IsSequence(a), NEW b, IsSequence(b)
  PROVE  Trimmed(a \o b) = Trimmed(a) \o Trimmed(b) /\ IsSequence(Trimmed(a))
<1> DEFINE f == Normal(a)
           g == Normal(b)
           h == f \o g
           At(q) == {i \in DOMAIN q : q[i] # <<>>}
<1>1. Normal(a \o b) = h /\ IsSequence(f) /\ IsSequence(g)
  BY NormalJoin
<1> HIDE DEF f, g
<1>2. /\ IsSequence(h) /\ Len(f) \in Nat /\ Len(g) \in Nat
      /\ DOMAIN f = 1..Len(f) /\ DOMAIN g = 1..Len(g) /\ DOMAIN h = 1..(Len(f) + Len(g))
      /\ \A i \in 1..Len(f) : h[i] = f[i]
      /\ \A i \in 1..Len(g) : h[Len(f) + i] = g[i]
  BY <1>1, JoinAt
<1>p. /\ \A i \in 1..Len(f) : i \in DOMAIN h
      /\ \A i \in 1..Len(g) : Len(f) + i \in DOMAIN h
  BY <1>2
<1>3. Trimmed(a) = Picks(f, At(f)) /\ Trimmed(b) = Picks(g, At(g)) /\ Trimmed(a \o b) = Picks(h, At(h))
  BY <1>1 DEF Trimmed, f, g
<1> HIDE DEF h
<1>4. At(h) \subseteq DOMAIN h /\ At(f) \in SUBSET DOMAIN f
  OBVIOUS
<1>5. At(f) = InFirst(f, At(h))
  BY <1>2, <1>p DEF InFirst
<1>6. At(g) = InSecond(f, g, At(h))
  BY <1>2, <1>p DEF InSecond
<1> HIDE DEF At
<1>7. Picks(f \o g, At(h)) = Picks(f, InFirst(f, At(h))) \o Picks(g, InSecond(f, g, At(h)))
  BY <1>1, <1>4, PicksJoin DEF h
<1>8. IsSequence(Picks(f, At(f)))
  BY <1>1, <1>4, PicksAre
<1> QED BY <1>3, <1>5, <1>6, <1>7, <1>8 DEF h

Reals(roots) == [i \in DOMAIN roots |-> Physical[Cleaned[roots[i]]]]

LEMMA RealsJoin ==
  ASSUME NEW a, IsSequence(a), NEW b, IsSequence(b)
  PROVE  Reals(a \o b) = Reals(a) \o Reals(b) /\ IsSequence(Reals(a))
<1> DEFINE c == a \o b
           f == Reals(a)
           g == Reals(b)
           h == Reals(c)
<1>1. /\ IsSequence(c) /\ Len(a) \in Nat /\ Len(b) \in Nat /\ Len(c) = Len(a) + Len(b)
      /\ DOMAIN a = 1..Len(a) /\ DOMAIN b = 1..Len(b) /\ DOMAIN c = 1..(Len(a) + Len(b))
      /\ \A i \in 1..Len(a) : c[i] = a[i]
      /\ \A i \in 1..Len(b) : c[Len(a) + i] = b[i]
  BY JoinAt
<1> HIDE DEF c
<1>2. /\ \A i \in 1..Len(a) : f[i] = Real(a[i])
      /\ \A i \in 1..Len(b) : g[i] = Real(b[i])
      /\ \A i \in 1..(Len(a) + Len(b)) : h[i] = Real(c[i])
  BY <1>1 DEF Reals, Real
<1>3. /\ f = [i \in 1..Len(a) |-> f[i]] /\ g = [i \in 1..Len(b) |-> g[i]]
      /\ h = [i \in 1..(Len(a) + Len(b)) |-> h[i]]
  BY <1>1 DEF Reals
<1> HIDE DEF f, g, h
<1>4. /\ IsSequence(f) /\ IsSequence(g) /\ IsSequence(h)
      /\ Len(f) = Len(a) /\ Len(g) = Len(b) /\ Len(h) = Len(a) + Len(b)
  <2>1. Len(a) + Len(b) \in Nat
    BY <1>1
  <2>2. IsSequence(f) /\ Len(f) = Len(a)
    BY <1>1, <1>3, FunctionIs
  <2>3. IsSequence(g) /\ Len(g) = Len(b)
    BY <1>1, <1>3, FunctionIs
  <2>4. IsSequence(h) /\ Len(h) = Len(a) + Len(b)
    BY <1>3, <2>1, FunctionIs
  <2> QED BY <2>2, <2>3, <2>4
<1>5. \A i \in 1..Len(a) : h[i] = f[i]
  BY <1>1, <1>2
<1>6. \A i \in 1..Len(b) : h[Len(a) + i] = g[i]
  BY <1>1, <1>2
<1>7. Follows(f, g, h)
  BY <1>4, <1>5, <1>6 DEF Follows
<1>8. h = f \o g
  BY <1>7, JoinIs
<1> QED BY <1>4, <1>8 DEF f, g, h, c

LEMMA ReverseJoin ==
  ASSUME NEW a, IsSequence(a), NEW b, IsSequence(b)
  PROVE  Reverse(a \o b) = Reverse(b) \o Reverse(a)
<1> DEFINE c == a \o b
           n == Len(a)
           m == Len(b)
           f == Reverse(b)
           g == Reverse(a)
           h == Reverse(c)
<1>1. /\ IsSequence(c) /\ n \in Nat /\ m \in Nat /\ Len(c) = n + m
      /\ \A i \in 1..n : c[i] = a[i]
      /\ \A i \in 1..m : c[n + i] = b[i]
  BY JoinAt
<1> HIDE DEF c
<1>2. /\ f = [i \in 1..m |-> b[(m - i) + 1]] /\ g = [i \in 1..n |-> a[(n - i) + 1]]
      /\ h = [i \in 1..(n + m) |-> c[((n + m) - i) + 1]]
  BY <1>1 DEF Reverse
<1> HIDE DEF f, g, h, n, m
<1>3. /\ \A i \in 1..m : f[i] = b[(m - i) + 1]
      /\ \A i \in 1..n : g[i] = a[(n - i) + 1]
      /\ \A i \in 1..(n + m) : h[i] = c[((n + m) - i) + 1]
  BY <1>2
<1>4. /\ f = [i \in 1..m |-> f[i]] /\ g = [i \in 1..n |-> g[i]] /\ h = [i \in 1..(n + m) |-> h[i]]
  BY <1>2
<1>5. /\ IsSequence(f) /\ IsSequence(g) /\ IsSequence(h) /\ Len(f) = m /\ Len(g) = n /\ Len(h) = n + m
  BY <1>1, <1>4, FunctionIs
<1>6. ASSUME NEW i \in 1..m PROVE h[i] = f[i]
  <2>1. i \in 1..(n + m) /\ (m - i) + 1 \in 1..m /\ ((n + m) - i) + 1 = n + ((m - i) + 1)
    BY <1>1
  <2>2. h[i] = c[n + ((m - i) + 1)]
    BY <1>3, <2>1
  <2>3. c[n + ((m - i) + 1)] = b[(m - i) + 1]
    BY <1>1, <2>1
  <2> QED BY <1>3, <2>2, <2>3
<1>7. ASSUME NEW i \in 1..n PROVE h[m + i] = g[i]
  <2>1. m + i \in 1..(n + m) /\ (n - i) + 1 \in 1..n /\ ((n + m) - (m + i)) + 1 = (n - i) + 1
    BY <1>1
  <2>2. h[m + i] = c[(n - i) + 1]
    BY <1>3, <2>1
  <2> QED BY <1>1, <1>3, <2>1, <2>2
<1>8. Follows(f, g, h)
  BY <1>1, <1>5, <1>6, <1>7 DEF Follows
<1>9. h = f \o g
  BY <1>8, JoinIs
<1> QED BY <1>9 DEF f, g, h, c

\* p and q are made of a, b and c, the middle one being said twice in q.
Parts(p, q, a, b, c) ==
  /\ IsSequence(a) /\ IsSequence(b) /\ IsSequence(c)
  /\ p = (a \o b) \o c /\ q = (a \o (b \o b)) \o c

LEMMA PartsAre ==
  ASSUME NEW p, NEW q, NEW a, NEW b, NEW c, Parts(p, q, a, b, c)
  PROVE  /\ IsSequence(a) /\ IsSequence(b) /\ IsSequence(c)
         /\ IsSequence(a \o b) /\ IsSequence(b \o b) /\ IsSequence(a \o (b \o b))
         /\ IsSequence(p) /\ IsSequence(q) /\ Twice(p, q)
<1>1. /\ IsSequence(a) /\ IsSequence(b) /\ IsSequence(c)
      /\ p = (a \o b) \o c /\ q = (a \o (b \o b)) \o c
  BY DEF Parts
<1>2. IsSequence(a \o b) /\ IsSequence(b \o b)
  BY <1>1, JoinHolds
<1>3. IsSequence(a \o (b \o b))
  BY <1>1, <1>2, JoinHolds
<1>4. IsSequence(p) /\ IsSequence(q)
  BY <1>1, <1>2, <1>3, JoinHolds
<1>5. Twice(p, q)
  BY <1>1 DEF Twice
<1> QED BY <1>1, <1>2, <1>3, <1>4, <1>5

LEMMA TwiceParts ==
  ASSUME NEW p, NEW q, Twice(p, q)
  PROVE  \E a, b, c : Parts(p, q, a, b, c)
BY DEF Twice, Parts

LEMMA TwiceSame ==
  ASSUME NEW p, IsSequence(p)
  PROVE  Twice(p, p)
<1>1. IsSequence(<<>>) /\ p \o <<>> = p /\ <<>> \o <<>> = <<>>
  BY NoneHeld, JoinNone
<1>2. Parts(p, p, p, <<>>, <<>>)
  BY <1>1 DEF Parts
<1> QED BY <1>2, PartsAre

LEMMA TwiceIs ==
  ASSUME NEW p, NEW q, Twice(p, q)
  PROVE  IsSequence(p) /\ IsSequence(q) /\ ToSet(p) = ToSet(q)
BY TwiceAlike DEF Alike

LEMMA TwicePlain ==
  ASSUME NEW p, NEW q, Twice(p, q), NEW key
  PROVE  Twice(Plain(p, key), Plain(q, key))
<1>1. PICK a, b, c : Parts(p, q, a, b, c)
  BY TwiceParts
<1>2. /\ IsSequence(a) /\ IsSequence(b) /\ IsSequence(c)
      /\ IsSequence(a \o b) /\ IsSequence(b \o b) /\ IsSequence(a \o (b \o b))
  BY <1>1, PartsAre
<1>p. p = (a \o b) \o c /\ q = (a \o (b \o b)) \o c
  BY <1>1 DEF Parts
<1>3. Plain(p, key) = (Plain(a, key) \o Plain(b, key)) \o Plain(c, key)
  <2>1. Plain((a \o b) \o c, key) = Plain(a \o b, key) \o Plain(c, key)
    BY <1>2, PlainJoin
  <2>2. Plain(a \o b, key) = Plain(a, key) \o Plain(b, key)
    BY <1>2, PlainJoin
  <2> QED BY <1>p, <2>1, <2>2
<1>4. Plain(q, key) = (Plain(a, key) \o (Plain(b, key) \o Plain(b, key))) \o Plain(c, key)
  <2>1. Plain((a \o (b \o b)) \o c, key) = Plain(a \o (b \o b), key) \o Plain(c, key)
    BY <1>2, PlainJoin
  <2>2. Plain(a \o (b \o b), key) = Plain(a, key) \o Plain(b \o b, key)
    BY <1>2, PlainJoin
  <2>3. Plain(b \o b, key) = Plain(b, key) \o Plain(b, key)
    BY <1>2, PlainJoin
  <2> QED BY <1>p, <2>1, <2>2, <2>3
<1>5. IsSequence(Plain(a, key)) /\ IsSequence(Plain(b, key)) /\ IsSequence(Plain(c, key))
  BY <1>2, PlainHolds
<1>6. Parts(Plain(p, key), Plain(q, key), Plain(a, key), Plain(b, key), Plain(c, key))
  BY <1>3, <1>4, <1>5 DEF Parts
<1> QED BY <1>6, PartsAre

LEMMA TwiceScoped ==
  ASSUME NEW p, NEW q, Twice(p, q), NEW key
  PROVE  Twice(Scoped(p, key), Scoped(q, key))
<1>1. PICK a, b, c : Parts(p, q, a, b, c)
  BY TwiceParts
<1>2. /\ IsSequence(a) /\ IsSequence(b) /\ IsSequence(c)
      /\ IsSequence(a \o b) /\ IsSequence(b \o b) /\ IsSequence(a \o (b \o b))
  BY <1>1, PartsAre
<1>p. p = (a \o b) \o c /\ q = (a \o (b \o b)) \o c
  BY <1>1 DEF Parts
<1>3. Scoped(p, key) = (Scoped(a, key) \o Scoped(b, key)) \o Scoped(c, key)
  <2>1. Scoped((a \o b) \o c, key) = Scoped(a \o b, key) \o Scoped(c, key)
    BY <1>2, PlainJoin
  <2>2. Scoped(a \o b, key) = Scoped(a, key) \o Scoped(b, key)
    BY <1>2, PlainJoin
  <2> QED BY <1>p, <2>1, <2>2
<1>4. Scoped(q, key) = (Scoped(a, key) \o (Scoped(b, key) \o Scoped(b, key))) \o Scoped(c, key)
  <2>1. Scoped((a \o (b \o b)) \o c, key) = Scoped(a \o (b \o b), key) \o Scoped(c, key)
    BY <1>2, PlainJoin
  <2>2. Scoped(a \o (b \o b), key) = Scoped(a, key) \o Scoped(b \o b, key)
    BY <1>2, PlainJoin
  <2>3. Scoped(b \o b, key) = Scoped(b, key) \o Scoped(b, key)
    BY <1>2, PlainJoin
  <2> QED BY <1>p, <2>1, <2>2, <2>3
<1>5. IsSequence(Scoped(a, key)) /\ IsSequence(Scoped(b, key)) /\ IsSequence(Scoped(c, key))
  BY <1>2, PlainHolds
<1>6. Parts(Scoped(p, key), Scoped(q, key), Scoped(a, key), Scoped(b, key), Scoped(c, key))
  BY <1>3, <1>4, <1>5 DEF Parts
<1> QED BY <1>6, PartsAre

LEMMA TwiceNonEmpty ==
  ASSUME NEW p, NEW q, Twice(p, q)
  PROVE  Twice(NonEmpty(p), NonEmpty(q))
<1>1. PICK a, b, c : Parts(p, q, a, b, c)
  BY TwiceParts
<1>2. /\ IsSequence(a) /\ IsSequence(b) /\ IsSequence(c)
      /\ IsSequence(a \o b) /\ IsSequence(b \o b) /\ IsSequence(a \o (b \o b))
  BY <1>1, PartsAre
<1>p. p = (a \o b) \o c /\ q = (a \o (b \o b)) \o c
  BY <1>1 DEF Parts
<1>3. NonEmpty(p) = (NonEmpty(a) \o NonEmpty(b)) \o NonEmpty(c)
  <2>1. NonEmpty((a \o b) \o c) = NonEmpty(a \o b) \o NonEmpty(c)
    BY <1>2, NonEmptyJoin
  <2>2. NonEmpty(a \o b) = NonEmpty(a) \o NonEmpty(b)
    BY <1>2, NonEmptyJoin
  <2> QED BY <1>p, <2>1, <2>2
<1>4. NonEmpty(q) = (NonEmpty(a) \o (NonEmpty(b) \o NonEmpty(b))) \o NonEmpty(c)
  <2>1. NonEmpty((a \o (b \o b)) \o c) = NonEmpty(a \o (b \o b)) \o NonEmpty(c)
    BY <1>2, NonEmptyJoin
  <2>2. NonEmpty(a \o (b \o b)) = NonEmpty(a) \o NonEmpty(b \o b)
    BY <1>2, NonEmptyJoin
  <2>3. NonEmpty(b \o b) = NonEmpty(b) \o NonEmpty(b)
    BY <1>2, NonEmptyJoin
  <2> QED BY <1>p, <2>1, <2>2, <2>3
<1>5. IsSequence(NonEmpty(a)) /\ IsSequence(NonEmpty(b)) /\ IsSequence(NonEmpty(c))
  BY <1>2, NonEmptyHolds
<1>6. Parts(NonEmpty(p), NonEmpty(q), NonEmpty(a), NonEmpty(b), NonEmpty(c))
  BY <1>3, <1>4, <1>5 DEF Parts
<1> QED BY <1>6, PartsAre

LEMMA TwiceTrimmed ==
  ASSUME NEW p, NEW q, Twice(p, q)
  PROVE  Twice(Trimmed(p), Trimmed(q))
<1>1. PICK a, b, c : Parts(p, q, a, b, c)
  BY TwiceParts
<1>2. /\ IsSequence(a) /\ IsSequence(b) /\ IsSequence(c)
      /\ IsSequence(a \o b) /\ IsSequence(b \o b) /\ IsSequence(a \o (b \o b))
  BY <1>1, PartsAre
<1>p. p = (a \o b) \o c /\ q = (a \o (b \o b)) \o c
  BY <1>1 DEF Parts
<1>3. Trimmed(p) = (Trimmed(a) \o Trimmed(b)) \o Trimmed(c)
  <2>1. Trimmed((a \o b) \o c) = Trimmed(a \o b) \o Trimmed(c)
    BY <1>2, TrimmedJoin
  <2>2. Trimmed(a \o b) = Trimmed(a) \o Trimmed(b)
    BY <1>2, TrimmedJoin
  <2> QED BY <1>p, <2>1, <2>2
<1>4. Trimmed(q) = (Trimmed(a) \o (Trimmed(b) \o Trimmed(b))) \o Trimmed(c)
  <2>1. Trimmed((a \o (b \o b)) \o c) = Trimmed(a \o (b \o b)) \o Trimmed(c)
    BY <1>2, TrimmedJoin
  <2>2. Trimmed(a \o (b \o b)) = Trimmed(a) \o Trimmed(b \o b)
    BY <1>2, TrimmedJoin
  <2>3. Trimmed(b \o b) = Trimmed(b) \o Trimmed(b)
    BY <1>2, TrimmedJoin
  <2> QED BY <1>p, <2>1, <2>2, <2>3
<1>5. IsSequence(Trimmed(a)) /\ IsSequence(Trimmed(b)) /\ IsSequence(Trimmed(c))
  BY <1>2, TrimmedJoin
<1>6. Parts(Trimmed(p), Trimmed(q), Trimmed(a), Trimmed(b), Trimmed(c))
  BY <1>3, <1>4, <1>5 DEF Parts
<1> QED BY <1>6, PartsAre

LEMMA TwiceReals ==
  ASSUME NEW p, NEW q, Twice(p, q)
  PROVE  Twice(Reals(p), Reals(q))
<1>1. PICK a, b, c : Parts(p, q, a, b, c)
  BY TwiceParts
<1>2. /\ IsSequence(a) /\ IsSequence(b) /\ IsSequence(c)
      /\ IsSequence(a \o b) /\ IsSequence(b \o b) /\ IsSequence(a \o (b \o b))
  BY <1>1, PartsAre
<1>p. p = (a \o b) \o c /\ q = (a \o (b \o b)) \o c
  BY <1>1 DEF Parts
<1>3. Reals(p) = (Reals(a) \o Reals(b)) \o Reals(c)
  <2>1. Reals((a \o b) \o c) = Reals(a \o b) \o Reals(c)
    BY <1>2, RealsJoin
  <2>2. Reals(a \o b) = Reals(a) \o Reals(b)
    BY <1>2, RealsJoin
  <2> QED BY <1>p, <2>1, <2>2
<1>4. Reals(q) = (Reals(a) \o (Reals(b) \o Reals(b))) \o Reals(c)
  <2>1. Reals((a \o (b \o b)) \o c) = Reals(a \o (b \o b)) \o Reals(c)
    BY <1>2, RealsJoin
  <2>2. Reals(a \o (b \o b)) = Reals(a) \o Reals(b \o b)
    BY <1>2, RealsJoin
  <2>3. Reals(b \o b) = Reals(b) \o Reals(b)
    BY <1>2, RealsJoin
  <2> QED BY <1>p, <2>1, <2>2, <2>3
<1>5. IsSequence(Reals(a)) /\ IsSequence(Reals(b)) /\ IsSequence(Reals(c))
  BY <1>2, RealsJoin
<1>6. Parts(Reals(p), Reals(q), Reals(a), Reals(b), Reals(c))
  BY <1>3, <1>4, <1>5 DEF Parts
<1> QED BY <1>6, PartsAre

LEMMA TwiceReverse ==
  ASSUME NEW p, NEW q, Twice(p, q)
  PROVE  Twice(Reverse(p), Reverse(q))
<1>1. PICK a, b, c : Parts(p, q, a, b, c)
  BY TwiceParts
<1>2. /\ IsSequence(a) /\ IsSequence(b) /\ IsSequence(c)
      /\ IsSequence(a \o b) /\ IsSequence(b \o b) /\ IsSequence(a \o (b \o b))
  BY <1>1, PartsAre
<1>p. p = (a \o b) \o c /\ q = (a \o (b \o b)) \o c
  BY <1>1 DEF Parts
<1> DEFINE x == Reverse(a)
           y == Reverse(b)
           z == Reverse(c)
<1>3. IsSequence(x) /\ IsSequence(y) /\ IsSequence(z)
  BY <1>2, ReverseHolds
<1>4. Reverse(p) = z \o (y \o x)
  <2>1. Reverse((a \o b) \o c) = z \o Reverse(a \o b)
    BY <1>2, ReverseJoin
  <2>2. Reverse(a \o b) = y \o x
    BY <1>2, ReverseJoin
  <2> QED BY <1>p, <2>1, <2>2
<1>5. Reverse(q) = z \o ((y \o y) \o x)
  <2>1. Reverse((a \o (b \o b)) \o c) = z \o Reverse(a \o (b \o b))
    BY <1>2, ReverseJoin
  <2>2. Reverse(a \o (b \o b)) = Reverse(b \o b) \o x
    BY <1>2, ReverseJoin
  <2>3. Reverse(b \o b) = y \o y
    BY <1>2, ReverseJoin
  <2> QED BY <1>p, <2>1, <2>2, <2>3
<1> HIDE DEF x, y, z
<1>6. IsSequence(y \o y)
  BY <1>3, JoinHolds
<1>7. Parts(Reverse(p), Reverse(q), z, y, x)
  <2>1. z \o (y \o x) = (z \o y) \o x
    BY ONLY <1>3, JoinAssoc
  <2>2. z \o ((y \o y) \o x) = (z \o (y \o y)) \o x
    <3> DEFINE w == y \o y
    <3>1. IsSequence(z) /\ IsSequence(w) /\ IsSequence(x)
      BY <1>3, <1>6
    <3> HIDE DEF w
    <3>2. z \o (w \o x) = (z \o w) \o x
      BY ONLY <3>1, JoinAssoc
    <3> QED BY <3>2 DEF w
  <2> QED BY <1>3, <1>4, <1>5, <2>1, <2>2 DEF Parts
<1> QED BY <1>7, PartsAre

-----------------------------------------------------------------------------
(* What scap reads of the files against what git reads of them.            *)

FilesAre(fs) == \A l \in DOMAIN fs : IsSequence(fs[l])

LEMMA ReadIs ==
  ASSUME NEW fs, FilesAre(fs), NEW locs, IsSequence(locs)
  PROVE  IsSequence(Read(locs, fs)) /\ ToSet(Read(locs, fs)) = Held(locs, fs)
BY ReadHolds DEF FilesAre

Pieces(locs, fs) == [i \in DOMAIN locs |-> IF locs[i] \in DOMAIN fs THEN fs[locs[i]] ELSE <<>>]

LEMMA PiecesAre ==
  ASSUME NEW fs, FilesAre(fs), NEW locs, IsSequence(locs)
  PROVE  Pieces(locs, fs) \in Seq(Seq(UNION {ToSet(fs[l]) : l \in DOMAIN fs})) /\ Len(Pieces(locs, fs)) = Len(locs)
<1> DEFINE T == UNION {ToSet(fs[l]) : l \in DOMAIN fs}
           q == Pieces(locs, fs)
<1>1. Len(locs) \in Nat /\ DOMAIN locs = 1..Len(locs)
  BY SequenceHas
<1>2. /\ q = [i \in 1..Len(locs) |-> q[i]]
      /\ \A i \in 1..Len(locs) : q[i] = IF locs[i] \in DOMAIN fs THEN fs[locs[i]] ELSE <<>>
  BY <1>1 DEF Pieces
<1> HIDE DEF q
<1>3. ASSUME NEW l \in DOMAIN fs PROVE fs[l] \in Seq(T)
  <2> DEFINE z == fs[l]
  <2>1. IsSequence(z) /\ ToSet(z) \subseteq T
    BY DEF FilesAre
  <2> HIDE DEF T, z
  <2>2. Len(z) \in Nat /\ DOMAIN z = 1..Len(z) /\ z \in Seq(ToSet(z)) /\ \A k \in 1..Len(z) : z[k] \in T
    BY <2>1, SequenceHas
  <2>3. z = [k \in 1..Len(z) |-> z[k]]
    BY <2>2
  <2>4. z \in Seq(T)
    BY <2>2, <2>3
  <2> QED BY <2>4 DEF z
<1> HIDE DEF T
<1>4. \A i \in 1..Len(locs) : q[i] \in Seq(T)
  <2>1. <<>> \in Seq(T)
    OBVIOUS
  <2> QED BY <1>2, <1>3, <2>1
<1> DEFINE U == Seq(T)
<1> HIDE DEF U
<1>5. q \in Seq(U) /\ Len(q) = Len(locs)
  BY <1>1, <1>2, <1>4 DEF U
<1> QED BY <1>5 DEF U, T, q

LEMMA ReadJoin ==
  ASSUME NEW fs, FilesAre(fs), NEW a, IsSequence(a), NEW b, IsSequence(b)
  PROVE  Read(a \o b, fs) = Read(a, fs) \o Read(b, fs)
<1> DEFINE T == UNION {ToSet(fs[l]) : l \in DOMAIN fs}
           x == Pieces(a, fs)
           y == Pieces(b, fs)
           c == a \o b
           z == Pieces(c, fs)
<1>1. /\ IsSequence(c) /\ Len(a) \in Nat /\ Len(b) \in Nat /\ Len(c) = Len(a) + Len(b)
      /\ DOMAIN a = 1..Len(a) /\ DOMAIN b = 1..Len(b) /\ DOMAIN c = 1..(Len(a) + Len(b))
      /\ \A i \in 1..Len(a) : c[i] = a[i]
      /\ \A i \in 1..Len(b) : c[Len(a) + i] = b[i]
  BY JoinAt
<1> HIDE DEF c
<1>2. \A locs : Read(locs, fs) = FlattenSeq(Pieces(locs, fs))
  BY DEF Read, Pieces
<1>3. x \in Seq(Seq(T)) /\ Len(x) = Len(a) /\ y \in Seq(Seq(T)) /\ Len(y) = Len(b)
  BY PiecesAre
<1>4. z \in Seq(Seq(T)) /\ Len(z) = Len(a) + Len(b)
  BY <1>1, PiecesAre
<1>5. /\ \A i \in 1..Len(a) : x[i] = IF a[i] \in DOMAIN fs THEN fs[a[i]] ELSE <<>>
      /\ \A i \in 1..Len(b) : y[i] = IF b[i] \in DOMAIN fs THEN fs[b[i]] ELSE <<>>
      /\ \A i \in 1..(Len(a) + Len(b)) : z[i] = IF c[i] \in DOMAIN fs THEN fs[c[i]] ELSE <<>>
  BY <1>1 DEF Pieces
<1> HIDE DEF T, x, y, z
<1> DEFINE U == Seq(T)
<1> HIDE DEF U
<1>6. IsSequence(x) /\ IsSequence(y) /\ IsSequence(z)
  BY <1>3, <1>4, SequenceOf DEF U
<1>7. \A i \in 1..Len(a) : z[i] = x[i]
  BY <1>1, <1>5
<1>8. ASSUME NEW i \in 1..Len(b) PROVE z[Len(a) + i] = y[i]
  <2>1. Len(a) + i \in 1..(Len(a) + Len(b)) /\ c[Len(a) + i] = b[i]
    BY <1>1
  <2> QED BY <1>5, <2>1
<1>9. Follows(x, y, z)
  BY <1>3, <1>4, <1>6, <1>7, <1>8 DEF Follows
<1>10. z = x \o y
  BY <1>9, JoinIs
<1>11. FlattenSeq(x \o y) = FlattenSeq(x) \o FlattenSeq(y)
  BY <1>3, FlattenJoin
<1>12. Read(a, fs) = FlattenSeq(x) /\ Read(b, fs) = FlattenSeq(y) /\ Read(c, fs) = FlattenSeq(z)
  BY <1>2 DEF x, y, z
<1>13. Read(c, fs) = Read(a, fs) \o Read(b, fs)
  BY <1>10, <1>11, <1>12
<1> QED BY <1>13 DEF c

LEMMA ReadNone == ASSUME NEW fs PROVE Read(<<>>, fs) = <<>>
<1>1. Pieces(<<>>, fs) = <<>>
  BY DEF Pieces
<1>2. FlattenSeq(<<>>) = <<>>
  BY DEF FlattenSeq
<1> QED BY <1>1, <1>2 DEF Read, Pieces

LEMMA ReadOne ==
  ASSUME NEW fs, NEW l
  PROVE  Read(<< l >>, fs) = IF l \in DOMAIN fs THEN fs[l] ELSE <<>>
<1> DEFINE q == Pieces(<< l >>, fs)
           x == IF l \in DOMAIN fs THEN fs[l] ELSE <<>>
<1>1. q = << x >>
  BY DEF Pieces
<1> HIDE DEF x, q
<1>2. Len(q) = 1 /\ q[1] = x
  BY <1>1
<1>3. \E f : Joined(q, 1, f)
  BY JoinedExists
<1>4. FlattenSeq(q) = (CHOOSE f : Joined(q, 1, f))[1]
  <2>1. Len(q) # 0
    BY <1>2
  <2>2. FlattenSeq(q) = (CHOOSE f : Joined(q, Len(q), f))[Len(q)]
    BY <2>1, FlattenIs
  <2> QED BY <1>2, <2>2
<1>5. \A f : Joined(q, 1, f) => f[1] = x
  <2> TAKE f
  <2> HAVE Joined(q, 1, f)
  <2>1. f = [i \in 1..1 |-> IF i = 1 THEN q[i] ELSE f[i - 1] \o q[i]]
    BY DEF Joined
  <2>2. f[1] = q[1]
    BY <2>1
  <2> QED BY <1>2, <2>2
<1>6. FlattenSeq(q) = x
  BY <1>3, <1>4, <1>5
<1> QED BY <1>6 DEF Read, Pieces, q, x

\* SystemIsGits, of any environment and files.
SystemSame(e, fs) ==
  /\ ~(e.nosystem /\ e.systemVar)
  /\ Len(probe_system_config(fs)) = 1 => GitPrefix \in DOMAIN fs

GitSystem(e) == IF e.nosystem THEN <<>> ELSE IF e.systemVar THEN << "GIT_CONFIG_SYSTEM" >> ELSE << GitPrefix >>
GitGlobal(e) == IF e.globalVar THEN << "GIT_CONFIG_GLOBAL" >> ELSE IF e.home THEN << "xdg", "home" >> ELSE <<>>
GitMain(e) == RepoMain(git_repository(e))
GitTree(e, fs) == RepoTree(git_repository(e), fs)

\* RepositoryIsGits, of any environment.
RepoSame(e) == git_repository(e) = discover_git_dir(e)

LEMMA GitFilesAre == \A e, fs : GitFiles(e, fs) = GitSystem(e) \o GitGlobal(e) \o GitMain(e) \o GitTree(e, fs)
BY DEF GitFiles, GitSystem, GitGlobal, GitMain, GitTree, RepoMain, RepoTree

LEMMA SystemReads ==
  ASSUME NEW e, NEW fs, SystemSame(e, fs), ~(enumerate(e, fs).matches > 1)
  PROVE  Read(system_files(e, fs), fs) = Read(GitSystem(e), fs)
<1> DEFINE probe == probe_system_config(fs)
<1>1. CASE e.systemVar \/ e.nosystem
  BY <1>1 DEF SystemSame, system_files, GitSystem
<1>2. CASE ~(e.systemVar \/ e.nosystem)
  <2>1. IsSequence(probe) /\ ToSet(probe) = ToSet(SystemCandidates) \cap DOMAIN fs
    BY ProbeHolds
  <2>2. system_files(e, fs) = probe /\ GitSystem(e) = << GitPrefix >> /\ enumerate(e, fs).matches = Len(probe)
    BY <1>2 DEF system_files, GitSystem, enumerate
  <2>3. GitPrefix \in ToSet(SystemCandidates)
    BY StartsAssumption
  <2> HIDE DEF probe
  <2>4. Len(probe) \in Nat /\ DOMAIN probe = 1..Len(probe) /\ probe \in Seq(ToSet(probe))
    BY <2>1, SequenceHas
  <2>5. CASE Len(probe) = 0
    <3>1. probe = <<>>
      BY <2>1, <2>5, IsNone
    <3>2. GitPrefix \notin DOMAIN fs
      <4>1. ToSet(probe) = {}
        BY <3>1, NoneHeld
      <4> QED BY <2>1, <2>3, <4>1
    <3>3. Read(<< GitPrefix >>, fs) = <<>>
      BY <3>2, ReadOne
    <3> QED BY <2>2, <3>1, <3>3, ReadNone
  <2>6. CASE Len(probe) = 1
    <3>1. GitPrefix \in ToSet(probe)
      BY <2>1, <2>3, <2>6 DEF SystemSame, probe
    <3>2. probe[1] = GitPrefix
      BY <2>4, <2>6, <3>1 DEF ToSet
    <3>3. IsSequence(<< GitPrefix >>) /\ Len(<< GitPrefix >>) = 1 /\ << GitPrefix >>[1] = GitPrefix
      BY OneHeld
    <3>4. probe = << GitPrefix >>
      <4> DEFINE q == << GitPrefix >>
      <4> HIDE DEF q
      <4>1. IsSequence(q) /\ Len(q) = 1 /\ q[1] = GitPrefix
        BY <3>3 DEF q
      <4>2. \A k \in 1..Len(probe) : probe[k] = q[k]
        BY <2>6, <3>2, <4>1
      <4>3. probe = q
        BY <2>1, <2>6, <4>1, <4>2, SameSequence
      <4> QED BY <4>3 DEF q
    <3> QED BY <2>2, <3>4
  <2>7. Len(probe) = 0 \/ Len(probe) = 1
    BY <2>2, <2>4
  <2> QED BY <2>5, <2>6, <2>7
<1> QED BY <1>1, <1>2

LEMMA GlobalReads ==
  ASSUME NEW e, NEW fs, Given(e, fs), FilesAre(fs)
  PROVE  LET q == Read(global_files(e), fs)
         IN  Read(GitGlobal(e), fs) \in {q, q \o q}
<1>1. CASE e.globalVar \/ ~e.home \/ ~e.oneGlobal
  BY <1>1 DEF global_files, GitGlobal
<1>2. CASE ~(e.globalVar \/ ~e.home \/ ~e.oneGlobal)
  <2>1. global_files(e) = << "xdg" >> /\ GitGlobal(e) = << "xdg", "home" >>
    BY <1>2 DEF global_files, GitGlobal
  <2>2. << "xdg", "home" >> = << "xdg" >> \o << "home" >> /\ IsSequence(<< "xdg" >>) /\ IsSequence(<< "home" >>)
    BY OneHeld
  <2> DEFINE x == << "xdg" >>
             h == << "home" >>
  <2> HIDE DEF x, h
  <2>3. Read(x \o h, fs) = Read(x, fs) \o Read(h, fs)
    BY <2>2, ReadJoin DEF x, h
  <2>4. Read(h, fs) = (IF "home" \in DOMAIN fs THEN fs["home"] ELSE <<>>) /\ Read(x, fs) = (IF "xdg" \in DOMAIN fs THEN fs["xdg"] ELSE <<>>)
    BY ReadOne DEF x, h
  <2>5. IsSequence(Read(x, fs))
    BY <2>2, ReadIs DEF x
  <2>6. CASE "home" \in DOMAIN fs
    <3>1. "xdg" \in DOMAIN fs /\ fs["xdg"] = fs["home"]
      BY <1>2, <2>6 DEF Given
    <3>2. Read(h, fs) = Read(x, fs)
      BY <2>4, <2>6, <3>1
    <3> QED BY <2>1, <2>2, <2>3, <3>2 DEF x, h
  <2>7. CASE "home" \notin DOMAIN fs
    <3>1. Read(h, fs) = <<>>
      BY <2>4, <2>7
    <3>2. Read(x, fs) \o <<>> = Read(x, fs)
      BY <2>5, JoinNone
    <3> QED BY <2>1, <2>2, <2>3, <3>1, <3>2 DEF x, h
  <2> QED BY <2>6, <2>7
<1> QED BY <1>1, <1>2

LEMMA LocalReads ==
  ASSUME NEW e, NEW fs, FilesAre(fs), RepoSame(e)
  PROVE  Read(local_files(e, fs), fs) = Read(GitMain(e), fs) \o Read(GitTree(e, fs), fs)
<1> DEFINE dir == discover_git_dir(e)
           w == WorktreeIn[dir]
           on == worktree_config_enabled(fs, "main/config")
           own == IF w \in DOMAIN fs /\ on THEN << w >> ELSE <<>>
           main == << "main/config" >>
           tree == IF on THEN << w >> ELSE <<>>
<1>1. ConfigIn[common_dir_of(dir)] = "main/config"
  BY DEF ConfigIn, common_dir_of
<1>2. local_files(e, fs) = IF dir = None THEN <<>> ELSE main \o own
  BY <1>1 DEF local_files
<1>3. CASE dir = None
  <2>1. GitMain(e) = <<>> /\ GitTree(e, fs) = <<>>
    BY <1>3 DEF GitMain, GitTree, RepoMain, RepoTree, RepoSame
  <2>2. <<>> \o <<>> = <<>>
    BY NoneHeld, JoinNone
  <2> QED BY <1>2, <1>3, <2>1, <2>2, ReadNone
<1>4. CASE dir # None
  <2>1. GitMain(e) = main /\ GitTree(e, fs) = tree
    BY <1>4 DEF GitMain, GitTree, RepoMain, RepoTree, RepoSame
  <2>2. IsSequence(main) /\ IsSequence(own)
    BY OneHeld, NoneHeld
  <2>3. Read(own, fs) = Read(tree, fs)
    <3>1. Read(<<>>, fs) = <<>> /\ (w \notin DOMAIN fs => Read(<< w >>, fs) = <<>>)
      BY ReadNone, ReadOne
    <3> HIDE DEF w, on
    <3> QED BY <3>1
  <2> HIDE DEF main, own, tree, dir, w, on
  <2>4. Read(main \o own, fs) = Read(main, fs) \o Read(own, fs)
    BY <2>2, ReadJoin
  <2> QED BY <1>2, <1>4, <2>1, <2>3, <2>4
<1> QED BY <1>3, <1>4

\* What scap reads of the files is what git reads of them, but for a file git reads twice.
LEMMA ReadsTwice ==
  ASSUME NEW e, NEW fs, Given(e, fs), SystemSame(e, fs), RepoSame(e), ~(enumerate(e, fs).matches > 1)
  PROVE  Twice(Read(enumerate(e, fs).files, fs), Read(GitFiles(e, fs), fs))
<1> DEFINE s == system_files(e, fs)
           g == global_files(e)
           l == local_files(e, fs)
           s1 == GitSystem(e)
           s2 == GitGlobal(e)
           s3 == GitMain(e)
           s4 == GitTree(e, fs)
           a == Read(s, fs)
           b == Read(g, fs)
           c == Read(l, fs)
<1>0. FilesAre(fs)
  BY DEF FilesAre, Given, GivesRoots
<1>1. /\ IsSequence(s) /\ IsSequence(g) /\ IsSequence(l)
      /\ IsSequence(s1) /\ IsSequence(s2) /\ IsSequence(s3) /\ IsSequence(s4)
  BY SystemHolds, GlobalHolds, LocalHolds, RepoHolds DEF GitSystem, GitGlobal, GitMain, GitTree
<1>2. enumerate(e, fs).files = (s \o g) \o l /\ GitFiles(e, fs) = ((s1 \o s2) \o s3) \o s4
  BY GitFilesAre DEF enumerate
<1>3. Read(s1, fs) = a
  BY SystemReads
<1>4. Read(s2, fs) \in {b, b \o b}
  BY <1>0, GlobalReads
<1>5. c = Read(s3, fs) \o Read(s4, fs)
  BY <1>0, LocalReads
<1> DEFINE d == Read(s2, fs)
           x3 == Read(s3, fs)
           x4 == Read(s4, fs)
<1> HIDE DEF s, g, l, s1, s2, s3, s4
<1>6. IsSequence(a) /\ IsSequence(b) /\ IsSequence(c) /\ IsSequence(d) /\ IsSequence(x3) /\ IsSequence(x4)
  BY <1>0, <1>1, ReadIs
<1>7. IsSequence(s \o g) /\ IsSequence(s1 \o s2) /\ IsSequence((s1 \o s2) \o s3)
  <2>1. IsSequence(s \o g) /\ IsSequence(s1 \o s2)
    BY <1>1, JoinHolds
  <2> QED BY <1>1, <2>1, JoinHolds
<1>8. Read((s \o g) \o l, fs) = (a \o b) \o c
  <2>1. Read((s \o g) \o l, fs) = Read(s \o g, fs) \o c
    BY <1>0, <1>1, <1>7, ReadJoin
  <2>2. Read(s \o g, fs) = a \o b
    BY <1>0, <1>1, ReadJoin
  <2> QED BY <2>1, <2>2
<1>9. Read(((s1 \o s2) \o s3) \o s4, fs) = (a \o d) \o c
  <2>1. Read(((s1 \o s2) \o s3) \o s4, fs) = Read((s1 \o s2) \o s3, fs) \o x4
    BY <1>0, <1>1, <1>7, ReadJoin
  <2>2. Read((s1 \o s2) \o s3, fs) = Read(s1 \o s2, fs) \o x3
    BY <1>0, <1>1, <1>7, ReadJoin
  <2>3. Read(s1 \o s2, fs) = a \o d
    <3>1. Read(s1 \o s2, fs) = Read(s1, fs) \o d
      BY <1>0, <1>1, ReadJoin
    <3> QED BY <1>3, <3>1
  <2> HIDE DEF a, b, c, d, x3, x4
  <2>4. IsSequence(a \o d)
    BY <1>6, JoinHolds
  <2>5. ((a \o d) \o x3) \o x4 = (a \o d) \o (x3 \o x4)
    <3> DEFINE y == a \o d
    <3>1. IsSequence(y) /\ IsSequence(x3) /\ IsSequence(x4)
      BY <1>6, <2>4
    <3> HIDE DEF y
    <3>2. (y \o x3) \o x4 = y \o (x3 \o x4)
      BY <3>1, JoinAssoc
    <3> QED BY <3>2 DEF y
  <2>6. c = x3 \o x4
    BY <1>5 DEF c, x3, x4
  <2> QED BY <2>1, <2>2, <2>3, <2>5, <2>6
<1> DEFINE p == (a \o b) \o c
           q == (a \o d) \o c
<1>10. d \in {b, b \o b}
  BY <1>4
<1> HIDE DEF a, b, c, d
<1>11. Twice(p, q)
  <2>1. CASE d = b
    <3>1. IsSequence(a \o b)
      BY <1>6, JoinHolds
    <3>2. IsSequence(p)
      BY <1>6, <3>1, JoinHolds
    <3> QED BY <2>1, <3>2, TwiceSame
  <2>2. CASE d = b \o b
    <3>1. Parts(p, q, a, b, c)
      BY <1>6, <2>2 DEF Parts
    <3> QED BY <3>1, PartsAre
  <2> QED BY <1>10, <2>1, <2>2
<1> QED BY <1>2, <1>8, <1>9, <1>11

-----------------------------------------------------------------------------
(* The settings and the roots of what is read.                             *)

LEMMA TwiceDedupe ==
  ASSUME NEW p, NEW q, Twice(p, q), NEW u, NEW v, Twice(u, v)
  PROVE  Dedupe(p \o u) = Dedupe(q \o v)
<1>1. \A s : Dedupe(s) = Later(Reals(s), {})
  BY DEF Dedupe, Firsts, Later, Reals
<1>2. IsSequence(p) /\ IsSequence(q) /\ IsSequence(u) /\ IsSequence(v)
  BY TwiceIs
<1>3. Alike(Reals(p), Reals(q)) /\ Alike(Reals(u), Reals(v))
  BY TwiceReals, TwiceAlike
<1>4. Alike(Reals(p) \o Reals(u), Reals(q) \o Reals(v))
  BY <1>3, AlikeJoin
<1>5. Reals(p \o u) = Reals(p) \o Reals(u) /\ Reals(q \o v) = Reals(q) \o Reals(v)
  BY <1>2, RealsJoin
<1>6. Later(Reals(p \o u), {}) = Later(Reals(q \o v), {})
  BY <1>4, <1>5 DEF Alike
<1> QED BY <1>1, <1>6

\* What is read twice gives no other roots.
LEMMA TwiceRoots ==
  ASSUME NEW e, NEW s, NEW g, Twice(s.roots, g.roots), Twice(s.url_scoped_roots, g.url_scoped_roots), NEW all \in BOOLEAN
  PROVE  resolve_roots(e, s, all) = resolve_roots(e, g, all)
<1>1. CASE e.scapRoot # <<>>
  BY <1>1 DEF resolve_roots
<1>2. CASE e.scapRoot = <<>>
  <2> DEFINE r == Reverse(s.roots)
             q == Reverse(g.roots)
             x == IF r = <<>> /\ e.home THEN << "home/scap" >> ELSE r
             y == IF q = <<>> /\ e.home THEN << "home/scap" >> ELSE q
             u == IF all THEN s.url_scoped_roots ELSE <<>>
             v == IF all THEN g.url_scoped_roots ELSE <<>>
  <2>1. /\ resolve_roots(e, s, all) = IF x = <<>> THEN <<>> ELSE Dedupe(x \o u)
        /\ resolve_roots(e, g, all) = IF y = <<>> THEN <<>> ELSE Dedupe(y \o v)
    BY <1>2 DEF resolve_roots
  <2>2. Twice(r, q)
    BY TwiceReverse
  <2>3. Twice(<< "home/scap" >>, << "home/scap" >>) /\ Twice(<<>>, <<>>)
    BY NoneHeld, OneHeld, TwiceSame
  <2>4. Twice(u, v)
    BY <2>3
  <2> HIDE DEF r, q, u, v
  <2>5. r = <<>> <=> q = <<>>
    BY <2>2, TwiceLast
  <2>6. Twice(x, y)
    BY <2>2, <2>3, <2>5
  <2> HIDE DEF x, y
  <2>7. x = <<>> <=> y = <<>>
    BY <2>6, TwiceLast
  <2>8. Dedupe(x \o u) = Dedupe(y \o v)
    BY <2>4, <2>6, TwiceDedupe
  <2> QED BY <2>1, <2>7, <2>8
<1> QED BY <1>1, <1>2

LEMMA SettingsAre ==
  ASSUME NEW roots, NEW urls, NEW user, NEW complete, NEW exclude, NEW cache
  PROVE  Settings([err |-> None, roots |-> roots, url_scoped_roots |-> urls, user |-> user,
                   complete_user |-> complete, list_exclude |-> exclude, list_cache |-> cache])
         = [err |-> None, roots |-> <<>>, url_scoped_roots |-> <<>>, user |-> user,
            complete_user |-> complete, list_exclude |-> Firsts(exclude), list_cache |-> cache]
<1> DEFINE s == [err |-> None, roots |-> roots, url_scoped_roots |-> urls, user |-> user,
                 complete_user |-> complete, list_exclude |-> exclude, list_cache |-> cache]
           first == Firsts(exclude)
<1>1. Settings(s) = [s EXCEPT !.roots = <<>>, !.url_scoped_roots = <<>>, !.list_exclude = first]
  BY DEF Settings
<1> HIDE DEF first
<1>2. [s EXCEPT !.roots = <<>>, !.url_scoped_roots = <<>>, !.list_exclude = first]
      = [err |-> None, roots |-> <<>>, url_scoped_roots |-> <<>>, user |-> user,
         complete_user |-> complete, list_exclude |-> first, list_cache |-> cache]
  <2> DEFINE s1 == [err |-> None, roots |-> <<>>, url_scoped_roots |-> urls, user |-> user,
                    complete_user |-> complete, list_exclude |-> exclude, list_cache |-> cache]
             s2 == [err |-> None, roots |-> <<>>, url_scoped_roots |-> <<>>, user |-> user,
                    complete_user |-> complete, list_exclude |-> exclude, list_cache |-> cache]
  <2>1. [s EXCEPT !.roots = <<>>] = s1
    OBVIOUS
  <2>2. [s1 EXCEPT !.url_scoped_roots = <<>>] = s2
    OBVIOUS
  <2>3. [s2 EXCEPT !.list_exclude = first]
        = [err |-> None, roots |-> <<>>, url_scoped_roots |-> <<>>, user |-> user,
           complete_user |-> complete, list_exclude |-> first, list_cache |-> cache]
    OBVIOUS
  <2>4. [s EXCEPT !.roots = <<>>, !.url_scoped_roots = <<>>, !.list_exclude = first]
        = [[[s EXCEPT !.roots = <<>>] EXCEPT !.url_scoped_roots = <<>>] EXCEPT !.list_exclude = first]
    OBVIOUS
  <2> HIDE DEF s, s1, s2
  <2> QED BY <2>1, <2>2, <2>3, <2>4
<1> QED BY <1>1, <1>2 DEF first

\* ... and no other settings.
LEMMA TwiceGives ==
  ASSUME NEW e, NEW p, NEW q, Twice(p, q)
  PROVE  LET s == from_file(p, e)
             g == from_file(q, e)
         IN  /\ Twice(s.roots, g.roots) /\ Twice(s.url_scoped_roots, g.url_scoped_roots)
             /\ Settings(s) = Settings(g)
<1> DEFINE s == from_file(p, e)
           g == from_file(q, e)
<1>1. \A key : Twice(Plain(p, key), Plain(q, key)) /\ Twice(Scoped(p, key), Scoped(q, key))
  BY TwicePlain, TwiceScoped
<1>2. \A key, d : LastOr(Plain(p, key), d) = LastOr(Plain(q, key), d)
  BY <1>1, TwiceLast
<1>3. Twice(NonEmpty(Plain(p, "root")), NonEmpty(Plain(q, "root"))) /\ Twice(NonEmpty(Scoped(p, "root")), NonEmpty(Scoped(q, "root")))
  BY <1>1, TwiceNonEmpty
<1>4. Twice(s.roots, g.roots) /\ Twice(s.url_scoped_roots, g.url_scoped_roots)
  BY <1>3 DEF from_file
<1>5. \A key : boolean_of(p, key) = boolean_of(q, key)
  BY <1>2 DEF boolean_of
<1> DEFINE x == effective_list_exclude(e, Plain(p, "listexclude"))
           y == effective_list_exclude(e, Plain(q, "listexclude"))
<1>6. Firsts(x) = Firsts(y)
  <2>1. \A given : effective_list_exclude(e, given) = Trimmed(IF e.exclude = <<>> THEN given ELSE e.exclude)
    BY DEF effective_list_exclude, Trimmed, Normal
  <2>2. CASE e.exclude # <<>>
    BY <2>1, <2>2
  <2>3. CASE e.exclude = <<>>
    <3>1. x = Trimmed(Plain(p, "listexclude")) /\ y = Trimmed(Plain(q, "listexclude"))
      BY <2>1, <2>3
    <3>2. Twice(Trimmed(Plain(p, "listexclude")), Trimmed(Plain(q, "listexclude")))
      BY <1>1, TwiceTrimmed
    <3> QED BY <3>1, <3>2, TwiceAlike
  <2> QED BY <2>2, <2>3
<1>7. Settings(s) = Settings(g)
  <2> DEFINE user(z) == LastOr(Plain(z, "user"), None)
             complete(z) == boolean_of(z, "completeuser")
             cache(z) == effective_list_cache(e, boolean_of(z, "listcache"))
  <2>1. user(p) = user(q) /\ complete(p) = complete(q) /\ cache(p) = cache(q)
    BY <1>2, <1>5
  <2>2. Settings(s) = [err |-> None, roots |-> <<>>, url_scoped_roots |-> <<>>, user |-> user(p),
                       complete_user |-> complete(p), list_exclude |-> Firsts(x), list_cache |-> cache(p)]
    BY SettingsAre DEF from_file
  <2>3. Settings(g) = [err |-> None, roots |-> <<>>, url_scoped_roots |-> <<>>, user |-> user(q),
                       complete_user |-> complete(q), list_exclude |-> Firsts(y), list_cache |-> cache(q)]
    BY SettingsAre DEF from_file
  <2> HIDE DEF user, complete, cache, x, y, s, g
  <2> QED BY <1>6, <2>1, <2>2, <2>3
<1> QED BY <1>4, <1>7

\* A listing without branches is what is read of the files, where the environment adds nothing.
LEMMA ListingIsRead ==
  ASSUME NEW e, NEW fs, NEW read, read = Read(GitFiles(e, fs), Opened(fs)), IsSequence(read),
         ~has_unevaluable_includeif(read), ~(e.count = "some" \/ e.parameters)
  PROVE  GitListing(e, fs) = read
<1> DEFINE included == [i \in DOMAIN read |-> IF read[i].key = "onbranch" /\ e.onBranch
                                              THEN [read[i] EXCEPT !.key = "root"] ELSE read[i]]
<1>1. GitListing(e, fs) = included \o <<>>
  BY DEF GitListing
<1>2. included = [i \in DOMAIN read |-> read[i]]
  BY DEF has_unevaluable_includeif
<1>3. [i \in DOMAIN read |-> read[i]] = read
  <2>1. Len(read) \in Nat /\ DOMAIN read = 1..Len(read) /\ read \in Seq(ToSet(read))
    BY SequenceHas
  <2> QED BY <2>1
<1>4. read \o <<>> = read
  BY JoinNone
<1> HIDE DEF included
<1> QED BY <1>1, <1>2, <1>3, <1>4

LEMMA HasEntry ==
  ASSUME NEW q
  PROVE  /\ Unparsable(q) <=> \E x \in ToSet(q) : x.key \in {"garbage", "denied", "nodir"}
         /\ has_unevaluable_includeif(q) <=> \E x \in ToSet(q) : x.key = "onbranch"
BY DEF Unparsable, has_unevaluable_includeif, ToSet

\* Loaded as git would: with its settings and roots, or stopped where git stops or is missing,
\* or of a file git passes over.
LoadsAs(s, g, e, fs) ==
  /\ s.err # None => \/ GitDies(e, fs)
                     \/ ~e.git
                     \/ s.err = "Parse" /\ GitPassesOver(e, fs)
  /\ s.err = None => /\ ~GitDies(e, fs)
                     /\ Settings(s) = Settings(g)
                     /\ Twice(s.roots, g.roots) /\ Twice(s.url_scoped_roots, g.url_scoped_roots)

LEMMA LoadAsGit ==
  ASSUME NEW e, NEW fs, Given(e, fs), SystemSame(e, fs), RepoSame(e)
  PROVE  LoadsAs(load(e, fs), from_listing(GitListing(e, fs), e), e, fs)
<1> DEFINE s == load(e, fs)
           m == enumerate(e, fs).matches
           file == Read(enumerate(e, fs).files, fs)
           read == Read(GitFiles(e, fs), fs)
           l == GitListing(e, fs)
           g == from_listing(l, e)
<1>1. \A x : ConfigError(x).err = x
  BY DEF ConfigError
<1>2. CASE s = load_git(e, fs)
  <2>1. CASE ~e.git \/ GitDies(e, fs)
    <3>1. s.err # None
      BY <1>1, <1>2, <2>1 DEF load_git, resolve_git_program, None
    <3> QED BY <2>1, <3>1 DEF LoadsAs
  <2>2. CASE e.git /\ ~GitDies(e, fs)
    <3>1. s = g /\ s = from_file(l, e)
      BY <1>2, <2>2 DEF load_git, resolve_git_program, from_listing
    <3>2. IsSequence(l)
      BY ListingIs
    <3> HIDE DEF s, g, l
    <3>3. s.err = None /\ IsSequence(s.roots) /\ IsSequence(s.url_scoped_roots)
      BY <3>1, <3>2, FileGives
    <3>4. Twice(s.roots, g.roots) /\ Twice(s.url_scoped_roots, g.url_scoped_roots)
      BY <3>1, <3>3, TwiceSame
    <3> QED BY <2>2, <3>1, <3>3, <3>4 DEF LoadsAs, s, g, l
  <2> QED BY <2>1, <2>2
<1>3. CASE s # load_git(e, fs)
  <2>1. ~(m > 1) /\ ~git_config_count_applies(e.count) /\ ~e.parameters
    BY <1>3 DEF load, parse, needs_git_backend
  <2>2. \/ Unparsable(file) /\ s = ConfigError("Parse")
        \/ ~Unparsable(file) /\ ~has_unevaluable_includeif(file) /\ s = from_file(file, e)
    BY <1>3 DEF load, parse, needs_git_backend
  <2>3. Twice(file, read)
    BY <2>1, ReadsTwice
  <2>4. IsSequence(file) /\ IsSequence(read) /\ ToSet(file) = ToSet(read)
    BY <2>3, TwiceIs
  <2>5. e.count # "bad" /\ ~(e.count = "some" \/ e.parameters)
    BY <2>1 DEF git_config_count_applies
  <2>6. FilesAre(fs) /\ IsSequence(GitFiles(e, fs)) /\ ToSet(read) = Held(GitFiles(e, fs), fs)
    <3>1. FilesAre(fs) /\ IsSequence(GitFiles(e, fs))
      BY GitReadsNoMore DEF FilesAre, Given, GivesRoots
    <3> QED BY <3>1, ReadIs
  <2>7. CASE Unparsable(file) /\ s = ConfigError("Parse") /\ GitPassesOver(e, fs)
    BY <1>1, <2>7 DEF LoadsAs, None
  <2>8. CASE Unparsable(file) /\ s = ConfigError("Parse") /\ ~GitPassesOver(e, fs)
    <3>1. PICK x \in ToSet(read) : x.key \in {"garbage", "denied", "nodir"}
      BY <2>4, <2>8, HasEntry
    <3>2. x \in Held(GitFiles(e, fs), Opened(fs))
      BY <2>6, <2>8, <3>1, OpenedRead DEF GitPassesOver
    <3>3. Included(e, x) = x
      BY <3>1 DEF Included
    <3>4. x \in ToSet(l)
      BY <2>5, <3>2, <3>3, ListingIs
    <3>5. GitDies(e, fs)
      BY <3>1, <3>4, HasEntry DEF GitDies
    <3>6. s.err # None
      BY <1>1, <2>8 DEF None
    <3> QED BY <3>5, <3>6 DEF LoadsAs
  <2>9. CASE ~Unparsable(file) /\ ~has_unevaluable_includeif(file) /\ s = from_file(file, e)
    <3>1. ~Unparsable(read) /\ ~has_unevaluable_includeif(read)
      BY <2>4, <2>9, HasEntry
    <3>2. l = read
      <4>1. ASSUME NEW k \in ToSet(GitFiles(e, fs)) \cap DOMAIN fs PROVE ~PassedOver(k, fs)
        <5>1. \A x \in ToSet(fs[k]) : x \in ToSet(read)
          BY <2>6 DEF Held
        <5>2. \A x \in ToSet(fs[k]) : x.key \notin {"garbage", "denied", "nodir"}
          BY <3>1, <5>1, HasEntry
        <5> QED BY <5>2 DEF PassedOver, ToSet
      <4>2. read = Read(GitFiles(e, fs), Opened(fs))
        BY <4>1, OpenedRead
      <4> HIDE DEF read
      <4> QED BY <2>4, <2>5, <3>1, <4>2, ListingIsRead
    <3>3. ~GitDies(e, fs)
      BY <2>5, <3>1, <3>2 DEF GitDies
    <3>4. g = from_file(read, e)
      BY <3>2 DEF from_listing
    <3> HIDE DEF s, g, file, read
    <3>5. Twice(s.roots, g.roots) /\ Twice(s.url_scoped_roots, g.url_scoped_roots) /\ Settings(s) = Settings(g)
      BY <2>3, <2>9, <3>4, TwiceGives
    <3>6. s.err = None
      BY <2>4, <2>9, FileGives
    <3> QED BY <3>3, <3>5, <3>6 DEF LoadsAs, s, g
  <2> QED BY <2>2, <2>7, <2>8, <2>9
<1> QED BY <1>2, <1>3

-----------------------------------------------------------------------------
(* The place of a target against git's answer.                             *)

LEMMA PickedEnds ==
  ASSUME NEW s, IsSequence(s), NEW S, S \subseteq DOMAIN s, NEW i \in S
  PROVE  /\ (\A j \in S : j <= i) => Picks(s, S) # <<>> /\ Last(Picks(s, S)) = s[i]
         /\ i = 1 => Picks(s, S)[1] = s[1]
<1> DEFINE q == Picks(s, S)
           m == Cardinality(S)
<1>1. Ranked(s, S)
  BY PickAt
<1>2. m \in Nat /\ Rank(S, i) \in 1..m /\ q[Rank(S, i)] = s[i]
  BY <1>1 DEF Ranked
<1>3. IsSequence(q) /\ Len(q) = m
  BY PicksAre
<1>4. DOMAIN s = 1..Len(s) /\ \A j \in S : j \in Nat /\ j >= 1
  <2>1. DOMAIN s = 1..Len(s) /\ Len(s) \in Nat
    BY SequenceHas
  <2> QED BY <2>1
<1>5. ASSUME \A j \in S : j <= i PROVE q # <<>> /\ Last(q) = s[i]
  <2>1. {j \in S : j <= i} = S
    BY <1>5
  <2>2. Rank(S, i) = m
    BY <2>1 DEF Rank
  <2> HIDE DEF q, m
  <2>3. q # <<>>
    BY <1>2, <1>3, <2>2, IsNone
  <2> QED BY <1>2, <1>3, <2>2, <2>3 DEF Last
<1>6. ASSUME i = 1 PROVE q[1] = s[1]
  <2>1. {j \in S : j <= i} = {1}
    BY <1>4, <1>6
  <2>2. Rank(S, i) = 1
    BY <2>1, FS_Singleton DEF Rank
  <2> QED BY <1>2, <1>6, <2>2
<1> QED BY <1>5, <1>6

LEMMA LastVals ==
  ASSUME NEW q, IsSequence(q), q # <<>>
  PROVE  Vals(q) # <<>> /\ Last(Vals(q)) = Last(q).val
<1>1. Len(q) \in Nat \ {0} /\ DOMAIN q = 1..Len(q)
  BY IsNone, SequenceHas
<1> DEFINE f == Vals(q)
<1>2. f = [i \in 1..Len(q) |-> f[i]] /\ \A i \in 1..Len(q) : f[i] = q[i].val
  BY <1>1 DEF Vals
<1> HIDE DEF f
<1>3. IsSequence(f) /\ Len(f) = Len(q)
  BY <1>1, <1>2, FunctionIs
<1>4. f # <<>>
  BY <1>1, <1>3, IsNone
<1>5. f[Len(q)] = q[Len(q)].val
  BY <1>1, <1>2
<1> QED BY <1>3, <1>4, <1>5 DEF f, Last

LEMMA LastKept ==
  ASSUME NEW q, IsSequence(q), q # <<>>, NEW none, Last(q) # none
  PROVE  LET kept == Picks(q, {i \in DOMAIN q : q[i] # none})
         IN  kept # <<>> /\ Last(kept) = Last(q)
<1> DEFINE S == {i \in DOMAIN q : q[i] # none}
           n == Len(q)
<1>1. n \in Nat \ {0} /\ DOMAIN q = 1..n
  BY IsNone, SequenceHas
<1>2. Last(q) = q[n]
  BY DEF Last
<1> HIDE DEF n
<1>3. S \subseteq DOMAIN q /\ n \in S /\ \A j \in S : j <= n
  BY <1>1, <1>2
<1> HIDE DEF S
<1>4. Picks(q, S) # <<>> /\ Last(Picks(q, S)) = q[n]
  BY <1>3, PickedEnds
<1> QED BY <1>2, <1>4 DEF S

LEMMA LastNonEmpty ==
  ASSUME NEW q, IsSequence(q), q # <<>>, Last(q) # ""
  PROVE  NonEmpty(q) # <<>> /\ Last(NonEmpty(q)) = Last(q)
BY LastKept DEF NonEmpty

\* The primary root is the last plain one.
LEMMA PrimaryIs ==
  ASSUME NEW e, NEW s, e.scapRoot = <<>>, IsSequence(s.roots), s.roots # <<>>
  PROVE  PrimaryRoot(e, s) = Real(Last(s.roots))
<1> DEFINE r == s.roots
           q == Reverse(r)
           real == Reals(q)
           S == {i \in DOMAIN real : \A j \in 1..(i - 1) : real[j] # real[i]}
<1>1. IsSequence(q) /\ q # <<>> /\ q \o <<>> = q
  BY ReverseHolds, JoinNone
<1>2. resolve_roots(e, s, FALSE) = Dedupe(q)
  BY <1>1 DEF resolve_roots
<1>3. Dedupe(q) = Picks(real, S)
  BY DEF Dedupe, Firsts, Reals
<1>4. Len(r) \in Nat \ {0} /\ q = [i \in 1..Len(r) |-> r[(Len(r) - i) + 1]]
  BY IsNone DEF Reverse
<1> HIDE DEF r, q
<1>5. q[1] = r[Len(r)] /\ DOMAIN q = 1..Len(r)
  BY <1>4
<1>6. IsSequence(real) /\ DOMAIN real = 1..Len(r) /\ real[1] = Real(r[Len(r)])
  <2>1. IsSequence(real)
    BY <1>1, RealsJoin
  <2>2. DOMAIN real = 1..Len(r) /\ real[1] = Real(q[1])
    BY <1>4, <1>5 DEF Reals, Real
  <2> QED BY <1>5, <2>1, <2>2
<1> HIDE DEF real
<1>7. S \subseteq DOMAIN real /\ 1 \in S
  BY <1>4, <1>6
<1> HIDE DEF S
<1>8. Picks(real, S)[1] = real[1]
  BY <1>6, <1>7, PickedEnds
<1>9. Picks(real, S) # <<>>
  <2>1. ToSet(Picks(real, S)) = {real[i] : i \in S}
    BY <1>6, <1>7, PicksAre
  <2>2. ToSet(Picks(real, S)) # {}
    BY <1>7, <2>1
  <2> QED BY <2>2, NoneHeld
<1>10. PrimaryRoot(e, s) = real[1]
  BY <1>2, <1>3, <1>8, <1>9 DEF PrimaryRoot
<1> QED BY <1>6, <1>10 DEF r, Last

\* Without a root in a URL section, git answers the last plain root.
LEMMA AnswerIsLast ==
  ASSUME NEW e, NEW fs, IsSequence(GitListing(e, fs)), NEW g, g = from_listing(GitListing(e, fs), e),
         g.url_scoped_roots = <<>>, NEW url, get_urlmatch(e, fs, url) # None
  PROVE  g.roots # <<>> /\ get_urlmatch(e, fs, url) = Last(g.roots)
<1> DEFINE listing == GitListing(e, fs)
           hits == {i \in DOMAIN listing : listing[i].key = "root" /\ (listing[i].sub = <<>> \/ Matches(listing[i].sub, url))}
           best == {i \in hits : \A j \in hits : \/ Len(listing[j].sub) < Len(listing[i].sub)
                                                 \/ Len(listing[j].sub) = Len(listing[i].sub) /\ j <= i}
           vals == {listing[i].val : i \in best} \ {""}
           P == PlainAt(listing, "root")
           p == Plain(listing, "root")
<1>1. get_urlmatch(e, fs, url) = IF vals = {} THEN None ELSE CHOOSE v \in vals : TRUE
  BY DEF get_urlmatch
<1>2. get_urlmatch(e, fs, url) \in vals
  <2> HIDE DEF vals
  <2> QED BY <1>1
<1>3. PICK i \in best : get_urlmatch(e, fs, url) = listing[i].val /\ listing[i].val # ""
  BY <1>2
<1>4. i \in DOMAIN listing /\ listing[i].key = "root"
  OBVIOUS
<1>5. listing[i].sub = <<>>
  <2> SUFFICES ASSUME listing[i].sub # <<>> PROVE FALSE
    OBVIOUS
  <2>1. ToSet(g.url_scoped_roots) = RootsIn(listing, TRUE)
    BY FileGives DEF from_listing
  <2>2. RootsIn(listing, TRUE) = {}
    BY <2>1, NoneHeld
  <2> HIDE DEF listing
  <2>3. listing[i] \in ToSet(listing)
    BY <1>4 DEF ToSet
  <2>4. listing[i].val \in RootsIn(listing, TRUE)
    BY <1>3, <1>4, <2>3 DEF RootsIn
  <2> QED BY <2>2, <2>4
<1>6. i \in P /\ P \subseteq DOMAIN listing
  BY <1>4, <1>5 DEF PlainAt
<1>7. ASSUME NEW j \in P PROVE j <= i
  <2>1. j \in hits /\ listing[j].sub = <<>>
    BY DEF PlainAt
  <2>2. \/ Len(listing[j].sub) < Len(listing[i].sub)
        \/ Len(listing[j].sub) = Len(listing[i].sub) /\ j <= i
    BY <1>3, <2>1
  <2>3. ~(Len(<<>>) < Len(<<>>))
    OBVIOUS
  <2> HIDE DEF listing, hits, best
  <2> QED BY <1>5, <2>1, <2>2, <2>3
<1>8. p = Vals(Picks(listing, P))
  BY DEF Plain, PlainAt
<1>9. g.roots = NonEmpty(p)
  BY DEF from_listing, from_file
<1> HIDE DEF listing, hits, best, vals, P, p
<1>10. IsSequence(listing)
  BY DEF listing
<1>11. Picks(listing, P) # <<>> /\ Last(Picks(listing, P)) = listing[i] /\ IsSequence(Picks(listing, P))
  BY <1>6, <1>7, <1>10, PickedEnds, PicksAre
<1>12. p # <<>> /\ Last(p) = listing[i].val /\ IsSequence(p)
  BY <1>8, <1>11, LastVals, ValsHold
<1> QED BY <1>3, <1>9, <1>12, LastNonEmpty

\* GitRoot, of any environment and files.
GitPlace(e, fs, g, url) ==
  LET answer == get_urlmatch(e, fs, url)
  IN  IF e.scapRoot # <<>> THEN Cleaned[Head(e.scapRoot)]
      ELSE IF IsCodecommit(url) \/ answer = None THEN PrimaryRoot(e, g)
      ELSE Cleaned[answer]

LEMMA RootAsGit ==
  ASSUME NEW e, NEW fs, Given(e, fs), NEW s, NEW g, g = from_listing(GitListing(e, fs), e),
         Twice(s.roots, g.roots), Twice(s.url_scoped_roots, g.url_scoped_roots),
         NEW url, NEW answer, answer = IF Delegates(e, s, url) THEN get_urlmatch(e, fs, url) ELSE None
  PROVE  LET root == root_for_url(e, s, url, answer)
         IN  GitPlace(e, fs, g, url) \in {root, Physical[root]}
<1> DEFINE root == root_for_url(e, s, url, answer)
           said == get_urlmatch(e, fs, url)
           place == GitPlace(e, fs, g, url)
<1>1. /\ IsSequence(s.roots) /\ IsSequence(GitListing(e, fs))
      /\ s.roots = <<>> <=> g.roots = <<>>
      /\ s.url_scoped_roots = <<>> <=> g.url_scoped_roots = <<>>
      /\ LastOr(s.roots, "") = LastOr(g.roots, "")
  BY TwiceIs, TwiceLast, ListingIs
<1>2. PrimaryRoot(e, s) = PrimaryRoot(e, g)
  <2>1. resolve_roots(e, s, FALSE) = resolve_roots(e, g, FALSE)
    BY TwiceRoots
  <2> QED BY <2>1 DEF PrimaryRoot
<1>3. CASE e.scapRoot # <<>>
  BY <1>3 DEF root_for_url, GitPlace
<1>4. CASE e.scapRoot = <<>> /\ IsCodecommit(url)
  BY <1>2, <1>4 DEF root_for_url, GitPlace
<1>5. CASE e.scapRoot = <<>> /\ ~IsCodecommit(url) /\ answer # None
  BY <1>5 DEF root_for_url, GitPlace
<1>6. CASE e.scapRoot = <<>> /\ ~IsCodecommit(url) /\ answer = None /\ said = None
  <2>1. place = PrimaryRoot(e, s)
    BY <1>2, <1>6 DEF GitPlace
  <2>2. CASE s.roots = <<>>
    BY <1>6, <2>1, <2>2 DEF root_for_url
  <2>3. CASE s.roots # <<>>
    <3>1. root = Cleaned[Last(s.roots)]
      BY <1>6, <2>3 DEF root_for_url
    <3>2. PrimaryRoot(e, s) = Physical[Cleaned[Last(s.roots)]]
      BY <1>1, <1>6, <2>3, PrimaryIs DEF Real
    <3> QED BY <2>1, <3>1, <3>2
  <2> QED BY <2>2, <2>3
<1>7. CASE e.scapRoot = <<>> /\ ~IsCodecommit(url) /\ answer = None /\ said # None
  <2>1. g.url_scoped_roots = <<>>
    BY <1>1, <1>7 DEF Delegates
  <2>2. g.roots # <<>> /\ said = Last(g.roots)
    BY <1>1, <1>7, <2>1, AnswerIsLast
  <2>3. s.roots # <<>> /\ Last(s.roots) = said
    BY <1>1, <2>2 DEF LastOr
  <2>4. root = Cleaned[said]
    BY <1>7, <2>3 DEF root_for_url
  <2>5. place = Cleaned[said]
    BY <1>7 DEF GitPlace
  <2> QED BY <2>4, <2>5
<1> QED BY <1>3, <1>4, <1>5, <1>6, <1>7

-----------------------------------------------------------------------------
\* Nobody ends before there is a snapshot.
NoneEndsBefore == snap = NotLoaded => \A w \in Workers : pc[w] = "start"

LEMMA LoadBringsOne == \A e, fs : load(e, fs) # NotLoaded
<1> TAKE e, fs
<1>1. load(e, fs).err \in {None, "GitRequired", "GitConfigFailed", "Parse"}
  <2>1. \A x : ConfigError(x).err = x
    BY DEF ConfigError
  <2>2. \A x : from_file(x, e).err = None
    BY DEF from_file
  <2>3. load_git(e, fs).err \in {None, "GitRequired", "GitConfigFailed"}
    BY <2>1, <2>2 DEF load_git, from_listing
  <2> HIDE DEF load_git
  <2> QED BY <2>1, <2>2, <2>3 DEF load
<1>2. NotLoaded.err = "not loaded"
  BY DEF NotLoaded, ConfigError
<1> QED BY <1>1, <1>2 DEF None

LEMMA InitNoneEnds == Init => NoneEndsBefore
BY DEF Init, NoneEndsBefore

LEMMA NextNoneEnds == NoneEndsBefore /\ [Next]_vars => NoneEndsBefore'
<1> SUFFICES ASSUME NoneEndsBefore, [Next]_vars, snap' = NotLoaded
             PROVE  \A w \in Workers : pc'[w] = "start"
  BY DEF NoneEndsBefore
<1>1. CASE Load
  BY <1>1, LoadBringsOne DEF Load
<1>2. CASE ExecLook
  <2>1. snap = NotLoaded /\ snap.err = None
    BY <1>2 DEF ExecLook
  <2> QED BY <2>1, NotLoadedFails
<1>3. CASE Edit
  BY <1>3 DEF Edit, NoneEndsBefore
<1>4. ASSUME NEW w \in Workers, Work(w) PROVE FALSE
  <2>1. snap = NotLoaded /\ pc[w] # "start"
    BY <1>4 DEF Work, Take, Resolve, LockSlot, Remembered, Answered, SpawnFails, Leave, MustSpawn
  <2> QED BY <2>1 DEF NoneEndsBefore
<1>5. CASE UNCHANGED vars
  BY <1>5 DEF vars, NoneEndsBefore
<1> QED BY <1>1, <1>2, <1>3, <1>4, <1>5 DEF Next, Ended

\* Whatever the files, and in every environment where scap and git take the same system file and
\* the same repository, a process that ends has the settings, the roots and the places that git
\* alone would give it, or has stopped where git stops or is missing, or of a file that cannot be
\* opened and that git passes over (config.rs: load, root_for_url rules (a) to (e); sources.rs; git_backend.rs).
THEOREM ReadsAsGit == Spec => []AsGitReads
<1>1. MemoInv /\ FreshInv /\ NoneEndsBefore => AsGitReads
  <2> SUFFICES ASSUME MemoInv, FreshInv, NoneEndsBefore, edits = 0, AllDone, SystemIsGits, RepositoryIsGits
               PROVE  LET g == from_listing(GitListing(env, files), env)
                      IN  /\ snap.err # None => \/ GitDies(env, files)
                                                \/ ~env.git
                                                \/ snap.err = "Parse" /\ GitPassesOver(env, files)
                          /\ snap.err = None => /\ ~GitDies(env, files)
                                                /\ Settings(snap) = Settings(g) /\ Roots(snap) = Roots(g)
                                                /\ \A d \in went : GitRoot(g, d.remote) \in {d.dest[1], Physical[d.dest[1]]}
    BY DEF AsGitReads
  <2> DEFINE g == from_listing(GitListing(env, files), env)
  <2>1. snap = load(env, files)
    <3>1. PICK w \in Workers : TRUE
      BY WorkersAssumption
    <3>2. pc[w] = "done"
      BY <3>1 DEF AllDone
    <3> QED BY <3>2 DEF NoneEndsBefore, FreshInv
  <2>2. Given(env, files) /\ SystemSame(env, files) /\ RepoSame(env)
    BY DEF FreshInv, SystemIsGits, SystemSame, RepositoryIsGits, RepoSame
  <2>3. LoadsAs(snap, g, env, files)
    BY <2>1, <2>2, LoadAsGit
  <2>4. ASSUME snap.err = None PROVE Roots(snap) = Roots(g)
    <3> HIDE DEF g
    <3>1. \A all \in BOOLEAN : resolve_roots(env, snap, all) = resolve_roots(env, g, all)
      BY <2>3, <2>4, TwiceRoots DEF LoadsAs
    <3> QED BY <3>1 DEF Roots
  <2>5. ASSUME snap.err = None, NEW d \in went PROVE GitRoot(g, d.remote) \in {d.dest[1], Physical[d.dest[1]]}
    <3>1. d.dest[1] = root_for_url(env, snap, d.remote, Known(d.remote))
      BY DEF MemoInv, Founded
    <3>2. Known(d.remote) = IF Delegates(env, snap, d.remote) THEN get_urlmatch(env, files, d.remote) ELSE None
      BY DEF MemoInv, Founded, Known, FreshInv
    <3>3. GitRoot(g, d.remote) = GitPlace(env, files, g, d.remote)
      BY DEF GitRoot, GitPlace
    <3>4. g = from_listing(GitListing(env, files), env)
      OBVIOUS
    <3> HIDE DEF g
    <3>5. Twice(snap.roots, g.roots) /\ Twice(snap.url_scoped_roots, g.url_scoped_roots)
      BY <2>3, <2>5 DEF LoadsAs
    <3> DEFINE url == d.remote
               known == Known(url)
    <3>6. known = IF Delegates(env, snap, url) THEN get_urlmatch(env, files, url) ELSE None
      BY <3>2
    <3> HIDE DEF known
    <3>7. GitPlace(env, files, g, url) \in {root_for_url(env, snap, url, known), Physical[root_for_url(env, snap, url, known)]}
      BY <2>2, <3>4, <3>5, <3>6, RootAsGit
    <3> QED BY <3>1, <3>3, <3>7 DEF known
  <2> HIDE DEF g
  <2> QED BY <2>3, <2>4, <2>5 DEF LoadsAs, g
<1>2. Spec => []FreshInv
  BY InitFresh, NextFresh, PTL DEF Spec
<1>3. Spec => []NoneEndsBefore
  BY InitNoneEnds, NextNoneEnds, PTL DEF Spec
<1> QED BY <1>1, <1>2, <1>3, Invariance, PTL

-----------------------------------------------------------------------------
(* From a remote back to its repository: where the separators of a text    *)
(* are, and what the parts between them are.                               *)

LEMMA MinIs ==
  ASSUME NEW S \in SUBSET Int, NEW k \in S, \A i \in S : k <= i
  PROVE  Min(S) = k
<1>1. \E x \in S : \A y \in S : x <= y
  OBVIOUS
<1> DEFINE m == Min(S)
<1>2. m \in S /\ \A y \in S : m <= y
  BY <1>1 DEF Min
<1> HIDE DEF m
<1>3. m \in Int /\ k \in Int /\ m <= k /\ k <= m
  BY <1>2
<1>4. m = k
  BY <1>3
<1> QED BY <1>4 DEF m

LEMMA MaxIs ==
  ASSUME NEW S \in SUBSET Int, NEW k \in S, \A i \in S : i <= k
  PROVE  Max(S) = k
<1>1. \E x \in S : \A y \in S : x >= y
  OBVIOUS
<1> DEFINE m == Max(S)
<1>2. m \in S /\ \A y \in S : m >= y
  BY <1>1 DEF Max
<1> HIDE DEF m
<1>3. m \in Int /\ k \in Int /\ m <= k /\ k <= m
  BY <1>2
<1>4. m = k
  BY <1>3
<1> QED BY <1>4 DEF m

\* A joined sequence, taken apart where it was joined.
LEMMA SplitJoin ==
  ASSUME NEW a, IsSequence(a), NEW b, IsSequence(b)
  PROVE  /\ SubSeq(a \o b, 1, Len(a)) = a
         /\ SubSeq(a \o b, Len(a) + 1, Len(a \o b)) = b
<1> DEFINE c == a \o b
<1>1. /\ IsSequence(c) /\ Len(a) \in Nat /\ Len(b) \in Nat /\ Len(c) = Len(a) + Len(b)
      /\ \A i \in 1..Len(a) : c[i] = a[i]
      /\ \A i \in 1..Len(b) : c[Len(a) + i] = b[i]
  <2>1. IsSequence(a) /\ IsSequence(b)
    OBVIOUS
  <2>2. IsSequence(a \o b) /\ Len(a) \in Nat /\ Len(b) \in Nat /\ Len(a \o b) = Len(a) + Len(b)
    BY ONLY <2>1, JoinAt
  <2>3. \A i \in 1..Len(a) : (a \o b)[i] = a[i]
    BY ONLY <2>1, JoinAt
  <2>4. \A i \in 1..Len(b) : (a \o b)[Len(a) + i] = b[i]
    BY ONLY <2>1, JoinAt
  <2> QED BY <2>2, <2>3, <2>4
<1>2. \A i \in 1..Len(c) : c[i] \in ToSet(c)
  BY <1>1, SequenceHas
<1> HIDE DEF c
<1> DEFINE p == SubSeq(c, 1, Len(a))
           q == SubSeq(c, Len(a) + 1, Len(c))
<1>3. p \in Seq(ToSet(c)) /\ Len(p) = Len(a) /\ \A i \in 1..Len(a) : p[i] = c[i]
  <2>1. /\ p \in Seq(ToSet(c)) /\ Len(p) = (IF 1 <= Len(a) THEN Len(a) - 1 + 1 ELSE 0)
        /\ \A i \in 1..(Len(a) - 1 + 1) : p[i] = c[1 + i - 1]
    <3>1. \A i \in 1..Len(a) : c[i] \in ToSet(c)
      BY <1>1, <1>2
    <3> QED BY <1>1, <3>1, SubSeqProperties
  <2> HIDE DEF p
  <2> QED BY <1>1, <2>1
<1>4. q \in Seq(ToSet(c)) /\ Len(q) = Len(b) /\ \A i \in 1..Len(b) : q[i] = c[Len(a) + i]
  <2>1. /\ q \in Seq(ToSet(c)) /\ Len(q) = (IF Len(a) + 1 <= Len(c) THEN Len(c) - (Len(a) + 1) + 1 ELSE 0)
        /\ \A i \in 1..(Len(c) - (Len(a) + 1) + 1) : q[i] = c[Len(a) + 1 + i - 1]
    <3>1. \A i \in (Len(a) + 1)..Len(c) : c[i] \in ToSet(c)
      BY <1>1, <1>2
    <3>2. Len(a) + 1 \in Int /\ Len(c) \in Int
      BY <1>1
    <3> QED BY <3>1, <3>2, SubSeqProperties
  <2> HIDE DEF q
  <2>2. Len(c) - (Len(a) + 1) + 1 = Len(b) /\ \A i \in 1..Len(b) : Len(a) + 1 + i - 1 = Len(a) + i
    BY <1>1
  <2>3. Len(q) = Len(b)
    BY <1>1, <2>1
  <2>4. \A i \in 1..Len(b) : q[i] = c[Len(a) + i]
    BY <2>1, <2>2
  <2> QED BY <2>1, <2>3, <2>4
<1> HIDE DEF p, q
<1>5. p = a
  <2>1. IsSequence(p) /\ \A i \in 1..Len(p) : p[i] = a[i]
    BY <1>1, <1>3, SequenceOf
  <2> QED BY <1>3, <2>1, SameSequence
<1>6. q = b
  <2>1. IsSequence(q) /\ \A i \in 1..Len(q) : q[i] = b[i]
    BY <1>1, <1>4, SequenceOf
  <2> QED BY <1>4, <2>1, SameSequence
<1> QED BY <1>5, <1>6 DEF p, q, c

\* Where t is not, and what that leaves of s.
LEMMA NotThere ==
  ASSUME NEW s, IsSequence(s), NEW t, t \notin ToSet(s)
  PROVE  /\ Find(s, t) = 0 /\ RFind(s, t) = 0 /\ UpTo(s, t) = s
         /\ Before(s, 0) = <<>> /\ After(s, 0) = s
<1>1. Len(s) \in Nat /\ s \in Seq(ToSet(s)) /\ \A i \in 1..Len(s) : s[i] \in ToSet(s)
  BY SequenceHas
<1>2. {i \in 1..Len(s) : s[i] = t} = {}
  BY <1>1
<1>3. Find(s, t) = 0 /\ RFind(s, t) = 0
  BY <1>2 DEF Find, RFind, SelectInSeq, SelectLastInSeq
<1>4. SubSeq(s, 1, Len(s)) = s
  BY <1>1, SubSeqFull
<1>5. UpTo(s, t) = SubSeq(s, 1, Len(s) + 1 - 1)
  BY <1>3 DEF UpTo, Has, Before
<1>6. SubSeq(s, 1, 0 - 1) = <<>>
  BY SubSeqEmpty
<1> QED BY <1>1, <1>3, <1>4, <1>5, <1>6 DEF Before, After

\* The first t, and what it parts.
LEMMA FirstAt ==
  ASSUME NEW a, IsSequence(a), NEW b, IsSequence(b), NEW t, t \notin ToSet(a)
  PROVE  LET s == a \o (<< t >> \o b)
         IN  /\ Find(s, t) = Len(a) + 1 /\ UpTo(s, t) = a
             /\ After(s, Len(a) + 1) = b /\ After(s, Len(a)) = << t >> \o b
<1> DEFINE r == << t >> \o b
           s == a \o r
<1>1. /\ IsSequence(r) /\ Len(b) \in Nat /\ Len(r) = 1 + Len(b) /\ r[1] = t /\ IsSequence(<< t >>)
  <2>1. IsSequence(<< t >>) /\ Len(<< t >>) = 1 /\ << t >>[1] = t
    BY OneHeld
  <2> QED BY <2>1, JoinAt
<1> HIDE DEF r
<1>2. /\ IsSequence(s) /\ Len(a) \in Nat /\ Len(s) = Len(a) + Len(r)
      /\ \A i \in 1..Len(a) : s[i] = a[i]
      /\ \A i \in 1..Len(r) : s[Len(a) + i] = r[i]
  <2>1. IsSequence(a) /\ IsSequence(r)
    BY <1>1
  <2>2. IsSequence(s) /\ Len(a) \in Nat /\ Len(s) = Len(a) + Len(r)
    BY ONLY <2>1, JoinAt
  <2>3. \A i \in 1..Len(a) : s[i] = a[i]
    BY ONLY <2>1, JoinAt
  <2>4. \A i \in 1..Len(r) : s[Len(a) + i] = r[i]
    BY ONLY <2>1, JoinAt
  <2> QED BY <2>2, <2>3, <2>4
<1>3. SubSeq(s, 1, Len(a)) = a /\ SubSeq(s, Len(a) + 1, Len(s)) = r
  BY <1>1, SplitJoin
<1>4. IsSequence(a \o << t >>) /\ Len(a \o << t >>) = Len(a) + 1 /\ s = (a \o << t >>) \o b
  <2>1. Len(<< t >>) = 1
    OBVIOUS
  <2>2. IsSequence(a \o << t >>) /\ Len(a \o << t >>) = Len(a) + 1
    BY <1>1, <2>1, JoinAt
  <2>3. IsSequence(a) /\ IsSequence(b) /\ IsSequence(<< t >>)
    BY <1>1
  <2>4. (a \o << t >>) \o b = a \o (<< t >> \o b)
    BY ONLY <2>3, JoinAssoc
  <2> QED BY <2>2, <2>4 DEF r
<1>5. SubSeq(s, Len(a) + 1 + 1, Len(s)) = b
  BY <1>4, SplitJoin
<1> HIDE DEF s
<1>6. Find(s, t) = Len(a) + 1
  <2> DEFINE S == {i \in 1..Len(s) : s[i] = t}
  <2>1. Len(a) + 1 \in S
    BY <1>1, <1>2
  <2>2. \A i \in 1..Len(a) : a[i] # t
    BY SequenceHas
  <2>3. \A i \in S : Len(a) + 1 <= i
    <3> SUFFICES ASSUME NEW i \in S, ~(Len(a) + 1 <= i) PROVE FALSE
      OBVIOUS
    <3>1. i \in 1..Len(a)
      BY <1>1, <1>2
    <3> QED BY <1>2, <2>2, <3>1
  <2>4. Find(s, t) = IF S # {} THEN Min(S) ELSE 0
    BY DEF Find, SelectInSeq
  <2>5. S \in SUBSET Int
    BY <1>1, <1>2
  <2> HIDE DEF S
  <2>6. Min(S) = Len(a) + 1
    BY <2>1, <2>3, <2>5, MinIs
  <2> QED BY <2>1, <2>4, <2>6
<1>7. UpTo(s, t) = a
  <2>1. Len(a) + 1 - 1 = Len(a) /\ Len(a) + 1 # 0
    BY <1>2
  <2>2. UpTo(s, t) = Before(s, Len(a) + 1)
    BY <1>6, <2>1 DEF UpTo, Has
  <2> QED BY <1>3, <2>1, <2>2 DEF Before
<1> QED BY <1>3, <1>5, <1>6, <1>7 DEF After, s, r

\* The last t, and what it parts.
LEMMA LastAt ==
  ASSUME NEW a, IsSequence(a), NEW b, IsSequence(b), NEW t, t \notin ToSet(b)
  PROVE  LET s == a \o (<< t >> \o b)
         IN  /\ RFind(s, t) = Len(a) + 1 /\ Before(s, Len(a) + 1) = a /\ After(s, Len(a) + 1) = b
<1> DEFINE r == << t >> \o b
           s == a \o r
<1>1. /\ IsSequence(r) /\ Len(b) \in Nat /\ Len(r) = 1 + Len(b) /\ r[1] = t /\ IsSequence(<< t >>)
      /\ \A i \in 1..Len(b) : r[1 + i] = b[i]
  <2>1. IsSequence(<< t >>) /\ Len(<< t >>) = 1 /\ << t >>[1] = t
    BY OneHeld
  <2> QED BY <2>1, JoinAt
<1> HIDE DEF r
<1>2. /\ IsSequence(s) /\ Len(a) \in Nat /\ Len(s) = Len(a) + Len(r)
      /\ \A i \in 1..Len(r) : s[Len(a) + i] = r[i]
  <2>1. IsSequence(r)
    BY <1>1
  <2> QED BY <2>1, JoinAt
<1>3. SubSeq(s, 1, Len(a)) = a
  BY <1>1, SplitJoin
<1>4. IsSequence(a \o << t >>) /\ Len(a \o << t >>) = Len(a) + 1 /\ s = (a \o << t >>) \o b
  <2>1. Len(<< t >>) = 1
    OBVIOUS
  <2>2. IsSequence(a \o << t >>) /\ Len(a \o << t >>) = Len(a) + 1
    BY <1>1, <2>1, JoinAt
  <2>3. IsSequence(a) /\ IsSequence(b) /\ IsSequence(<< t >>)
    BY <1>1
  <2>4. (a \o << t >>) \o b = a \o (<< t >> \o b)
    BY ONLY <2>3, JoinAssoc
  <2> QED BY <2>2, <2>4 DEF r
<1>5. SubSeq(s, Len(a) + 1 + 1, Len(s)) = b
  BY <1>4, SplitJoin
<1> HIDE DEF s
<1>6. RFind(s, t) = Len(a) + 1
  <2> DEFINE S == {i \in 1..Len(s) : s[i] = t}
  <2>1. Len(a) + 1 \in S
    BY <1>1, <1>2
  <2>2. \A i \in 1..Len(b) : b[i] # t
    BY SequenceHas
  <2>3. \A i \in S : i <= Len(a) + 1
    <3> SUFFICES ASSUME NEW i \in S, ~(i <= Len(a) + 1) PROVE FALSE
      OBVIOUS
    <3> DEFINE k == i - Len(a) - 1
    <3>1. k \in 1..Len(b) /\ 1 + k \in 1..Len(r) /\ i = Len(a) + (1 + k)
      BY <1>1, <1>2
    <3> HIDE DEF k
    <3>2. s[i] = b[k]
      BY <1>1, <1>2, <3>1
    <3> QED BY <2>2, <3>1, <3>2
  <2>4. RFind(s, t) = IF S # {} THEN Max(S) ELSE 0
    BY DEF RFind, SelectLastInSeq
  <2>5. S \in SUBSET Int
    BY <1>1, <1>2
  <2> HIDE DEF S
  <2>6. Max(S) = Len(a) + 1
    BY <2>1, <2>3, <2>5, MaxIs
  <2> QED BY <2>1, <2>4, <2>6
<1>7. Before(s, Len(a) + 1) = a
  <2>1. Len(a) + 1 - 1 = Len(a)
    BY <1>2
  <2> QED BY <1>3, <2>1 DEF Before
<1> QED BY <1>5, <1>6, <1>7 DEF After, s, r

LEMMA PrefixJoin ==
  ASSUME NEW a, IsSequence(a), NEW b, IsSequence(b)
  PROVE  IsPrefix(a, a \o b)
<1>1. Len(a) \in Nat /\ Len(b) \in Nat /\ Len(a \o b) = Len(a) + Len(b)
  BY JoinAt
<1>2. SubSeq(a \o b, 1, Len(a)) = a
  BY SplitJoin
<1>3. SubSeq(a, 1, Len(a)) = a
  <2>1. a \in Seq(ToSet(a))
    BY DEF IsSequence
  <2> QED BY <2>1, SubSeqFull
<1> QED BY <1>1, <1>2, <1>3 DEF IsPrefix

\* A path with a component at each end.
Unslashed(p) == IsSequence(p) /\ p # <<>> /\ p[1] # "/" /\ Last(p) # "/"

LEMMA TrimNone ==
  ASSUME NEW p, Unslashed(p)
  PROVE  TrimSlashes(p) = p
<1> DEFINE S == {i \in DOMAIN p : p[i] # "/"}
<1>1. Len(p) \in Nat \ {0} /\ DOMAIN p = 1..Len(p) /\ p \in Seq(ToSet(p)) /\ p[1] # "/" /\ p[Len(p)] # "/"
  BY IsNone, SequenceHas DEF Unslashed, Last
<1>2. S \in SUBSET Int /\ 1 \in S /\ Len(p) \in S /\ \A i \in S : 1 <= i /\ i <= Len(p)
  BY <1>1
<1>3. TrimSlashes(p) = IF S = {} THEN <<>> ELSE SubSeq(p, Min(S), Max(S))
  BY DEF TrimSlashes
<1> HIDE DEF S
<1>4. Min(S) = 1 /\ Max(S) = Len(p)
  BY <1>2, MinIs, MaxIs
<1>5. SubSeq(p, 1, Len(p)) = p
  BY <1>1, SubSeqFull
<1> QED BY <1>2, <1>3, <1>4, <1>5

LEMMA TrimFirst ==
  ASSUME NEW p, Unslashed(p)
  PROVE  TrimSlashes(<< "/" >> \o p) = p
<1> DEFINE s == << "/" >> \o p
           S == {i \in DOMAIN s : s[i] # "/"}
<1>1. Len(p) \in Nat \ {0} /\ IsSequence(p) /\ p[1] # "/" /\ p[Len(p)] # "/"
  BY IsNone DEF Unslashed, Last
<1>2. IsSequence(<< "/" >>) /\ Len(<< "/" >>) = 1 /\ << "/" >>[1] = "/"
  BY OneHeld
<1>3. /\ Len(s) = 1 + Len(p) /\ DOMAIN s = 1..(1 + Len(p)) /\ s[1] = "/"
      /\ \A i \in 1..Len(p) : s[1 + i] = p[i]
  <2>1. /\ Len(s) = Len(<< "/" >>) + Len(p) /\ DOMAIN s = 1..(Len(<< "/" >>) + Len(p))
        /\ \A i \in 1..Len(<< "/" >>) : s[i] = << "/" >>[i]
        /\ \A i \in 1..Len(p) : s[Len(<< "/" >>) + i] = p[i]
    BY <1>1, <1>2, JoinAt
  <2> HIDE DEF s
  <2>2. 1 \in 1..Len(<< "/" >>)
    BY <1>2
  <2> QED BY <1>2, <2>1, <2>2
<1>4. SubSeq(s, 1 + 1, Len(s)) = p
  <2>1. SubSeq(s, Len(<< "/" >>) + 1, Len(s)) = p
    BY <1>1, <1>2, SplitJoin
  <2> HIDE DEF s
  <2> QED BY <1>2, <2>1
<1>5. TrimSlashes(s) = IF S = {} THEN <<>> ELSE SubSeq(s, Min(S), Max(S))
  BY DEF TrimSlashes
<1> HIDE DEF s
<1>6. s[2] = p[1] /\ s[1 + Len(p)] = p[Len(p)]
  <2>1. 1 \in 1..Len(p) /\ Len(p) \in 1..Len(p) /\ 1 + 1 = 2
    BY <1>1
  <2> QED BY <1>3, <2>1
<1>7. S \in SUBSET Int /\ 2 \in S /\ Len(s) \in S /\ \A i \in S : 2 <= i /\ i <= Len(s)
  BY <1>1, <1>3, <1>6
<1> HIDE DEF S
<1>8. Min(S) = 2 /\ Max(S) = Len(s)
  BY <1>7, MinIs, MaxIs
<1>9. SubSeq(s, 2, Len(s)) = p
  BY <1>4
<1>10. TrimSlashes(s) = p
  BY <1>5, <1>7, <1>8, <1>9
<1> QED BY <1>10 DEF s

LEMMA TrimPath ==
  ASSUME NEW p, Unslashed(p), Last(p) # ".git"
  PROVE  trim_repo_path(<< "/" >> \o p) = p
<1>1. StripGit(p) = p
  BY DEF StripGit
<1> QED BY <1>1, TrimFirst, TrimNone DEF trim_repo_path

\* What a remote is built of: no separator ends a part before its time, and no suffix of the
\* name is there to be stripped.
Spelt(host, owner, name) ==
  /\ IsSequence(host) /\ IsSequence(owner) /\ IsSequence(name)
  /\ host # <<>> /\ owner # <<>> /\ name # <<>>
  /\ \A t \in ToSet(host) : t \notin {"/", ":", "@"} \cup CapitalWords
  /\ owner[1] # "/"
  /\ "/" \notin ToSet(name) /\ Last(name) # ".git"
  /\ ".." \notin ToSet(host) \cup ToSet(owner) \cup ToSet(name)

PathOf(owner, name) == owner \o (<< "/" >> \o name)

LEMMA PathIs ==
  ASSUME NEW host, NEW owner, NEW name, Spelt(host, owner, name)
  PROVE  LET p == PathOf(owner, name)
         IN  /\ Unslashed(p) /\ Last(p) # ".git" /\ ".." \notin ToSet(p)
             /\ RFind(p, "/") \in Nat \ {0}
             /\ Before(p, RFind(p, "/")) = owner /\ After(p, RFind(p, "/")) = name
<1> DEFINE r == << "/" >> \o name
           p == owner \o r
<1>1. /\ IsSequence(owner) /\ IsSequence(name) /\ owner # <<>> /\ name # <<>> /\ owner[1] # "/"
      /\ "/" \notin ToSet(name) /\ Last(name) # ".git" /\ ".." \notin ToSet(owner) \cup ToSet(name)
  BY DEF Spelt
<1>2. IsSequence(r) /\ r # <<>> /\ Last(r) = Last(name) /\ ToSet(r) = {"/"} \cup ToSet(name)
  <2>1. IsSequence(<< "/" >>) /\ ToSet(<< "/" >>) = {"/"}
    BY OneHeld
  <2> QED BY <1>1, <2>1, JoinHolds, LastJoin
<1>3. Last(name) \in ToSet(name)
  BY <1>1, FirstIsThere
<1>4. RFind(p, "/") = Len(owner) + 1 /\ Before(p, Len(owner) + 1) = owner /\ After(p, Len(owner) + 1) = name
  BY <1>1, LastAt
<1> HIDE DEF r
<1>5. IsSequence(p) /\ ToSet(p) = ToSet(owner) \cup ToSet(r)
  BY <1>1, <1>2, JoinHolds
<1>6. p # <<>> /\ Last(p) = Last(r)
  BY <1>1, <1>2, LastJoin
<1>7. p[1] = owner[1] /\ Len(owner) \in Nat
  <2>1. Len(owner) \in Nat \ {0}
    BY <1>1, IsNone
  <2>2. \A i \in 1..Len(owner) : p[i] = owner[i]
    BY <1>1, <1>2, JoinAt
  <2> HIDE DEF p
  <2> QED BY <2>1, <2>2
<1> HIDE DEF p
<1>8. Unslashed(p) /\ Last(p) # ".git" /\ ".." \notin ToSet(p)
  BY <1>1, <1>2, <1>3, <1>5, <1>6, <1>7 DEF Unslashed
<1>9. RFind(p, "/") \in Nat \ {0} /\ Before(p, RFind(p, "/")) = owner /\ After(p, RFind(p, "/")) = name
  BY <1>4, <1>7
<1> QED BY <1>8, <1>9 DEF p, r, PathOf

LEMMA LowerKeeps ==
  ASSUME NEW s, IsSequence(s), \A t \in ToSet(s) : t \notin CapitalWords
  PROVE  Lower(s) = s
<1>1. s = [i \in DOMAIN s |-> s[i]] /\ \A i \in DOMAIN s : s[i] \in ToSet(s)
  <2>1. Len(s) \in Nat /\ DOMAIN s = 1..Len(s) /\ s \in Seq(ToSet(s)) /\ \A i \in 1..Len(s) : s[i] \in ToSet(s)
    BY SequenceHas
  <2> QED BY <2>1
<1> QED BY <1>1 DEF Lower

-----------------------------------------------------------------------------
\* scheme://authority/path
AsUrl(scheme, authority, path) ==
  << scheme >> \o (<< ":" >> \o (<< "/", "/" >> \o (authority \o (<< "/" >> \o path))))

LEMMA RemoteIs ==
  ASSUME NEW scheme, NEW authority, IsSequence(authority), NEW owner, IsSequence(owner), NEW name, IsSequence(name)
  PROVE  Remote(<< scheme >>, authority, owner, name) = AsUrl(scheme, authority, PathOf(owner, name))
<1> DEFINE c == << ":" >>
           d == << "/", "/" >>
           e == << "/" >>
           h == << scheme >>
<1>1. IsSequence(c) /\ IsSequence(d) /\ IsSequence(e) /\ IsSequence(h)
  BY OneHeld, TwoHeld
<1>2. << ":", "/", "/" >> = c \o d
  OBVIOUS
<1> HIDE DEF c, d, e, h
<1>3. \A x, y : IsSequence(x) /\ IsSequence(y) => IsSequence(x \o y)
  BY JoinHolds
<1> DEFINE r1 == e \o name
           r2 == owner \o r1
           r3 == e \o r2
           r4 == authority \o r3
           s1 == h \o (c \o d)
           s2 == s1 \o authority
           s3 == s2 \o e
           s4 == s3 \o owner
           s5 == s4 \o e
<1>5. IsSequence(r1) /\ IsSequence(r2) /\ IsSequence(r3) /\ IsSequence(r4)
  BY <1>1, <1>3
<1>6. IsSequence(s1) /\ IsSequence(s2) /\ IsSequence(s3) /\ IsSequence(s4) /\ IsSequence(s5)
  BY <1>1, <1>3
<1>12. Remote(h, authority, owner, name) = s5 \o name
  BY <1>2 DEF Remote, e
<1>13. AsUrl(scheme, authority, PathOf(owner, name)) = h \o (c \o (d \o r4))
  BY DEF AsUrl, PathOf, h, c, d, e
<1> HIDE DEF r1, r2, r3, r4, s1, s2, s3, s4, s5
<1>7. s5 \o name = s4 \o r1
  <2>1. IsSequence(s4) /\ IsSequence(e) /\ IsSequence(name)
    BY <1>1, <1>6
  <2>2. (s4 \o e) \o name = s4 \o (e \o name)
    BY ONLY <2>1, JoinAssoc
  <2> QED BY <2>2 DEF s5, r1
<1>8. s4 \o r1 = s3 \o r2
  <2>1. IsSequence(s3) /\ IsSequence(owner) /\ IsSequence(r1)
    BY <1>5, <1>6
  <2>2. (s3 \o owner) \o r1 = s3 \o (owner \o r1)
    BY ONLY <2>1, JoinAssoc
  <2> QED BY <2>2 DEF s4, r2
<1>9. s3 \o r2 = s2 \o r3
  <2>1. IsSequence(s2) /\ IsSequence(e) /\ IsSequence(r2)
    BY <1>1, <1>5, <1>6
  <2>2. (s2 \o e) \o r2 = s2 \o (e \o r2)
    BY ONLY <2>1, JoinAssoc
  <2> QED BY <2>2 DEF s3, r3
<1>10. s2 \o r3 = s1 \o r4
  <2>1. IsSequence(s1) /\ IsSequence(authority) /\ IsSequence(r3)
    BY <1>5, <1>6
  <2>2. (s1 \o authority) \o r3 = s1 \o (authority \o r3)
    BY ONLY <2>1, JoinAssoc
  <2> QED BY <2>2 DEF s2, r4
<1>11. s1 \o r4 = h \o (c \o (d \o r4))
  <2>1. IsSequence(c) /\ IsSequence(d) /\ IsSequence(h) /\ IsSequence(r4)
    BY <1>1, <1>5
  <2>2. (c \o d) \o r4 = c \o (d \o r4)
    BY ONLY <2>1, JoinAssoc
  <2> DEFINE g == c \o d
  <2>3. IsSequence(g)
    BY <2>1, JoinHolds
  <2> HIDE DEF g
  <2>4. IsSequence(h) /\ IsSequence(g) /\ IsSequence(r4)
    BY <2>1, <2>3
  <2>5. (h \o g) \o r4 = h \o (g \o r4)
    BY ONLY <2>4, JoinAssoc
  <2> QED BY <2>2, <2>5 DEF s1, g
<1>14. Remote(h, authority, owner, name) = AsUrl(scheme, authority, PathOf(owner, name))
  BY <1>7, <1>8, <1>9, <1>10, <1>11, <1>12, <1>13
<1> QED BY <1>14 DEF h

\* What is read of a text before it is taken for a URL, and where its authority starts.
IsUrl(s, scheme, authority, path) ==
  /\ IsSequence(s) /\ s # <<>> /\ s[1] = scheme
  /\ ToSet(s) = {scheme, ":", "/"} \cup ToSet(authority) \cup ToSet(path)
  /\ Find(s, ":") = 2
  /\ After(s, 4) = authority \o (<< "/" >> \o path)
  /\ has_scheme(s) /\ ~is_codecommit_input(s)

LEMMA UrlIsNormal ==
  ASSUME NEW scheme, scheme \in {"https", "ssh"}, NEW authority, IsSequence(authority), NEW path, IsSequence(path)
  PROVE  IsUrl(AsUrl(scheme, authority, path), scheme, authority, path)
<1> DEFINE h == << scheme >>
           c == << ":" >>
           d == << "/", "/" >>
           e == << "/" >>
           r1 == e \o path
           r2 == authority \o r1
           r3 == d \o r2
           r4 == c \o r3
           s == h \o r4
<1>1. /\ IsSequence(c) /\ IsSequence(d) /\ IsSequence(e) /\ IsSequence(h)
      /\ ToSet(c) = {":"} /\ ToSet(d) = {"/"} /\ ToSet(e) = {"/"} /\ ToSet(h) = {scheme}
      /\ Len(c) = 1 /\ Len(d) = 2 /\ Len(h) = 1 /\ h[1] = scheme
  BY OneHeld, TwoHeld
<1> HIDE DEF c, d, e, h
<1>2. IsSequence(r1) /\ ToSet(r1) = {"/"} \cup ToSet(path)
  BY <1>1, JoinHolds
<1> HIDE DEF r1
<1>3. IsSequence(r2) /\ ToSet(r2) = ToSet(authority) \cup ToSet(r1)
  BY <1>2, JoinHolds
<1> HIDE DEF r2
<1>4. IsSequence(r3) /\ ToSet(r3) = {"/"} \cup ToSet(r2)
  BY <1>1, <1>3, JoinHolds
<1>5. IsPrefix(d, r3)
  BY <1>1, <1>3, PrefixJoin
<1> HIDE DEF r3
<1>6. IsSequence(r4) /\ ToSet(r4) = {":"} \cup ToSet(r3)
  BY <1>1, <1>4, JoinHolds
<1>7. Find(s, ":") = Len(h) + 1 /\ After(s, Len(h) + 1) = r3
  <2>1. ":" \notin ToSet(h)
    BY <1>1
  <2> QED BY <1>1, <1>4, <2>1, FirstAt DEF c
<1>8. Find(s, ":") = 2 /\ After(s, 2) = r3
  <2> HIDE DEF s
  <2>1. Len(h) + 1 = 2
    BY <1>1
  <2> QED BY <1>7, <2>1
<1>9. After(s, 4) = r2
  <2> DEFINE p == (h \o c) \o d
  <2>1. /\ IsSequence(h \o c) /\ Len(h \o c) = Len(h) + Len(c)
    BY <1>1, JoinAt
  <2>2. IsSequence(p) /\ Len(p) = Len(h \o c) + Len(d)
    BY <1>1, <2>1, JoinAt
  <2>3. s = p \o r2
    <3> DEFINE q == h \o c
    <3>1. IsSequence(h) /\ IsSequence(c) /\ IsSequence(r3)
      BY <1>1, <1>4
    <3>2. (h \o c) \o r3 = h \o (c \o r3)
      BY ONLY <3>1, JoinAssoc
    <3>3. IsSequence(q) /\ IsSequence(d) /\ IsSequence(r2)
      BY <1>1, <1>3, <2>1
    <3> HIDE DEF q
    <3>4. (q \o d) \o r2 = q \o (d \o r2)
      BY ONLY <3>3, JoinAssoc
    <3>5. q \o r3 = (q \o d) \o r2
      BY <3>4 DEF r3
    <3> QED BY <3>2, <3>5 DEF q
  <2> HIDE DEF p, s
  <2>4. SubSeq(p \o r2, Len(p) + 1, Len(p \o r2)) = r2
    BY <1>3, <2>2, SplitJoin
  <2>5. Len(p) + 1 = 4 + 1
    BY <1>1, <2>1, <2>2
  <2> QED BY <2>3, <2>4, <2>5 DEF After
<1> HIDE DEF r4
<1>10. IsSequence(s) /\ ToSet(s) = {scheme} \cup ToSet(r4)
  BY <1>1, <1>6, JoinHolds
<1>11. s # <<>> /\ s[1] = scheme
  <2>1. Len(s) = Len(h) + Len(r4) /\ Len(r4) \in Nat /\ \A i \in 1..Len(h) : s[i] = h[i]
    <3>1. IsSequence(h) /\ IsSequence(r4)
      BY <1>1, <1>6
    <3> QED BY <3>1, JoinAt
  <2> HIDE DEF s
  <2>2. Len(s) # 0 /\ s[1] = scheme
    BY <1>1, <2>1
  <2> QED BY <1>10, <2>2, IsNone
<1>12. has_scheme(s)
  <2> HIDE DEF s
  <2>1. s[1] \notin Punctuation \cup {"/"}
    BY <1>11 DEF Punctuation
  <2>2. \A i \in 1..(2 - 1) : i = 1
    OBVIOUS
  <2> QED BY <1>5, <1>8, <2>1, <2>2 DEF has_scheme, d
<1>13. ~is_codecommit_input(s)
  <2> HIDE DEF s
  <2>1. SUFFICES ASSUME is_codecommit_input(s) PROVE FALSE
    OBVIOUS
  <2>2. IsPrefix(<< "codecommit", ":" >>, s)
    BY <2>1 DEF is_codecommit_input, parse_codecommit
  <2>3. 2 <= Len(s) /\ SubSeq(<< "codecommit", ":" >>, 1, 2) = SubSeq(s, 1, 2)
    <3>1. Len(<< "codecommit", ":" >>) = 2
      OBVIOUS
    <3> QED BY <2>2, <3>1 DEF IsPrefix
  <2>4. SubSeq(<< "codecommit", ":" >>, 1, 2)[1] = "codecommit"
    OBVIOUS
  <2>5. SubSeq(s, 1, 2)[1] = s[1]
    <3>1. s \in Seq(ToSet(s))
      BY <1>10 DEF IsSequence
    <3> QED BY <2>3, <3>1
  <2> QED BY <1>11, <2>3, <2>4, <2>5
<1> HIDE DEF s
<1>14. ToSet(s) = {scheme, ":", "/"} \cup ToSet(authority) \cup ToSet(path)
  BY <1>2, <1>3, <1>4, <1>6, <1>10
<1>15. AsUrl(scheme, authority, path) = s /\ r2 = authority \o (<< "/" >> \o path)
  BY DEF AsUrl, s, r4, r3, r2, r1, h, c, d, e
<1> HIDE DEF r2
<1>16. After(s, 4) = authority \o (<< "/" >> \o path)
  BY <1>9, <1>15
<1>17. IsUrl(s, scheme, authority, path)
  BY <1>8, <1>10, <1>11, <1>12, <1>13, <1>14, <1>16 DEF IsUrl
<1> QED BY <1>15, <1>17

\* [user@]host
Authority(user, host) == IF user = <<>> THEN host ELSE user \o (<< "@" >> \o host)

\* What a user may be spelt with: an authority ends at the first slash.
SpeltUser(user) == IsSequence(user) /\ "/" \notin ToSet(user) /\ ".." \notin ToSet(user)

LEMMA AuthorityIs ==
  ASSUME NEW user, SpeltUser(user), NEW host, IsSequence(host), ToSet(host) \cap {"/", ":", "@", ".."} = {}
  PROVE  LET a == Authority(user, host)
         IN  /\ IsSequence(a) /\ "/" \notin ToSet(a) /\ ".." \notin ToSet(a)
             /\ Before(a, RFind(a, "@")) = user /\ After(a, RFind(a, "@")) = host
             /\ UpTo(host, ":") = host
<1>1. IsSequence(user) /\ "/" \notin ToSet(user) /\ ".." \notin ToSet(user)
  BY DEF SpeltUser
<1>2. "@" \notin ToSet(host) /\ ":" \notin ToSet(host) /\ "/" \notin ToSet(host) /\ ".." \notin ToSet(host)
  OBVIOUS
<1>3. UpTo(host, ":") = host
  BY <1>2, NotThere
<1>4. CASE user = <<>>
  <2>1. RFind(host, "@") = 0 /\ Before(host, 0) = <<>> /\ After(host, 0) = host
    BY <1>2, NotThere
  <2>2. Authority(user, host) = host
    BY <1>4 DEF Authority
  <2> QED BY <1>2, <1>3, <1>4, <2>1, <2>2
<1>5. CASE user # <<>>
  <2> DEFINE r == << "@" >> \o host
             a == user \o r
  <2>1. IsSequence(r) /\ ToSet(r) = {"@"} \cup ToSet(host)
    <3>1. IsSequence(<< "@" >>) /\ ToSet(<< "@" >>) = {"@"}
      BY OneHeld
    <3> QED BY <3>1, JoinHolds
  <2>2. RFind(a, "@") = Len(user) + 1 /\ Before(a, Len(user) + 1) = user /\ After(a, Len(user) + 1) = host
    BY <1>1, <1>2, LastAt
  <2> HIDE DEF r
  <2>3. IsSequence(a) /\ ToSet(a) = ToSet(user) \cup ToSet(r)
    BY <1>1, <2>1, JoinHolds
  <2> HIDE DEF a
  <2>4. "/" \notin ToSet(a) /\ ".." \notin ToSet(a)
    BY <1>1, <1>2, <2>1, <2>3
  <2>5. Authority(user, host) = a
    BY <1>5 DEF Authority, a, r
  <2> QED BY <1>3, <2>2, <2>3, <2>4, <2>5
<1> QED BY <1>4, <1>5

LEMMA UrlParses ==
  ASSUME NEW scheme, scheme \in {"https", "ssh"}, NEW user, SpeltUser(user),
         NEW host, IsSequence(host), ToSet(host) \cap {"/", ":", "@", ".."} = {},
         NEW path, IsSequence(path)
  PROVE  gix_parse(AsUrl(scheme, Authority(user, host), path))
           = [scheme |-> scheme, user |-> user, host |-> host, path |-> << "/" >> \o path]
<1> DEFINE a == Authority(user, host)
           s == AsUrl(scheme, a, path)
           rest == a \o (<< "/" >> \o path)
<1>1. /\ IsSequence(a) /\ "/" \notin ToSet(a)
      /\ Before(a, RFind(a, "@")) = user /\ After(a, RFind(a, "@")) = host /\ UpTo(host, ":") = host
  BY AuthorityIs
<1> HIDE DEF a
<1>2. Find(s, ":") = 2 /\ s[1] = scheme /\ After(s, 4) = rest
  <2>1. IsUrl(s, scheme, a, path)
    BY <1>1, UrlIsNormal
  <2> HIDE DEF s
  <2> QED BY <2>1 DEF IsUrl
<1>3. Find(rest, "/") = Len(a) + 1 /\ UpTo(rest, "/") = a /\ After(rest, Len(a)) = << "/" >> \o path
  BY <1>1, FirstAt
<1>4. Len(a) \in Nat
  BY <1>1, SequenceHas
<1> HIDE DEF s, rest
<1>5. Find(rest, "/") # 0 /\ Find(rest, "/") - 1 = Len(a)
  BY <1>3, <1>4
<1>6. gix_parse(s) = [scheme |-> s[1], user |-> Before(a, RFind(a, "@")),
                      host |-> UpTo(After(a, RFind(a, "@")), ":"), path |-> After(rest, Len(a))]
  <2>1. After(s, 2 + 2) = rest
    BY <1>2
  <2> QED BY <1>2, <1>3, <1>5, <2>1 DEF gix_parse
<1>7. gix_parse(s) = [scheme |-> scheme, user |-> user, host |-> host, path |-> << "/" >> \o path]
  BY <1>1, <1>2, <1>3, <1>6
<1> QED BY <1>7 DEF s, a

LEMMA UrlReads ==
  ASSUME NEW scheme, scheme \in {"https", "ssh"}, NEW user, SpeltUser(user),
         NEW host, NEW owner, NEW name, Spelt(host, owner, name),
         NEW me, NEW completeUser, NEW aws
  PROVE  LET s == AsUrl(scheme, Authority(user, host), PathOf(owner, name))
         IN  from_input(s, me, completeUser, aws)
               = build_repo(s, IF user = <<>> THEN << "git" >> ELSE user, host, owner, name)
<1> DEFINE a == Authority(user, host)
           p == PathOf(owner, name)
           s == AsUrl(scheme, a, p)
           u == gix_parse(s)
<1>1. /\ IsSequence(host) /\ host # <<>> /\ ToSet(host) \cap {"/", ":", "@", ".."} = {}
      /\ \A t \in ToSet(host) : t \notin CapitalWords
  BY DEF Spelt
<1>2. IsSequence(a) /\ ".." \notin ToSet(a)
  BY <1>1, AuthorityIs
<1>3. /\ Unslashed(p) /\ Last(p) # ".git" /\ ".." \notin ToSet(p) /\ IsSequence(p) /\ p # <<>>
      /\ RFind(p, "/") # 0
      /\ Before(p, RFind(p, "/")) = owner /\ After(p, RFind(p, "/")) = name
  BY PathIs DEF Unslashed
<1>4. u = [scheme |-> scheme, user |-> user, host |-> host, path |-> << "/" >> \o p]
  BY <1>1, <1>3, UrlParses
<1> HIDE DEF a, p
<1>5. /\ IsSequence(s) /\ s # <<>> /\ ToSet(s) = {scheme, ":", "/"} \cup ToSet(a) \cup ToSet(p)
      /\ has_scheme(s) /\ ~is_codecommit_input(s)
  <2>1. IsUrl(s, scheme, a, p)
    BY <1>2, <1>3, UrlIsNormal
  <2> HIDE DEF s, u
  <2> QED BY <2>1 DEF IsUrl
<1> HIDE DEF s, u
<1>6. ~has_traversal(s)
  <2>1. ".." \notin ToSet(s)
    BY <1>2, <1>3, <1>5
  <2>2. \A i \in DOMAIN s : s[i] \in ToSet(s)
    BY <1>5, SequenceHas
  <2> QED BY <2>1, <2>2 DEF has_traversal
<1>7. normalize_to_parseable(s) = s
  BY <1>5 DEF normalize_to_parseable
<1>8. from_input(s, me, completeUser, aws) = from_url(s, u)
  BY <1>5, <1>6, <1>7 DEF from_input, u
<1>9. u.host = host /\ u.user = user /\ u.path = << "/" >> \o p
  BY <1>4
<1>10. from_url(s, u) = from_path(s, u, p)
  <2>1. trim_repo_path(u.path) = p
    BY <1>3, <1>9, TrimPath
  <2> QED BY <1>1, <1>9, <2>1 DEF from_url
<1>11. from_path(s, u, p) = build_repo(s, IF user = <<>> THEN << "git" >> ELSE user, host, owner, name)
  <2>1. Lower(host) = host
    BY <1>1, LowerKeeps
  <2> QED BY <1>3, <1>9, <2>1 DEF from_path
<1>12. from_input(s, me, completeUser, aws) = build_repo(s, IF user = <<>> THEN << "git" >> ELSE user, host, owner, name)
  BY <1>8, <1>10, <1>11
<1> QED BY <1>12 DEF s, a, p

\* A repository whose parts leave no doubt where one ends and the next begins.
WellSpelt(repo) ==
  \E user, host, owner, name :
    /\ SpeltUser(user) /\ user # <<>> /\ Spelt(host, owner, name)
    /\ repo = build_repo(repo.original, user, host, owner, name)

\* Either remote of repo, given back to scap, names the same host, owner and name, has the same
\* https remote and leads to the same path.  The ssh remote keeps its user, too.
NamesItself(repo, me, completeUser, aws) ==
  LET again(remote) == from_input(remote, me, completeUser, aws)
  IN  /\ again(repo.ssh_url) = [repo EXCEPT !.original = repo.ssh_url]
      /\ again(repo.https_url) = build_repo(repo.https_url, << "git" >>, repo.host, repo.owner, repo.name)
      /\ \A remote \in {repo.https_url, repo.ssh_url} :
           /\ again(remote).err = None /\ again(remote).https_url = repo.https_url
           /\ \A bare : rel_path(again(remote), bare) = rel_path(repo, bare)

\* What scap writes it can read: the remotes of a well-spelt repository, whoever the user is
\* (url.rs: from_input, build_repo; path.rs: rel_path).
THEOREM RemotesLeadBack ==
  ASSUME NEW repo, WellSpelt(repo), NEW me, NEW completeUser, NEW aws
  PROVE  NamesItself(repo, me, completeUser, aws)
<1> DEFINE again(remote) == from_input(remote, me, completeUser, aws)
           ssh == repo.ssh_url
           https == repo.https_url
<1>0. PICK user, host, owner, name :
        /\ SpeltUser(user) /\ user # <<>> /\ Spelt(host, owner, name)
        /\ repo = build_repo(repo.original, user, host, owner, name)
  BY DEF WellSpelt
<1>1. IsSequence(host) /\ IsSequence(owner) /\ IsSequence(name) /\ IsSequence(user)
  BY <1>0 DEF Spelt, SpeltUser
<1>2. /\ repo.host = host /\ repo.owner = owner /\ repo.name = name /\ repo.err = None
      /\ https = Remote(<< "https" >>, host, owner, name)
      /\ ssh = Remote(<< "ssh" >>, user \o << "@" >> \o host, owner, name)
  BY <1>0 DEF build_repo, Repo
<1>3. https = AsUrl("https", Authority(<<>>, host), PathOf(owner, name))
  BY <1>1, <1>2, RemoteIs DEF Authority
<1>4. ssh = AsUrl("ssh", Authority(user, host), PathOf(owner, name))
  <2> DEFINE at == << "@" >>
             r == at \o host
             l == user \o at
  <2>1. IsSequence(at) /\ IsSequence(user) /\ IsSequence(host)
    BY <1>1, OneHeld
  <2>2. IsSequence(l \o host)
    BY <2>1, JoinHolds
  <2> HIDE DEF at
  <2>3. (user \o at) \o host = user \o (at \o host)
    BY ONLY <2>1, JoinAssoc
  <2>4. l \o host = Authority(user, host)
    BY <1>0, <2>3 DEF Authority, at
  <2>5. ssh = Remote(<< "ssh" >>, l \o host, owner, name)
    BY <1>2 DEF at
  <2> HIDE DEF l
  <2>6. Remote(<< "ssh" >>, l \o host, owner, name) = AsUrl("ssh", l \o host, PathOf(owner, name))
    BY <1>1, <2>2, RemoteIs
  <2> QED BY <2>4, <2>5, <2>6
<1>5. SpeltUser(<<>>)
  BY NoneHeld DEF SpeltUser
<1> HIDE DEF ssh, https
<1>6. again(https) = build_repo(https, << "git" >>, host, owner, name)
  BY <1>0, <1>3, <1>5, UrlReads
<1>7. again(ssh) = build_repo(ssh, user, host, owner, name)
  BY <1>0, <1>4, UrlReads
<1>8. build_repo(ssh, user, host, owner, name) = [repo EXCEPT !.original = ssh]
  BY <1>0 DEF build_repo, Repo
<1> HIDE DEF again
<1>9. ASSUME NEW remote \in {https, ssh}
      PROVE  /\ again(remote).err = None /\ again(remote).https_url = https
             /\ again(remote).host = host /\ again(remote).owner = owner /\ again(remote).name = name
  <2>1. \A o, v : /\ build_repo(o, v, host, owner, name).err = None
                  /\ build_repo(o, v, host, owner, name).https_url = Remote(<< "https" >>, host, owner, name)
                  /\ build_repo(o, v, host, owner, name).host = host
                  /\ build_repo(o, v, host, owner, name).owner = owner
                  /\ build_repo(o, v, host, owner, name).name = name
    BY DEF build_repo, Repo
  <2> QED BY <1>2, <1>6, <1>7, <2>1
<1>10. ASSUME NEW remote \in {https, ssh}, NEW bare
       PROVE  rel_path(again(remote), bare) = rel_path(repo, bare)
  BY <1>2, <1>9 DEF rel_path
<1> QED BY <1>2, <1>6, <1>7, <1>8, <1>9, <1>10 DEF NamesItself, again, ssh, https

-----------------------------------------------------------------------------
\* What the process reads in an input.
Meant(input) == from_input(input, snap.user, snap.complete_user, env.aws)

\* The remote a well-spelt target was resolved with, given to scap again, leads to where the
\* target was put.
RemoteLeadsBack ==
  \A d \in went : WellSpelt(Meant(d.input)) =>
    d.dest[2] = rel_path(from_input(d.remote, None, FALSE, env.aws), req.bare)

\* One of the repository's two remotes, unless it has no host.
RemoteOf(repo, remote) == repo.host # <<>> => remote \in {repo.https_url, repo.ssh_url}

HandInv == \A w \in Workers : pc[w] \in {"resolve", "slot"} =>
  job[w].repo = Meant(job[w].input) /\ RemoteOf(job[w].repo, Asked(w))

PlaceInv == \A d \in went : RemoteOf(Meant(d.input), d.remote) /\ d.dest[2] = rel_path(Meant(d.input), req.bare)

CommandInv == "bare" \in DOMAIN req /\ "cmd" \in DOMAIN req

PlacedInv == CommandInv /\ HandInv /\ PlaceInv

LEMMA InitPlaced == Init => PlacedInv
<1> SUFFICES ASSUME Init PROVE PlacedInv
  OBVIOUS
<1>1. CommandInv
  BY StartsAssumption DEF Init, CommandInv
<1>2. HandInv /\ PlaceInv
  BY DEF Init, HandInv, PlaceInv
<1> QED BY <1>1, <1>2 DEF PlacedInv

\* A step that takes one thread's target out of its hand, if anything.
LEMMA HandsKept ==
  ASSUME PlacedInv, NEW w \in Workers, MemoInv, LetsGo(w), UNCHANGED << env, snap >>
  PROVE  HandInv'
BY DEF PlacedInv, HandInv, LetsGo, Meant, Asked, MemoInv, Shapes

LEMMA DecidePlaces ==
  ASSUME PlacedInv, MemoInv, NEW w \in Workers, pc[w] \in {"resolve", "slot"}, NEW answer, Decide(w, answer),
         UNCHANGED << env, snap >>
  PROVE  PlacedInv'
<1>1. LetsGo(w)
  BY DecideLetsGo
<1>2. HandInv'
  BY <1>1, HandsKept
<1>3. CASE AfterError(w) /\ UNCHANGED went
  BY <1>2, <1>3 DEF AfterError, PlacedInv, PlaceInv, CommandInv, Meant
<1>4. ASSUME NEW root,
             UNCHANGED req,
             went' = went \cup {[input |-> job[w].input, remote |-> Asked(w), fresh |-> edits = 0,
                                 dest |-> dest_path(root, job[w].repo, req.bare)]}
      PROVE  PlacedInv'
  <2>1. job[w].repo = Meant(job[w].input) /\ RemoteOf(job[w].repo, Asked(w))
    BY DEF PlacedInv, HandInv
  <2>2. dest_path(root, job[w].repo, req.bare)[2] = rel_path(job[w].repo, req.bare)
    BY DEF dest_path
  <2>3. \A d \in went' : RemoteOf(Meant(d.input), d.remote) /\ d.dest[2] = rel_path(Meant(d.input), req.bare)
    BY <1>4, <2>1, <2>2 DEF PlacedInv, PlaceInv
  <2>4. PlaceInv'
    BY <1>4, <2>3 DEF PlaceInv, Meant
  <2> QED BY <1>2, <1>4, <2>4 DEF PlacedInv, CommandInv
<1> QED BY <1>3, <1>4 DEF Decide

LEMMA TakePlaces ==
  ASSUME PlacedInv, MemoInv, NEW w \in Workers, Take(w)
  PROVE  PlacedInv'
<1> DEFINE repo == from_input(Head(todo), snap.user, snap.complete_user, env.aws)
           remote == IF req.cmd = "get" /\ repo.host = <<>> THEN repo.original
                     ELSE IF req.ssh THEN repo.ssh_url ELSE repo.https_url
<1>1. UNCHANGED << env, snap, went >>
  BY DEF Take
<1>2. CASE repo.err # None
  <2>1. AfterError(w)
    BY <1>2 DEF Take
  <2>2. HandInv'
    BY <1>1, <2>1, ErrorLetsGo, HandsKept
  <2> QED BY <1>1, <2>1, <2>2 DEF AfterError, PlacedInv, PlaceInv, CommandInv, Meant
<1>3. CASE repo.err = None
  <2>1. /\ pc' = [pc EXCEPT ![w] = "resolve"] /\ UNCHANGED req
        /\ job' = [job EXCEPT ![w] = [input |-> Head(todo), repo |-> repo, remote |-> remote]]
    BY <1>3 DEF Take
  <2>2. RemoteOf(repo, remote) /\ repo = Meant(Head(todo))
    BY DEF RemoteOf, Meant
  <2> HIDE DEF repo, remote
  <2>3. HandInv'
    <3> SUFFICES ASSUME NEW v \in Workers, pc'[v] \in {"resolve", "slot"}
                 PROVE  job'[v].repo = Meant(job'[v].input) /\ RemoteOf(job'[v].repo, job'[v].remote)
      BY <1>1 DEF HandInv, Asked, Meant
    <3>1. CASE v = w
      BY <2>1, <2>2, <3>1 DEF MemoInv, Shapes
    <3>2. CASE v # w
      BY <2>1, <3>2 DEF MemoInv, Shapes, PlacedInv, HandInv, Asked
    <3> QED BY <3>1, <3>2
  <2> QED BY <1>1, <2>1, <2>3 DEF PlacedInv, PlaceInv, CommandInv, Meant
<1> QED BY <1>2, <1>3

LEMMA NextPlaced == MemoInv /\ PlacedInv /\ [Next]_vars => PlacedInv'
<1> SUFFICES ASSUME MemoInv, PlacedInv, [Next]_vars PROVE PlacedInv'
  OBVIOUS
<1>1. CASE Load
  <2>1. went' = {} /\ UNCHANGED << env, req, job >> /\ \A w \in Workers : pc'[w] \notin {"resolve", "slot"}
    BY <1>1, NotLoadedFails DEF Load, MemoInv, NobodyBefore
  <2> QED BY <2>1 DEF PlacedInv, HandInv, PlaceInv, CommandInv
<1>2. CASE ExecLook
  <2>1. /\ UNCHANGED << env, snap, job, went >> /\ \A w \in Workers : pc'[w] \notin {"resolve", "slot"}
        /\ req' = [req EXCEPT !.look = FALSE, !.parallel = FALSE]
    BY <1>2 DEF ExecLook
  <2> QED BY <2>1 DEF PlacedInv, HandInv, PlaceInv, CommandInv, Meant
<1>3. CASE Edit
  BY <1>3 DEF Edit, PlacedInv, HandInv, PlaceInv, CommandInv, Meant, Asked
<1>4. ASSUME NEW w \in Workers, Work(w) PROVE PlacedInv'
  <2>1. CASE Take(w)
    BY <2>1, TakePlaces
  <2>2. CASE Resolve(w)
    BY <2>2, DecidePlaces DEF Resolve
  <2>3. CASE LockSlot(w)
    BY <2>3 DEF LockSlot, PlacedInv, HandInv, PlaceInv, CommandInv, Meant, Asked, MemoInv, Shapes
  <2>4. CASE Remembered(w)
    BY <2>4, DecidePlaces DEF Remembered
  <2>5. CASE Answered(w)
    BY <2>5, DecidePlaces DEF Answered, MustSpawn
  <2>6. CASE SpawnFails(w)
    <3>1. AfterError(w) /\ UNCHANGED << env, snap, went >>
      BY <2>6 DEF SpawnFails
    <3>2. HandInv'
      BY <3>1, ErrorLetsGo, HandsKept
    <3> QED BY <3>1, <3>2 DEF AfterError, PlacedInv, PlaceInv, CommandInv, Meant
  <2>7. CASE Leave(w)
    BY <2>7 DEF Leave, PlacedInv, HandInv, PlaceInv, CommandInv, Meant, Asked, MemoInv, Shapes
  <2> QED BY <1>4, <2>1, <2>2, <2>3, <2>4, <2>5, <2>6, <2>7 DEF Work
<1>5. CASE UNCHANGED vars
  BY <1>5 DEF vars, PlacedInv, HandInv, PlaceInv, CommandInv, Meant, Asked
<1> QED
  BY <1>1, <1>2, <1>3, <1>4, <1>5 DEF Next, Ended

\* Wherever scap puts a target, by whatever spelling and under whatever configuration, the remote
\* it resolved leads to the same place below its root, if the repository is well spelt
\* (get.rs: process_target, rm.rs, create.rs).
THEOREM RemotesAreStable == Spec => []RemoteLeadsBack
<1>1. PlacedInv => RemoteLeadsBack
  <2> SUFFICES ASSUME PlacedInv, NEW d \in went, WellSpelt(Meant(d.input))
               PROVE  d.dest[2] = rel_path(from_input(d.remote, None, FALSE, env.aws), req.bare)
    BY DEF RemoteLeadsBack
  <2> DEFINE repo == Meant(d.input)
  <2>1. RemoteOf(repo, d.remote) /\ d.dest[2] = rel_path(repo, req.bare)
    BY DEF PlacedInv, PlaceInv
  <2> HIDE DEF repo
  <2>2. repo.host # <<>>
    BY DEF WellSpelt, build_repo, Repo, Spelt, repo
  <2>3. WellSpelt(repo) /\ d.remote \in {repo.https_url, repo.ssh_url}
    BY <2>1, <2>2 DEF RemoteOf, repo
  <2>4. NamesItself(repo, None, FALSE, env.aws)
    BY <2>3, RemotesLeadBack
  <2> QED BY <2>1, <2>3, <2>4 DEF NamesItself
<1>2. Spec => []PlacedInv
  <2>1. Init => PlacedInv
    BY InitPlaced
  <2>2. MemoInv /\ PlacedInv /\ [Next]_vars => PlacedInv'
    BY NextPlaced
  <2>3. Spec => []MemoInv
    BY Invariance
  <2> QED BY <2>1, <2>2, <2>3, PTL DEF Spec
<1> QED BY <1>1, <1>2, PTL
=============================================================================
