----------------------------- MODULE IndexProofs -----------------------------
(***************************************************************************)
(* Proofs about Index, for any tree of directories, any number of runs,    *)
(* any exclusions, failures and changes.                                   *)
(*                                                                         *)
(* What carries them is one fact about time: a change below the root moves *)
(* the mtime of a directory to the present, and hides from a reader no     *)
(* directory but those below it.  As long as no directory on the way from  *)
(* the root down to d has an mtime of s or later, nothing about d has      *)
(* changed since s (EditSpares).                                           *)
(***************************************************************************)
EXTENDS Index, TLAPS

\* d and the directories above it.
Chain(d) == Above[d] \cup {d}

-----------------------------------------------------------------------------
(* The tree of paths.                                                      *)

LEMMA ParentType == \A p \in Paths \ {Root} : Parent[p] \in Paths
BY IndexAssumption

LEMMA AboveDef ==
  ASSUME NEW p \in Paths
  PROVE  Above[p] = {q \in Paths : p # Root /\ \A S \in SUBSET Paths : Parent[p] \in S /\ Climbs(S) => q \in S}
BY DEF Above

LEMMA AboveType == \A p \in Paths : Above[p] \in SUBSET Paths
BY AboveDef

LEMMA NoneAboveRoot == Root \in Paths /\ Above[Root] = {}
BY AboveDef, IndexAssumption

\* Whatever holds p and climbs holds what is above p.
LEMMA ClimbReaches ==
  ASSUME NEW p \in Paths, NEW S \in SUBSET Paths, p \in S, Climbs(S)
  PROVE  Above[p] \subseteq S
<1> SUFFICES ASSUME NEW q \in Above[p] PROVE q \in S
  OBVIOUS
<1>1. p # Root /\ (Parent[p] \in S /\ Climbs(S) => q \in S)
  BY AboveDef
<1> QED
  BY <1>1 DEF Climbs

LEMMA ParentAbove ==
  ASSUME NEW p \in Paths, p # Root
  PROVE  Parent[p] \in Above[p]
BY AboveDef, ParentType

LEMMA AboveClimbs ==
  ASSUME NEW p \in Paths
  PROVE  Climbs(Above[p])
<1> SUFFICES ASSUME NEW q \in Above[p], q # Root PROVE Parent[q] \in Above[p]
  BY DEF Climbs
<1>1. q \in Paths /\ Parent[q] \in Paths
  BY AboveType, ParentType
<1>2. \A S \in SUBSET Paths : Parent[p] \in S /\ Climbs(S) => q \in S
  BY AboveDef
<1>3. \A S \in SUBSET Paths : Parent[p] \in S /\ Climbs(S) => Parent[q] \in S
  BY <1>2 DEF Climbs
<1>4. p # Root
  BY AboveDef
<1> QED
  BY <1>1, <1>3, <1>4, AboveDef

LEMMA ChainFacts ==
  ASSUME NEW d \in Paths
  PROVE  /\ Chain(d) \subseteq Paths
         /\ Climbs(Chain(d))
         /\ d \in Chain(d) /\ Root \in Chain(d)
         /\ \A e \in Chain(d) : e \in Paths /\ Chain(e) \subseteq Chain(d)
<1>1. Chain(d) \subseteq Paths
  BY AboveType DEF Chain
<1>2. Climbs(Chain(d))
  BY AboveClimbs, ParentAbove DEF Chain, Climbs
<1>3. d \in Chain(d) /\ Root \in Chain(d)
  BY IndexAssumption DEF Chain
<1>4. ASSUME NEW e \in Chain(d) PROVE Chain(e) \subseteq Chain(d)
  BY <1>1, <1>2, ClimbReaches DEF Chain
<1> QED
  BY <1>1, <1>2, <1>3, <1>4

LEMMA ChildFacts ==
  ASSUME NEW d \in Paths, NEW c \in ChildrenOf(d)
  PROVE  /\ c \in Paths /\ c # Root /\ Parent[c] = d
         /\ Above[c] = Chain(d) /\ Chain(c) = Chain(d) \cup {c}
<1>1. c \in Paths /\ c # Root /\ Parent[c] = d
  BY DEF ChildrenOf
<1>2. d \in Above[c]
  BY <1>1, ParentAbove
<1>3. Chain(d) \subseteq Above[c]
  BY <1>1, <1>2, AboveClimbs, AboveType, ClimbReaches DEF Chain
<1>4. Above[c] \subseteq Chain(d)
  <2> SUFFICES ASSUME NEW q \in Above[c] PROVE q \in Chain(d)
    OBVIOUS
  <2>1. \A S \in SUBSET Paths : d \in S /\ Climbs(S) => q \in S
    BY <1>1, AboveDef
  <2> QED
    BY <2>1, ChainFacts
<1> QED
  BY <1>1, <1>3, <1>4 DEF Chain

LEMMA NotBelowItself ==
  ASSUME NEW d \in Paths
  PROVE  d \notin Above[d] /\ d \notin ChildrenOf(d)
BY IndexAssumption, ChildFacts DEF Chain

LEMMA BelowFacts ==
  ASSUME NEW d \in Paths \ {Root}
  PROVE  /\ Below(d) \subseteq Paths \ {Root}
         /\ \A q \in Below(d) : Parent[d] \in Above[q]
         /\ \A q \in Paths \ {Root} : Parent[q] \in Below(d) => q \in Below(d)
<1>1. Root \notin Below(d)
  BY NoneAboveRoot DEF Below
<1>2. ASSUME NEW q \in Below(d) PROVE Parent[d] \in Above[q]
  <2>1. CASE q = d
    BY <2>1, ParentAbove
  <2>2. CASE d \in Above[q]
    BY <2>2, AboveClimbs DEF Below, Climbs
  <2> QED
    BY <2>1, <2>2 DEF Below
<1>3. ASSUME NEW q \in Paths \ {Root}, Parent[q] \in Below(d) PROVE q \in Below(d)
  <2>1. Parent[q] \in Paths /\ q \in ChildrenOf(Parent[q])
    BY ParentType DEF ChildrenOf
  <2>2. Above[q] = Chain(Parent[q])
    BY <2>1, ChildFacts
  <2> QED
    BY <1>3, <2>2 DEF Below, Chain
<1> QED
  BY <1>1, <1>2, <1>3 DEF Below

-----------------------------------------------------------------------------
(* Types, and the shape of an index and of a walk.                         *)

TreeShape ==
  /\ trees \in [Inos -> [exists : SUBSET Paths, git : SUBSET Paths, mtime : [Paths -> 0 .. now]]]
  /\ \A i \in Inos : IsTree(trees[i].exists) /\ trees[i].git \subseteq trees[i].exists

Shapes ==
  /\ now \in 0 .. MaxTime /\ edits \in 0 .. MaxEdits /\ runs \in 0 .. MaxRuns /\ cur \in Inos
  /\ TreeShape
  /\ pc \in [Procs -> {"idle", "probe", "rewalk", "walk", "store"}]
  /\ base \in [Procs -> Inos] /\ start \in [Procs -> 0 .. now] /\ short \in [Procs -> BOOLEAN]
  /\ todo \in [Procs -> SUBSET Paths] /\ gone \in [Procs -> SUBSET Paths] /\ quiet \in [Procs -> BOOLEAN]
  /\ DOMAIN index = Procs /\ DOMAIN probes = Procs /\ DOMAIN opened = Procs
  /\ DOMAIN recs = Procs /\ DOMAIN cached = Procs

\* Records that say whether each is a repository or a directory, with no record below a
\* repository and none that lacks its parent's.
WellLinked(r) ==
  /\ DOMAIN r \subseteq Paths
  /\ \A d \in DOMAIN r : r[d].kind \in {"repo", "dir"}
  /\ \A d \in DOMAIN r \ {Root} : Parent[d] \in DOMAIN r /\ r[Parent[d]].kind = "dir"

Decodes(ix) ==
  /\ WellLinked(ix.entries) /\ Root \in DOMAIN ix.entries
  /\ ix.ino \in Inos /\ ix.ino <= cur /\ ix.written \in 0 .. now

IndexShape(ix) == ix = NoIndex \/ Decodes(ix)

\* What a run has found so far.
Known(p) == todo[p] \cup DOMAIN opened[p] \cup DOMAIN recs[p]

\* Each path is in one place, and was found in a directory that is recorded as one.
WalkShape(p) ==
  /\ WellLinked(recs[p])
  /\ Known(p) \subseteq Paths /\ gone[p] \subseteq DOMAIN opened[p]
  /\ todo[p] \cap DOMAIN recs[p] = {} /\ todo[p] \cap DOMAIN opened[p] = {}
  /\ DOMAIN opened[p] \cap DOMAIN recs[p] = {}
  /\ \A q \in Known(p) \ {Root} : Parent[q] \in DOMAIN recs[p] /\ recs[p][Parent[q]].kind = "dir"

AtRest(p) == Known(p) = {} /\ gone[p] = {} /\ cached[p] = NoIndex

ProbeShape(p) ==
  /\ index[p] # NoIndex
  /\ DOMAIN probes[p] \subseteq DOMAIN index[p].entries

RunShape(p) ==
  /\ IndexShape(index[p])
  /\ WalkShape(p)
  /\ ~Walking(p) => AtRest(p)
  /\ IF pc[p] = "probe" THEN ProbeShape(p) ELSE DOMAIN probes[p] = {}

TypeInv == Shapes /\ IndexShape(file) /\ \A p \in Procs : RunShape(p)

\* All that a run keeps for itself.
Mine(p) == << pc[p], index[p], base[p], start[p], probes[p], todo[p], opened[p], gone[p],
              recs[p], short[p], cached[p], quiet[p] >>

-----------------------------------------------------------------------------
(* What the steps change.                                                  *)

\* A step of one run changes nothing of another's, nor the tree.
LEMMA OthersStay ==
  ASSUME Shapes, NEW p \in Procs, Run(p), NEW q \in Procs \ {p}
  PROVE  UNCHANGED Mine(q) /\ UNCHANGED disk
<1> USE DEF Shapes, Mine
<1>1. ASSUME NEW l, NEW ix, Drop(p, l, ix) PROVE UNCHANGED Mine(q) /\ UNCHANGED disk
  BY <1>1 DEF Drop, Goto
<1>2. CASE Begin(p)
  BY <1>2 DEF Begin, StartWalk, Goto
<1>3. CASE Validated(p)
  BY <1>3 DEF Validated, StartWalk, Goto, disk
<1>4. CASE CheckAfresh(p)
  BY <1>4 DEF CheckAfresh, StartWalk, Goto
<1>5. CASE Build(p) \/ Store(p) \/ GiveUp(p)
  BY <1>1, <1>5 DEF Build, Store, GiveUp
<1>6. ASSUME NEW d \in Paths, Probe(p, d) PROVE UNCHANGED Mine(q) /\ UNCHANGED disk
  BY <1>6 DEF Probe, walk
<1>7. ASSUME NEW d \in Paths, SeeGit(p, d) \/ Open(p, d) \/ OpenFails(p, d) \/ ReadDir(p, d)
      PROVE  UNCHANGED Mine(q) /\ UNCHANGED disk
  BY <1>7 DEF SeeGit, Open, OpenFails, ReadDir, walkRest
<1> QED
  BY <1>2, <1>3, <1>4, <1>5, <1>6, <1>7 DEF Run

\* What an edit does to the tree: w's mtime is moved to the present, and what else changes is
\* below w.
Changes(w, S) ==
  LET t == trees[cur]
      u == trees'[cur]
  IN  /\ u.mtime[w] = now
      /\ \A q \in S : w \in Above[q]
      /\ \A q \in Paths \ (S \cup {w}) : u.mtime[q] = t.mtime[q] /\ (q \in u.git <=> q \in t.git)
      /\ \A q \in Paths \ S : q \in u.exists <=> q \in t.exists
      /\ \A p \in Procs : \A q \in gone'[p] \ gone[p] : q \in S /\ base[p] = cur

EditOf(x) == MoveIn(x) \/ Delete(x) \/ ToggleGit(x)

LEMMA EditRest ==
  ASSUME Shapes, NEW exists, NEW git, NEW mtime, Edit(exists, git, mtime),
         exists \in SUBSET Paths, IsTree(exists), git \subseteq exists, mtime \in [Paths -> 0 .. now]
  PROVE  /\ UNCHANGED << now, cur, runs, file, pc, index, start, probes, base, todo, opened, recs,
                         short, cached >>
         /\ edits' \in 0 .. MaxEdits /\ quiet' = [p \in Procs |-> ~Active(p)]
         /\ TreeShape'
         /\ trees'[cur] = [exists |-> exists, git |-> git, mtime |-> mtime]
<1> DEFINE t == [exists |-> exists, git |-> git, mtime |-> mtime]
<1>1. /\ UNCHANGED << now, cur, runs, file, pc, index, start, probes, base, todo, opened, recs,
                      short, cached >>
      /\ quiet' = [p \in Procs |-> ~Active(p)]
      /\ edits < MaxEdits /\ edits' = edits + 1
      /\ trees' = [trees EXCEPT ![cur] = t]
  BY DEF Edit
<1>2. edits' \in 0 .. MaxEdits
  BY <1>1, IndexAssumption DEF Shapes
<1>3. t \in [exists : SUBSET Paths, git : SUBSET Paths, mtime : [Paths -> 0 .. now]]
  OBVIOUS
<1>4. TreeShape' /\ trees'[cur] = t
  BY <1>1, <1>3 DEF Shapes, TreeShape
<1> QED
  BY <1>1, <1>2, <1>4

LEMMA MoveInFacts ==
  ASSUME Shapes, NEW d \in Paths, MoveIn(d)
  PROVE  /\ \E exists, git, mtime : /\ Edit(exists, git, mtime)
                                    /\ exists \in SUBSET Paths /\ IsTree(exists) /\ git \subseteq exists
                                    /\ mtime \in [Paths -> 0 .. now]
         /\ UNCHANGED gone
         /\ \E w \in Paths, S \in SUBSET Paths : Changes(w, S)
<1> DEFINE t == trees[cur]
<1>1. d \in Paths \ {Root} /\ Parent[d] \in Paths /\ UNCHANGED gone
  BY ParentType DEF MoveIn
<1>2. PICK new \in SUBSET Below(d), git \in SUBSET Below(d), m \in {0, now} :
         /\ git \subseteq new /\ IsTree(t.exists \cup new)
         /\ Edit(t.exists \cup new, t.git \cup git,
                 [p \in Paths |-> IF p \in new THEN m ELSE IF p = Parent[d] THEN now ELSE t.mtime[p]])
  BY DEF MoveIn
<1> DEFINE u == [exists |-> t.exists \cup new, git |-> t.git \cup git,
                 mtime |-> [p \in Paths |-> IF p \in new THEN m ELSE IF p = Parent[d] THEN now ELSE t.mtime[p]]]
<1>3. /\ t.exists \in SUBSET Paths /\ t.git \subseteq t.exists /\ t.mtime \in [Paths -> 0 .. now]
      /\ now \in Nat
  BY IndexAssumption DEF Shapes, TreeShape
<1>4. new \subseteq Paths \ {Root} /\ \A q \in new : Parent[d] \in Above[q] /\ q # Parent[d]
  <2>1. \A q \in Below(d) : Parent[d] \in Above[q] /\ q \in Paths \ {Root}
    BY <1>1, BelowFacts
  <2> QED
    BY <2>1, NotBelowItself
<1>5. /\ u.exists \in SUBSET Paths /\ IsTree(u.exists) /\ u.git \subseteq u.exists
      /\ u.mtime \in [Paths -> 0 .. now]
  BY <1>2, <1>3, <1>4
<1>6. trees'[cur] = u /\ Edit(u.exists, u.git, u.mtime)
  <2>1. u = [exists |-> u.exists, git |-> u.git, mtime |-> u.mtime] /\ Edit(u.exists, u.git, u.mtime)
    BY <1>2
  <2> HIDE DEF u
  <2> QED
    BY <1>5, <2>1, EditRest
<1>7. Changes(Parent[d], new)
  <2>1. u.mtime[Parent[d]] = now /\ \A q \in Paths \ (new \cup {Parent[d]}) : u.mtime[q] = t.mtime[q]
    BY <1>1, <1>4
  <2>2. \A q \in Paths \ new : (q \in u.git <=> q \in t.git) /\ (q \in u.exists <=> q \in t.exists)
    BY <1>2
  <2> QED
    BY <1>1, <1>4, <1>6, <2>1, <2>2 DEF Changes
<1> HIDE DEF u
<1> QED
  BY <1>1, <1>4, <1>5, <1>6, <1>7

LEMMA DeleteFacts ==
  ASSUME Shapes, \A p \in Procs : gone[p] \subseteq DOMAIN opened[p], NEW d \in Paths, Delete(d)
  PROVE  /\ \E exists, git, mtime : /\ Edit(exists, git, mtime)
                                    /\ exists \in SUBSET Paths /\ IsTree(exists) /\ git \subseteq exists
                                    /\ mtime \in [Paths -> 0 .. now]
         /\ gone' \in [Procs -> SUBSET Paths]
         /\ \A p \in Procs : gone[p] \subseteq gone'[p] /\ gone'[p] \subseteq DOMAIN opened[p]
         /\ \E w \in Paths, S \in SUBSET Paths : Changes(w, S)
<1> DEFINE t == trees[cur]
           u == [exists |-> t.exists \ Below(d), git |-> t.git \ Below(d),
                 mtime |-> [t.mtime EXCEPT ![Parent[d]] = now]]
<1>1. /\ t.exists \in SUBSET Paths /\ t.git \subseteq t.exists /\ t.mtime \in [Paths -> 0 .. now]
      /\ IsTree(t.exists) /\ now \in Nat
  BY IndexAssumption DEF Shapes, TreeShape
<1>2. d \in t.exists \ {Root} /\ Parent[d] \in Paths
  BY <1>1, ParentType DEF Delete
<1>3. Edit(u.exists, u.git, u.mtime)
  BY DEF Delete
<1>4. /\ Below(d) \subseteq Paths \ {Root}
      /\ \A q \in Below(d) : Parent[d] \in Above[q]
      /\ \A q \in Paths \ {Root} : Parent[q] \in Below(d) => q \in Below(d)
  BY <1>1, <1>2, BelowFacts
<1>5. u.exists \in SUBSET Paths /\ IsTree(u.exists) /\ u.git \subseteq u.exists
  <2>1. Root \in u.exists
    BY <1>1, <1>4 DEF IsTree
  <2>2. \A q \in u.exists \ {Root} : Parent[q] \in u.exists
    BY <1>1, <1>4 DEF IsTree
  <2> QED
    BY <1>1, <2>1, <2>2 DEF IsTree
<1>6. u.mtime \in [Paths -> 0 .. now]
  BY <1>1, <1>2
<1>7. trees'[cur] = u
  <2>1. u = [exists |-> u.exists, git |-> u.git, mtime |-> u.mtime]
    OBVIOUS
  <2> HIDE DEF u
  <2> QED
    BY <1>3, <1>5, <1>6, <2>1, EditRest
<1>8. gone' = [p \in Procs |-> IF base[p] = cur THEN gone[p] \cup (Below(d) \cap DOMAIN opened[p]) ELSE gone[p]]
  BY DEF Delete
<1>9. Changes(Parent[d], Below(d))
  BY <1>1, <1>2, <1>4, <1>7, <1>8 DEF Changes
<1>10. gone' \in [Procs -> SUBSET Paths]
  BY <1>4, <1>8 DEF Shapes
<1>11. \A p \in Procs : gone[p] \subseteq gone'[p] /\ gone'[p] \subseteq DOMAIN opened[p]
  BY <1>8
<1> HIDE DEF u
<1> QED
  BY <1>2, <1>3, <1>4, <1>5, <1>6, <1>9, <1>10, <1>11

LEMMA ToggleGitFacts ==
  ASSUME Shapes, NEW d \in Paths, ToggleGit(d)
  PROVE  /\ \E exists, git, mtime : /\ Edit(exists, git, mtime)
                                    /\ exists \in SUBSET Paths /\ IsTree(exists) /\ git \subseteq exists
                                    /\ mtime \in [Paths -> 0 .. now]
         /\ UNCHANGED gone
         /\ \E w \in Paths, S \in SUBSET Paths : Changes(w, S)
<1> DEFINE t == trees[cur]
           u == [exists |-> t.exists, git |-> IF d \in t.git THEN t.git \ {d} ELSE t.git \cup {d},
                 mtime |-> [t.mtime EXCEPT ![d] = now]]
<1>1. /\ t.exists \in SUBSET Paths /\ t.git \subseteq t.exists /\ t.mtime \in [Paths -> 0 .. now]
      /\ IsTree(t.exists) /\ now \in Nat
  BY IndexAssumption DEF Shapes, TreeShape
<1>2. d \in t.exists /\ UNCHANGED gone /\ Edit(u.exists, u.git, u.mtime)
  BY DEF ToggleGit
<1>3. u.exists \in SUBSET Paths /\ IsTree(u.exists) /\ u.git \subseteq u.exists /\ u.mtime \in [Paths -> 0 .. now]
  BY <1>1, <1>2
<1>4. trees'[cur] = u
  BY <1>2, <1>3, EditRest
<1>5. Changes(d, {})
  BY <1>1, <1>2, <1>4 DEF Changes
<1> HIDE DEF u
<1> QED
  BY <1>2, <1>3, <1>5

LEMMA EditFacts ==
  ASSUME TypeInv, NEW x \in Paths, EditOf(x)
  PROVE  /\ UNCHANGED << now, cur, runs, file, pc, index, start, probes, base, todo, opened, recs,
                         short, cached >>
         /\ edits' \in 0 .. MaxEdits /\ quiet' = [p \in Procs |-> ~Active(p)]
         /\ TreeShape'
         /\ gone' \in [Procs -> SUBSET Paths]
         /\ \A p \in Procs : gone[p] \subseteq gone'[p] /\ gone'[p] \subseteq DOMAIN opened[p]
         /\ \E w \in Paths, S \in SUBSET Paths : Changes(w, S)
<1>1. Shapes /\ \A p \in Procs : gone[p] \subseteq DOMAIN opened[p]
  BY DEF TypeInv, RunShape, WalkShape
<1>2. /\ \E exists, git, mtime : /\ Edit(exists, git, mtime)
                                 /\ exists \in SUBSET Paths /\ IsTree(exists) /\ git \subseteq exists
                                 /\ mtime \in [Paths -> 0 .. now]
      /\ gone' \in [Procs -> SUBSET Paths]
      /\ \A p \in Procs : gone[p] \subseteq gone'[p] /\ gone'[p] \subseteq DOMAIN opened[p]
      /\ \E w \in Paths, S \in SUBSET Paths : Changes(w, S)
  <2>1. CASE MoveIn(x)
    BY <1>1, <2>1, MoveInFacts DEF Shapes
  <2>2. CASE Delete(x)
    BY <1>1, <2>2, DeleteFacts
  <2>3. CASE ToggleGit(x)
    BY <1>1, <2>3, ToggleGitFacts DEF Shapes
  <2> QED
    BY <2>1, <2>2, <2>3 DEF EditOf
<1> QED
  BY <1>1, <1>2, EditRest

-----------------------------------------------------------------------------
(* The types and shapes are kept.                                          *)

LEMMA EmptyLinked == WellLinked(None)
BY DEF WellLinked, None

LEMMA InitTypeInv == Init => TypeInv
<1> SUFFICES ASSUME Init PROVE TypeInv
  OBVIOUS
<1>1. cur \in Inos /\ now = 0 /\ 0 \in 0 .. MaxTime /\ 0 \in 0 .. MaxEdits /\ 0 \in 0 .. MaxRuns
  BY IndexAssumption DEF Init
<1>2. Root \in Paths /\ IsTree(Bare.exists) /\ Bare \in [exists : SUBSET Paths, git : SUBSET Paths, mtime : [Paths -> 0 .. now]]
      /\ Bare.git \subseteq Bare.exists
  BY <1>1, NoneAboveRoot DEF Bare, IsTree
<1>3. TreeShape
  BY <1>1, <1>2 DEF Init, TreeShape, AnyTree
<1>4. Shapes
  BY <1>1, <1>3 DEF Init, Shapes
<1>5. ASSUME NEW p \in Procs PROVE RunShape(p)
  <2>1. /\ pc[p] = "idle" /\ index[p] = NoIndex /\ probes[p] = None /\ todo[p] = {} /\ opened[p] = None
        /\ gone[p] = {} /\ recs[p] = None /\ cached[p] = NoIndex /\ DOMAIN None = {}
    BY DEF Init, None
  <2> QED
    BY <2>1, EmptyLinked DEF RunShape, IndexShape, WalkShape, Known, AtRest, Walking
<1> QED
  BY <1>4, <1>5 DEF TypeInv, IndexShape, Init

\* The part of the invariant that a step of p may disturb.
Own(p) == Shapes /\ IndexShape(file) /\ RunShape(p)

LEMMA OwnSuffices ==
  ASSUME TypeInv, NEW p \in Procs, Run(p), Own(p)'
  PROVE  TypeInv'
<1> SUFFICES ASSUME NEW q \in Procs \ {p} PROVE RunShape(q)'
  BY DEF TypeInv, Own
<1>1. UNCHANGED Mine(q) /\ UNCHANGED disk /\ RunShape(q)
  BY OthersStay DEF TypeInv
<1> QED
  BY <1>1 DEF Mine, disk, RunShape, IndexShape, Decodes, WalkShape, Known, AtRest, ProbeShape, Walking

LEMMA StartWalkShape ==
  ASSUME Shapes, NEW p \in Procs, gone[p] = {}, DOMAIN opened[p] = {}, StartWalk(p)
  PROVE  /\ base' \in [Procs -> Inos] /\ short' \in [Procs -> BOOLEAN]
         /\ todo' \in [Procs -> SUBSET Paths] /\ DOMAIN recs' = Procs
         /\ pc' \in [Procs -> {"idle", "probe", "rewalk", "walk", "store"}]
         /\ pc'[p] = "walk" /\ UNCHANGED << opened, gone >>
         /\ todo'[p] = {Root} /\ DOMAIN recs'[p] = {} /\ short'[p] = FALSE /\ base'[p] = cur
         /\ WalkShape(p)'
<1>1. /\ base' \in [Procs -> Inos] /\ short' \in [Procs -> BOOLEAN]
      /\ todo' \in [Procs -> SUBSET Paths] /\ DOMAIN recs' = Procs
      /\ pc' \in [Procs -> {"idle", "probe", "rewalk", "walk", "store"}]
      /\ pc'[p] = "walk" /\ UNCHANGED << opened, gone >>
      /\ todo'[p] = {Root} /\ recs'[p] = None /\ short'[p] = FALSE /\ base'[p] = cur
  BY NoneAboveRoot DEF StartWalk, Goto, Shapes
<1>2. DOMAIN None = {}
  BY DEF None
<1> QED
  BY <1>1, <1>2, EmptyLinked, NoneAboveRoot DEF WalkShape, Known

LEMMA BeginShape == ASSUME TypeInv, NEW p \in Procs, Begin(p) PROVE Own(p)'
<1> USE DEF TypeInv
<1>1. /\ pc[p] = "idle" /\ runs < MaxRuns /\ runs' = runs + 1
      /\ start' = [start EXCEPT ![p] = now]
      /\ UNCHANGED << disk, file, probes, cached, quiet >>
  BY DEF Begin
<1>2. AtRest(p) /\ DOMAIN opened[p] = {} /\ gone[p] = {} /\ DOMAIN probes[p] = {}
  BY <1>1 DEF RunShape, AtRest, Known, Walking
<1>3. runs' \in 0 .. MaxRuns /\ now \in 0 .. now /\ start' \in [Procs -> 0 .. now]
  BY <1>1, IndexAssumption DEF Shapes
<1>4. CASE file # NoIndex /\ Describes(file, p)
  <2>1. /\ index' = [index EXCEPT ![p] = file]
        /\ base' = [base EXCEPT ![p] = cur]
        /\ pc' = [pc EXCEPT ![p] = "probe"]
        /\ UNCHANGED << todo, opened, gone, recs, short >>
    BY <1>4 DEF Begin, Goto
  <2>2. Shapes'
    BY <1>1, <1>3, <2>1 DEF Shapes, TreeShape, disk
  <2>3. index'[p] = file /\ pc'[p] = "probe"
    BY <2>1 DEF Shapes
  <2>4. IndexShape(file)' /\ IndexShape(index[p])'
    BY <1>1, <2>3 DEF IndexShape, Decodes, disk
  <2>5. WalkShape(p)' /\ AtRest(p)'
    BY <1>1, <1>2, <2>1 DEF RunShape, WalkShape, AtRest, Known
  <2>6. ProbeShape(p)'
    BY <1>1, <1>2, <1>4, <2>3 DEF ProbeShape
  <2> QED
    BY <2>2, <2>3, <2>4, <2>5, <2>6 DEF Own, RunShape
<1>5. CASE ~(file # NoIndex /\ Describes(file, p))
  <2>1. StartWalk(p) /\ UNCHANGED index
    BY <1>5 DEF Begin
  <2>2. /\ base' \in [Procs -> Inos] /\ short' \in [Procs -> BOOLEAN]
        /\ todo' \in [Procs -> SUBSET Paths] /\ DOMAIN recs' = Procs
        /\ pc' \in [Procs -> {"idle", "probe", "rewalk", "walk", "store"}]
        /\ pc'[p] = "walk" /\ UNCHANGED << opened, gone >>
        /\ WalkShape(p)'
    BY <1>2, <2>1, StartWalkShape
  <2>3. Shapes'
    BY <1>1, <1>3, <2>1, <2>2 DEF Shapes, TreeShape, disk
  <2>4. IndexShape(file)' /\ IndexShape(index[p])'
    BY <1>1, <2>1 DEF IndexShape, Decodes, disk, RunShape
  <2>5. Walking(p)' /\ DOMAIN probes'[p] = {}
    BY <1>1, <1>2, <2>2 DEF Walking
  <2> QED
    BY <2>2, <2>3, <2>4, <2>5 DEF Own, RunShape
<1> QED
  BY <1>4, <1>5

LEMMA ProbeStepShape == ASSUME TypeInv, NEW p \in Procs, NEW d \in Paths, Probe(p, d) PROVE Own(p)'
<1> USE DEF TypeInv
<1>1. /\ pc[p] = "probe" /\ d \in DOMAIN index[p].entries
      /\ probes' = [probes EXCEPT ![p] = With(@, d, Found(index[p], Tree(p), d))]
      /\ UNCHANGED << disk, runs, file, pc, index, start, walk, cached, quiet >>
  BY DEF Probe
<1>2. UNCHANGED << base, todo, opened, gone, recs, short >>
  BY <1>1 DEF walk
<1>3. Shapes'
  BY <1>1, <1>2 DEF Shapes, TreeShape, disk
<1>4. DOMAIN probes'[p] = DOMAIN probes[p] \cup {d}
  BY <1>1 DEF Shapes, With
<1>5. RunShape(p)'
  BY <1>1, <1>2, <1>4 DEF RunShape, WalkShape, Known, AtRest, ProbeShape, IndexShape, Decodes, Walking, disk
<1> QED
  BY <1>1, <1>3, <1>5 DEF Own, IndexShape, Decodes, disk

\* What the entries that were visited say of the tree of paths.
LEMMA VisitedShape ==
  ASSUME NEW ix, NEW pr, Decodes(ix)
  PROVE  LET seen == Visited(ix, pr)
             hits == Hits(ix, pr)
             r == [d \in hits |-> pr[d]]
         IN  /\ Root \in seen /\ hits \subseteq seen /\ seen \subseteq DOMAIN ix.entries
             /\ \A q \in seen \ {Root} : Parent[q] \in hits /\ pr[Parent[q]].kind = "dir"
             /\ WellLinked(r)
<1> DEFINE seen == Visited(ix, pr)
           hits == Hits(ix, pr)
           r == [d \in hits |-> pr[d]]
<1>1. Root \in seen
  BY NoneAboveRoot DEF Visited, Decodes
<1>2. seen \subseteq DOMAIN ix.entries /\ hits \subseteq seen
  BY DEF Visited, Hits
<1>3. ASSUME NEW q \in seen \ {Root} PROVE Parent[q] \in hits /\ pr[Parent[q]].kind = "dir"
  <2>1. q \in Paths /\ Parent[q] \in DOMAIN ix.entries
    BY <1>2 DEF Decodes, WellLinked
  <2>2. Parent[q] \in Above[q] /\ Above[Parent[q]] \subseteq Above[q]
    BY <2>1, ParentAbove, AboveClimbs, AboveType, ClimbReaches
  <2> QED
    BY <2>1, <2>2 DEF Visited, Hits
<1>4. \A d \in hits : pr[d].kind \in {"repo", "dir"}
  BY <1>2 DEF Hits, Hit, Decodes, WellLinked
<1>5. WellLinked(r)
  BY <1>2, <1>3, <1>4 DEF WellLinked, Decodes
<1> QED
  BY <1>1, <1>2, <1>3, <1>5

LEMMA ValidatedShape == ASSUME TypeInv, NEW p \in Procs, Validated(p) PROVE Own(p)'
<1> DEFINE seen == Visited(index[p], probes[p])
           hits == Hits(index[p], probes[p])
           stale == seen \ hits
<1> USE DEF TypeInv
<1>1. /\ pc[p] = "probe"
      /\ index' = [index EXCEPT ![p] = NoIndex]
      /\ probes' = [probes EXCEPT ![p] = None]
      /\ UNCHANGED << disk, runs, file, start, cached, quiet >>
  BY DEF Validated
<1>2. AtRest(p) /\ todo[p] = {} /\ DOMAIN opened[p] = {} /\ gone[p] = {}
  BY <1>1 DEF RunShape, AtRest, Known, Walking
<1>3. IndexShape(file)' /\ IndexShape(index[p])' /\ DOMAIN probes'[p] = {} /\ DOMAIN index' = Procs /\ DOMAIN probes' = Procs
  BY <1>1 DEF IndexShape, Decodes, Shapes, disk, None
<1>4. CASE Root \in stale
  <2>1. StartWalk(p)
    BY <1>4 DEF Validated
  <2>2. /\ base' \in [Procs -> Inos] /\ short' \in [Procs -> BOOLEAN]
        /\ todo' \in [Procs -> SUBSET Paths] /\ DOMAIN recs' = Procs
        /\ pc' \in [Procs -> {"idle", "probe", "rewalk", "walk", "store"}]
        /\ pc'[p] = "walk" /\ UNCHANGED << opened, gone >>
        /\ WalkShape(p)'
    BY <1>2, <2>1, StartWalkShape
  <2>3. Shapes'
    BY <1>1, <1>3, <2>2 DEF Shapes, TreeShape, disk
  <2> QED
    BY <1>3, <2>2, <2>3 DEF Own, RunShape, Walking
<1>5. CASE Root \notin stale
  <2>1. /\ recs' = [recs EXCEPT ![p] = [d \in hits |-> probes[p][d]]]
        /\ todo' = [todo EXCEPT ![p] = stale]
        /\ base' = [base EXCEPT ![p] = cur]
        /\ pc' = [pc EXCEPT ![p] = "rewalk"]
        /\ UNCHANGED << opened, gone, short >>
    BY <1>5 DEF Validated, Goto
  <2>2. Decodes(index[p])
    BY <1>1 DEF RunShape, ProbeShape, IndexShape
  <2>3. /\ hits \subseteq seen /\ seen \subseteq Paths
        /\ \A q \in seen \ {Root} : Parent[q] \in hits /\ probes[p][Parent[q]].kind = "dir"
        /\ WellLinked([d \in hits |-> probes[p][d]])
    BY <2>2, VisitedShape DEF Decodes, WellLinked
  <2> HIDE DEF seen, hits
  <2>4. Shapes'
    BY <1>1, <1>3, <2>1, <2>3 DEF Shapes, TreeShape, disk
  <2>5. /\ recs'[p] = [d \in hits |-> probes[p][d]] /\ todo'[p] = stale /\ pc'[p] = "rewalk"
        /\ DOMAIN opened'[p] = {} /\ gone'[p] = {}
    BY <1>2, <2>1 DEF Shapes
  <2>6. WalkShape(p)'
    BY <2>3, <2>5 DEF WalkShape, Known
  <2> QED
    BY <1>3, <2>4, <2>5, <2>6 DEF Own, RunShape, Walking
<1> QED
  BY <1>4, <1>5

\* What the steps of a walk leave alone.
LEMMA WalkRestShape ==
  ASSUME TypeInv, NEW p \in Procs, Walking(p), UNCHANGED walkRest,
         todo' \in [Procs -> SUBSET Paths], gone' \in [Procs -> SUBSET Paths], short' \in [Procs -> BOOLEAN],
         DOMAIN opened' = Procs, DOMAIN recs' = Procs, WalkShape(p)'
  PROVE  Own(p)'
<1>1. Shapes'
  BY DEF TypeInv, Shapes, TreeShape, walkRest, disk
<1>2. IndexShape(file)' /\ IndexShape(index[p])'
  BY DEF TypeInv, RunShape, IndexShape, Decodes, walkRest, disk
<1>3. Walking(p)' /\ pc'[p] # "probe" /\ DOMAIN probes'[p] = {}
  BY DEF TypeInv, RunShape, Walking, walkRest
<1> QED
  BY <1>1, <1>2, <1>3 DEF Own, RunShape

LEMMA SeeGitShape == ASSUME TypeInv, NEW p \in Procs, NEW d \in Paths, SeeGit(p, d) PROVE Own(p)'
<1> USE DEF TypeInv, Shapes
<1>1. /\ Walking(p) /\ d \in todo[p] /\ UNCHANGED walkRest /\ UNCHANGED << opened, gone, short >>
      /\ recs' = [recs EXCEPT ![p] = With(@, d, Repo)]
      /\ todo' = [todo EXCEPT ![p] = @ \ {d}]
  BY DEF SeeGit
<1>2. WalkShape(p)
  BY DEF RunShape
<1>3. /\ DOMAIN recs'[p] = DOMAIN recs[p] \cup {d} /\ recs'[p][d].kind = "repo"
      /\ \A e \in DOMAIN recs[p] : recs'[p][e] = recs[p][e]
  BY <1>1, <1>2 DEF With, Repo, WalkShape
<1>4. todo'[p] = todo[p] \ {d} /\ opened'[p] = opened[p] /\ gone'[p] = gone[p]
  BY <1>1
<1>5. WellLinked(recs[p])'
  BY <1>1, <1>2, <1>3 DEF WalkShape, WellLinked, Known
<1>6. WalkShape(p)'
  BY <1>1, <1>2, <1>3, <1>4, <1>5 DEF WalkShape, Known
<1> QED
  BY <1>1, <1>6, WalkRestShape

LEMMA OpenShape == ASSUME TypeInv, NEW p \in Procs, NEW d \in Paths, Open(p, d) PROVE Own(p)'
<1> USE DEF TypeInv, Shapes
<1>1. /\ Walking(p) /\ d \in todo[p] /\ UNCHANGED walkRest /\ UNCHANGED << gone, recs, short >>
      /\ todo' = [todo EXCEPT ![p] = @ \ {d}]
      /\ \/ opened' = [opened EXCEPT ![p] = With(@, d, Tree(p).mtime[d])]
         \/ UNCHANGED opened
  BY DEF Open
<1>2. WalkShape(p)
  BY DEF RunShape
<1>3. /\ DOMAIN opened' = Procs
      /\ DOMAIN opened'[p] = DOMAIN opened[p] \cup {d} \/ DOMAIN opened'[p] = DOMAIN opened[p]
  BY <1>1 DEF With
<1>4. todo'[p] = todo[p] \ {d} /\ recs'[p] = recs[p] /\ gone'[p] = gone[p]
  BY <1>1
<1>5. WalkShape(p)'
  BY <1>1, <1>2, <1>3, <1>4 DEF WalkShape, Known
<1> QED
  BY <1>1, <1>3, <1>5, WalkRestShape

LEMMA OpenFailsShape == ASSUME TypeInv, NEW p \in Procs, NEW d \in Paths, OpenFails(p, d) PROVE Own(p)'
<1> USE DEF TypeInv, Shapes
<1>1. /\ Walking(p) /\ d \in todo[p] /\ UNCHANGED walkRest /\ UNCHANGED << opened, gone, recs >>
      /\ todo' = [todo EXCEPT ![p] = @ \ {d}]
      /\ short' = [short EXCEPT ![p] = TRUE]
  BY DEF OpenFails
<1>2. WalkShape(p)'
  BY <1>1 DEF RunShape, WalkShape, Known
<1> QED
  BY <1>1, <1>2, WalkRestShape

\* Its git, and what it finds below, when d is read.
LEMMA ReadDirFacts ==
  ASSUME TypeInv, NEW p \in Procs, NEW d \in Paths, ReadDir(p, d)
  PROVE  LET t == Tree(p)
             git == d \in t.git /\ d \notin gone[p]
             found == IF d \in gone[p] THEN {} ELSE (ChildrenOf(d) \cap t.exists) \ Exclude[p]
         IN  /\ Walking(p) /\ d \in DOMAIN opened[p]
             /\ UNCHANGED walkRest /\ UNCHANGED short
             /\ DOMAIN recs' = Procs /\ DOMAIN opened' = Procs
             /\ todo' \in [Procs -> SUBSET Paths] /\ gone' \in [Procs -> SUBSET Paths]
             /\ DOMAIN recs'[p] = DOMAIN recs[p] \cup {d}
             /\ recs'[p][d] = IF git THEN Repo ELSE Dir(opened[p][d])
             /\ \A e \in DOMAIN recs[p] : recs'[p][e] = recs[p][e]
             /\ todo'[p] = todo[p] \cup (IF git THEN {} ELSE found)
             /\ DOMAIN opened'[p] = DOMAIN opened[p] \ {d}
             /\ \A e \in DOMAIN opened'[p] : opened'[p][e] = opened[p][e]
             /\ gone'[p] = gone[p] \ {d}
<1> DEFINE t == Tree(p)
           git == d \in t.git /\ d \notin gone[p]
           found == IF d \in gone[p] THEN {} ELSE (ChildrenOf(d) \cap t.exists) \ Exclude[p]
<1> USE DEF TypeInv, Shapes
<1>1. /\ Walking(p) /\ d \in DOMAIN opened[p] /\ UNCHANGED walkRest /\ UNCHANGED short
      /\ recs' = [recs EXCEPT ![p] = With(@, d, IF git THEN Repo ELSE Dir(opened[p][d]))]
      /\ todo' = [todo EXCEPT ![p] = IF git THEN @ ELSE @ \cup found]
      /\ opened' = [opened EXCEPT ![p] = Without(@, d)]
      /\ gone' = [gone EXCEPT ![p] = @ \ {d}]
  BY DEF ReadDir
<1>2. d \notin DOMAIN recs[p]
  BY <1>1 DEF RunShape, WalkShape
<1>3. found \in SUBSET Paths
  BY DEF ChildrenOf
<1> HIDE DEF git, found
<1>4. /\ DOMAIN recs' = Procs /\ DOMAIN recs'[p] = DOMAIN recs[p] \cup {d}
      /\ recs'[p][d] = IF git THEN Repo ELSE Dir(opened[p][d])
      /\ \A e \in DOMAIN recs[p] : recs'[p][e] = recs[p][e]
  BY <1>1, <1>2 DEF With
<1>5. /\ todo' \in [Procs -> SUBSET Paths] /\ gone' \in [Procs -> SUBSET Paths]
      /\ todo'[p] = todo[p] \cup (IF git THEN {} ELSE found) /\ gone'[p] = gone[p] \ {d}
  BY <1>1, <1>3
<1>6. /\ DOMAIN opened' = Procs /\ DOMAIN opened'[p] = DOMAIN opened[p] \ {d}
      /\ \A e \in DOMAIN opened'[p] : opened'[p][e] = opened[p][e]
  BY <1>1 DEF Without
<1> QED
  BY <1>1, <1>4, <1>5, <1>6 DEF git, found

LEMMA ReadDirShape == ASSUME TypeInv, NEW p \in Procs, NEW d \in Paths, ReadDir(p, d) PROVE Own(p)'
<1> DEFINE new == todo'[p] \ todo[p]
<1>1. /\ Walking(p) /\ d \in DOMAIN opened[p] /\ UNCHANGED walkRest /\ UNCHANGED short
      /\ DOMAIN recs' = Procs /\ DOMAIN opened' = Procs
      /\ todo' \in [Procs -> SUBSET Paths] /\ gone' \in [Procs -> SUBSET Paths]
      /\ DOMAIN recs'[p] = DOMAIN recs[p] \cup {d}
      /\ \A e \in DOMAIN recs[p] : recs'[p][e] = recs[p][e]
      /\ recs'[p][d].kind \in {"repo", "dir"} /\ (new # {} => recs'[p][d].kind = "dir")
      /\ todo'[p] = todo[p] \cup new /\ new \subseteq ChildrenOf(d)
      /\ DOMAIN opened'[p] = DOMAIN opened[p] \ {d} /\ gone'[p] = gone[p] \ {d}
  <2> DEFINE git == d \in Tree(p).git /\ d \notin gone[p]
             found == IF d \in gone[p] THEN {} ELSE (ChildrenOf(d) \cap Tree(p).exists) \ Exclude[p]
  <2>1. recs'[p][d] = (IF git THEN Repo ELSE Dir(opened[p][d])) /\ todo'[p] = todo[p] \cup (IF git THEN {} ELSE found)
    BY ReadDirFacts
  <2>2. found \subseteq ChildrenOf(d)
    OBVIOUS
  <2> HIDE DEF git, found
  <2>3. recs'[p][d].kind \in {"repo", "dir"} /\ (new # {} => recs'[p][d].kind = "dir")
    BY <2>1 DEF Repo, Dir
  <2>4. todo'[p] = todo[p] \cup new /\ new \subseteq ChildrenOf(d)
    BY <2>1, <2>2
  <2> HIDE DEF new
  <2> QED
    BY <2>3, <2>4, ReadDirFacts
<1>2. WalkShape(p)
  BY DEF TypeInv, RunShape
<1>3. d \notin DOMAIN recs[p] /\ d \notin todo[p]
  BY <1>1, <1>2 DEF WalkShape
<1>4. \A c \in new : c \in Paths /\ c # Root /\ Parent[c] = d /\ c \notin Known(p)
  <2>1. \A c \in ChildrenOf(d) : c \in Paths /\ c # Root /\ Parent[c] = d
    BY ChildFacts
  <2> QED
    BY <1>1, <1>2, <1>3, <2>1 DEF WalkShape
<1> HIDE DEF new
<1>5. WellLinked(recs[p])'
  BY <1>1, <1>2, <1>3 DEF WalkShape, WellLinked, Known
<1>6. Known(p)' = Known(p) \cup new
  BY <1>1 DEF Known
<1>7. /\ Known(p)' \subseteq Paths /\ gone'[p] \subseteq DOMAIN opened'[p]
      /\ todo'[p] \cap DOMAIN recs'[p] = {} /\ todo'[p] \cap DOMAIN opened'[p] = {}
      /\ DOMAIN opened'[p] \cap DOMAIN recs'[p] = {}
  BY <1>1, <1>2, <1>3, <1>4, <1>6 DEF WalkShape, Known
<1>8. \A q \in Known(p)' \ {Root} : Parent[q] \in DOMAIN recs'[p] /\ recs'[p][Parent[q]].kind = "dir"
  BY <1>1, <1>2, <1>3, <1>4, <1>6 DEF WalkShape
<1>9. WalkShape(p)'
  BY <1>5, <1>7, <1>8 DEF WalkShape
<1>10. short' \in [Procs -> BOOLEAN]
  BY <1>1 DEF TypeInv, Shapes
<1> QED
  BY <1>1, <1>9, <1>10, WalkRestShape

LEMMA CheckAfreshShape == ASSUME TypeInv, NEW p \in Procs, CheckAfresh(p) PROVE Own(p)'
<1> USE DEF TypeInv
<1>1. /\ WalkOver(p) /\ StartWalk(p) /\ UNCHANGED << disk, runs, file, index, start, probes, quiet >>
      /\ DOMAIN cached' = Procs
  BY DEF CheckAfresh, Shapes
<1>2. DOMAIN opened[p] = {} /\ gone[p] = {} /\ DOMAIN probes[p] = {}
  BY <1>1 DEF WalkOver, RunShape, WalkShape, Walking
<1>3. /\ base' \in [Procs -> Inos] /\ short' \in [Procs -> BOOLEAN]
      /\ todo' \in [Procs -> SUBSET Paths] /\ DOMAIN recs' = Procs
      /\ pc' \in [Procs -> {"idle", "probe", "rewalk", "walk", "store"}]
      /\ pc'[p] = "walk" /\ UNCHANGED << opened, gone >>
      /\ WalkShape(p)'
  BY <1>1, <1>2, StartWalkShape
<1>4. Shapes'
  BY <1>1, <1>3 DEF Shapes, TreeShape, disk
<1>5. IndexShape(file)' /\ IndexShape(index[p])'
  BY <1>1 DEF IndexShape, Decodes, disk, RunShape
<1> QED
  BY <1>1, <1>2, <1>3, <1>4, <1>5 DEF Own, RunShape, Walking

\* A run that is over keeps at most the index it has built.
LEMMA DropShape ==
  ASSUME TypeInv, NEW p \in Procs, NEW l \in {"idle", "store"}, NEW ix, Drop(p, l, ix),
         IndexShape(ix), IndexShape(file)'
  PROVE  /\ Own(p)'
         /\ pc'[p] = l /\ index'[p] = ix /\ quiet'[p] = TRUE
<1> USE DEF TypeInv
<1>1. /\ UNCHANGED << disk, runs >>
      /\ pc' = [pc EXCEPT ![p] = l] /\ index' = [index EXCEPT ![p] = ix]
      /\ base' = [base EXCEPT ![p] = CHOOSE i \in Inos : TRUE]
      /\ start' = [start EXCEPT ![p] = 0] /\ probes' = [probes EXCEPT ![p] = None]
      /\ todo' = [todo EXCEPT ![p] = {}] /\ opened' = [opened EXCEPT ![p] = None]
      /\ gone' = [gone EXCEPT ![p] = {}] /\ recs' = [recs EXCEPT ![p] = None]
      /\ short' = [short EXCEPT ![p] = FALSE] /\ cached' = [cached EXCEPT ![p] = NoIndex]
      /\ quiet' = [quiet EXCEPT ![p] = TRUE]
  BY DEF Drop, Goto
<1>2. (CHOOSE i \in Inos : TRUE) \in Inos /\ 0 \in 0 .. now
  BY IndexAssumption DEF Shapes
<1>3. Shapes'
  BY <1>1, <1>2 DEF Shapes, TreeShape, disk
<1>4. /\ pc'[p] = l /\ index'[p] = ix /\ quiet'[p] = TRUE /\ probes'[p] = None /\ todo'[p] = {}
      /\ opened'[p] = None /\ gone'[p] = {} /\ recs'[p] = None /\ cached'[p] = NoIndex
  BY <1>1 DEF Shapes
<1>5. DOMAIN None = {}
  BY DEF None
<1>6. WalkShape(p)' /\ AtRest(p)' /\ DOMAIN probes'[p] = {}
  BY <1>4, <1>5, EmptyLinked DEF WalkShape, AtRest, Known
<1>7. IndexShape(index[p])'
  BY <1>1, <1>4 DEF IndexShape, Decodes, disk
<1> QED
  BY <1>3, <1>4, <1>6, <1>7 DEF Own, RunShape, Walking

LEMMA BuiltDecodes ==
  ASSUME TypeInv, NEW p \in Procs, Linked(recs[p])
  PROVE  Decodes(Built(p))
BY IndexAssumption DEF TypeInv, Shapes, RunShape, WalkShape, Linked, Built, Decodes

LEMMA EndShape == ASSUME TypeInv, NEW p \in Procs, Build(p) \/ Store(p) \/ GiveUp(p) PROVE Own(p)'
<1>1. \E l \in {"idle", "store"} : \E ix : Drop(p, l, ix) /\ IndexShape(ix)
  BY BuiltDecodes DEF Build, Store, GiveUp, IndexShape
<1>2. UNCHANGED disk
  BY <1>1 DEF Drop
<1>3. IndexShape(file)'
  <2>1. file' = file \/ file' = index[p]
    BY DEF Build, Store, GiveUp
  <2>2. IndexShape(file) /\ IndexShape(index[p])
    BY DEF TypeInv, RunShape
  <2>3. \A ix : IndexShape(ix) => IndexShape(ix)'
    BY <1>2 DEF IndexShape, Decodes, disk
  <2> QED
    BY <2>1, <2>2, <2>3 DEF IndexShape, Decodes
<1> QED
  BY <1>1, <1>3, DropShape

\* Nothing a run knows is disturbed by the world's changes.
LEMMA WorldShape ==
  ASSUME TypeInv, Shapes', now' \in Nat, now' >= now, cur' >= cur,
         UNCHANGED << file, pc, index, probes, todo, opened, recs, cached >>,
         \A p \in Procs : gone'[p] \subseteq DOMAIN opened[p],
         \A p \in Procs : ~Walking(p) => gone'[p] = {}
  PROVE  TypeInv'
<1>1. now \in Nat /\ cur \in Nat /\ cur' \in Nat /\ \A i \in Inos : i \in Nat
  <2>1. MaxTime \in Nat /\ Inos \subseteq Nat
    BY IndexAssumption
  <2>2. now \in 0 .. MaxTime /\ cur \in Inos
    BY DEF TypeInv, Shapes
  <2>3. cur' \in Inos
    BY DEF Shapes
  <2> QED
    BY <2>1, <2>2, <2>3
<1>2. \A ix : IndexShape(ix) => IndexShape(ix)'
  <2>1. \A i \in Inos : i <= cur => i <= cur'
    BY <1>1
  <2>2. 0 .. now \subseteq 0 .. now'
    BY <1>1
  <2> QED
    BY <2>1, <2>2 DEF IndexShape, Decodes
<1>3. IndexShape(file)' /\ \A p \in Procs : IndexShape(index[p])'
  BY <1>2 DEF TypeInv, RunShape, IndexShape, Decodes
<1>4. ASSUME NEW p \in Procs PROVE RunShape(p)'
  BY <1>3 DEF TypeInv, RunShape, WalkShape, Known, AtRest, ProbeShape, Walking
<1> QED
  BY <1>3, <1>4 DEF TypeInv

LEMMA TickShape == TypeInv /\ Tick => TypeInv'
<1> SUFFICES ASSUME TypeInv, Tick PROVE TypeInv'
  OBVIOUS
<1>1. /\ now < MaxTime /\ now' = now + 1
      /\ UNCHANGED << edits, trees, cur, runs, file, pc, index, start, probes, cached, quiet >>
      /\ UNCHANGED << base, todo, opened, gone, recs, short >>
  BY DEF Tick, walk
<1>2. now' \in 0 .. MaxTime /\ now \in Nat /\ now' \in Nat /\ now' >= now /\ 0 .. now \subseteq 0 .. now'
  BY <1>1, IndexAssumption DEF TypeInv, Shapes
<1>3. TreeShape' /\ start' \in [Procs -> 0 .. now']
  BY <1>1, <1>2 DEF TypeInv, Shapes, TreeShape
<1>4. Shapes'
  BY <1>1, <1>2, <1>3 DEF TypeInv, Shapes
<1>5. \A p \in Procs : gone'[p] \subseteq DOMAIN opened[p] /\ (~Walking(p) => gone'[p] = {})
  BY <1>1 DEF TypeInv, RunShape, WalkShape, AtRest
<1>6. cur' >= cur
  BY <1>1, IndexAssumption DEF TypeInv, Shapes
<1> QED
  BY <1>1, <1>2, <1>4, <1>5, <1>6, WorldShape

LEMMA SwapFacts ==
  ASSUME TypeInv, Swap
  PROVE  /\ UNCHANGED << now, runs, file, pc, index, start, probes, walk, cached >>
         /\ quiet' = [p \in Procs |-> ~Active(p)]
         /\ SwapMidRun \/ \A p \in Procs : ~Active(p)
         /\ cur' \in Inos /\ cur' > cur /\ edits' \in 0 .. MaxEdits /\ TreeShape'
<1>1. PICK i \in Inos \ {cur}, m \in {0, now} : \E t \in AnyTree(m) :
         i > cur /\ cur' = i /\ trees' = [trees EXCEPT ![i] = t]
  BY DEF Swap
<1>2. PICK t \in AnyTree(m) : i > cur /\ cur' = i /\ trees' = [trees EXCEPT ![i] = t]
  BY <1>1
<1>3. now \in Nat /\ m \in 0 .. now /\ UNCHANGED now
  BY IndexAssumption DEF TypeInv, Shapes, Swap
<1>4. /\ t \in [exists : SUBSET Paths, git : SUBSET Paths, mtime : [Paths -> 0 .. now]]
      /\ IsTree(t.exists) /\ t.git \subseteq t.exists
  BY <1>3 DEF AnyTree
<1>5. TreeShape'
  BY <1>2, <1>3, <1>4 DEF TypeInv, Shapes, TreeShape
<1>6. edits' \in 0 .. MaxEdits
  BY IndexAssumption DEF Swap, TypeInv, Shapes
<1> QED
  BY <1>2, <1>5, <1>6 DEF Swap

LEMMA SwapShape == TypeInv /\ Swap => TypeInv'
<1> SUFFICES ASSUME TypeInv, Swap PROVE TypeInv'
  OBVIOUS
<1>1. /\ UNCHANGED << now, runs, file, pc, index, start, probes, cached >>
      /\ UNCHANGED << base, todo, opened, gone, recs, short >>
      /\ quiet' \in [Procs -> BOOLEAN]
      /\ cur' \in Inos /\ cur' > cur /\ edits' \in 0 .. MaxEdits /\ TreeShape'
  BY SwapFacts DEF walk, Active
<1>2. Shapes'
  BY <1>1 DEF TypeInv, Shapes
<1>3. now' \in Nat /\ now' >= now /\ cur' >= cur
  BY <1>1, IndexAssumption DEF TypeInv, Shapes
<1>4. \A p \in Procs : gone'[p] \subseteq DOMAIN opened[p] /\ (~Walking(p) => gone'[p] = {})
  BY <1>1 DEF TypeInv, RunShape, WalkShape, AtRest
<1> QED
  BY <1>1, <1>2, <1>3, <1>4, WorldShape

LEMMA EditShape == ASSUME TypeInv, NEW x \in Paths, EditOf(x) PROVE TypeInv'
<1>1. /\ UNCHANGED << now, cur, runs, file, pc, index, start, probes, base, todo, opened, recs,
                      short, cached >>
      /\ edits' \in 0 .. MaxEdits /\ quiet' \in [Procs -> BOOLEAN]
      /\ TreeShape'
      /\ gone' \in [Procs -> SUBSET Paths]
      /\ \A p \in Procs : gone'[p] \subseteq DOMAIN opened[p]
  BY EditFacts DEF Active
<1>2. Shapes'
  BY <1>1 DEF TypeInv, Shapes
<1>3. now' \in Nat /\ now' >= now /\ cur' >= cur
  BY <1>1, IndexAssumption DEF TypeInv, Shapes
<1>4. \A p \in Procs : ~Walking(p) => gone'[p] = {}
  BY <1>1 DEF TypeInv, RunShape, AtRest, Known
<1> QED
  BY <1>1, <1>2, <1>3, <1>4, WorldShape

LEMMA NextTypeInv == TypeInv /\ [Next]_vars => TypeInv'
<1> SUFFICES ASSUME TypeInv, [Next]_vars PROVE TypeInv'
  OBVIOUS
<1>1. ASSUME NEW p \in Procs, Run(p) PROVE TypeInv'
  <2>1. Own(p)'
    BY <1>1, BeginShape, ValidatedShape, CheckAfreshShape, EndShape, ProbeStepShape, SeeGitShape,
       OpenShape, OpenFailsShape, ReadDirShape DEF Run
  <2> QED
    BY <1>1, <2>1, OwnSuffices
<1>2. CASE Environment
  BY <1>2, TickShape, SwapShape, EditShape DEF Environment, EditOf
<1>3. CASE UNCHANGED vars
  BY <1>3 DEF vars, disk, walk, TypeInv, Shapes, TreeShape, IndexShape, Decodes, RunShape, WalkShape, Known,
              AtRest, ProbeShape, Walking
<1> QED
  BY <1>1, <1>2, <1>3 DEF Next

LEMMA TypeInvAlways == Spec => []TypeInv
BY InitTypeInv, NextTypeInv, PTL DEF Spec

\* Every variable stays in its type: no path is found twice in one walk, and no index, on disk
\* or loaded, holds anything but repositories and directories (mod.rs: walk_subtrees;
\* index.rs: decode).
THEOREM TypeCorrect == Spec => []TypeOK
<1>1. TypeInv => TypeOK
  BY DEF TypeInv, Shapes, TreeShape, IndexShape, Decodes, WellLinked, RunShape, WalkShape, TypeOK
<1> QED
  BY <1>1, TypeInvAlways, PTL

\* Whatever is deleted, moved in or fails while it is made, a file that a run leaves is a tree
\* with repositories as leaves, so the next run can decode it (index.rs: build, decode).
THEOREM FilesDecode == Spec => []WrittenDecodes
<1>1. TypeInv => WrittenDecodes
  BY DEF TypeInv, IndexShape, Decodes, WellLinked, WrittenDecodes
<1> QED
  BY <1>1, TypeInvAlways, PTL

-----------------------------------------------------------------------------
(* What may be believed, if no run takes as long as the racy window and    *)
(* the root is not replaced under one.                                     *)

Premises == MaxWalk < Window /\ ~SwapMidRun

\* No directory from the root down to d has been changed at s or later.
Untouched(t, s, d) == \A e \in Chain(d) : t.mtime[e] < s

\* What is known of d is what a walk would find in it now.
Tells(known, t, exclude, d) ==
  d \notin t.git /\ ChildrenOf(d) \cap known = (ChildrenOf(d) \cap t.exists) \ exclude

\* The same of a walk under way, but for the directories it lost.
Covers(known, lost, t, exclude, d) ==
  /\ d \notin t.git
  /\ ChildrenOf(d) \cap known \subseteq (ChildrenOf(d) \cap t.exists) \ exclude
  /\ (ChildrenOf(d) \cap t.exists) \ exclude \subseteq known \cup lost

\* What p's walk may have lost: it has warned of a directory, and any that may fail can be the one.
Lost(p) == IF short[p] THEN Faulty ELSE {}

\* Entries that no probe could refute tell the truth.
Believable(ix) ==
  ix # NoIndex /\ ix.ino = cur =>
    \A d \in DOMAIN ix.entries :
       ix.entries[d].kind = "dir" /\ Untouched(trees[cur], ix.written - Window + 1, d)
         => Tells(DOMAIN ix.entries, trees[cur], ix.exclude, d)

\* Nothing about d has changed since p began.
Settled(p, d) == quiet[p] \/ Untouched(trees[cur], start[p], d)

OnTime(p) == Active(p) => base[p] = cur /\ now - start[p] <= MaxWalk

ProbeTrue(p) ==
  pc[p] = "probe" =>
    /\ Describes(index[p], p) /\ index[p].written <= start[p]
    /\ \A d \in DOMAIN probes[p] :
          /\ probes[p][d].kind = "dir" /\ Settled(p, d) => probes[p][d].mtime = trees[cur].mtime[d]
          /\ probes[p][d].kind = "repo" /\ quiet[p] => d \in trees[cur].git

WalkTrue(p) ==
  Walking(p) =>
    /\ \A d \in gone[p] : ~Settled(p, d)
    /\ Root \in Known(p) \cup Lost(p)
    /\ \A d \in DOMAIN recs[p] :
          /\ recs[p][d].kind = "dir" /\ Settled(p, d)
               => Covers(Known(p), Lost(p), trees[cur], Exclude[p], d)
          /\ recs[p][d].kind = "repo" /\ quiet[p] => d \in trees[cur].git

\* A listing has no repository that is not there, and what it lacks it was warned of.
Explained(l, p) ==
  /\ l.repos \subseteq Listing(p)
  /\ \A d \in Listing(p) \ l.repos : l.short /\ \E f \in Faulty : d \in Below(f)

Checked(p) == Walking(p) /\ quiet[p] /\ cached[p] # NoIndex => Explained(cached[p], p)

RunTrue(p) == Believable(index[p]) /\ OnTime(p) /\ ProbeTrue(p) /\ WalkTrue(p) /\ Checked(p)

TrueInv == TypeInv /\ Believable(file) /\ \A p \in Procs : RunTrue(p)

\* The numbers.
LEMMA Numbers ==
  ASSUME Shapes
  PROVE  /\ now \in Nat /\ cur \in Nat /\ cur \in Inos /\ \A i \in Inos : i \in Nat
         /\ Window \in Nat /\ MaxWalk \in Nat
         /\ \A p \in Procs : start[p] \in Nat /\ start[p] <= now
         /\ \A e \in Paths : trees[cur].mtime[e] \in Nat
         /\ Root \in trees[cur].exists /\ trees[cur].exists \subseteq Paths
         /\ trees[cur].git \subseteq trees[cur].exists
         /\ \A p \in Procs : Root \notin Exclude[p]
<1>1. MaxTime \in Nat /\ Inos \subseteq Nat /\ Window \in Nat /\ MaxWalk \in Nat
      /\ \A p \in Procs : Root \notin Exclude[p]
  BY IndexAssumption
<1>2. now \in 0 .. MaxTime /\ cur \in Inos /\ start \in [Procs -> 0 .. now]
  BY DEF Shapes
<1>3. /\ trees[cur] \in [exists : SUBSET Paths, git : SUBSET Paths, mtime : [Paths -> 0 .. now]]
      /\ IsTree(trees[cur].exists) /\ trees[cur].git \subseteq trees[cur].exists
  BY <1>2 DEF Shapes, TreeShape
<1> QED
  BY <1>1, <1>2, <1>3 DEF IsTree

\* An edit at s or later leaves alone, and left alone before, what is untouched since s.
LEMMA EditSpares ==
  ASSUME TypeInv, NEW x \in Paths, EditOf(x), NEW s \in Int, s <= now,
         NEW d \in Paths, Untouched(trees[cur], s, d)'
  PROVE  /\ Untouched(trees[cur], s, d)
         /\ trees'[cur].mtime[d] = trees[cur].mtime[d]
         /\ d \in trees'[cur].git <=> d \in trees[cur].git
         /\ ChildrenOf(d) \cap trees'[cur].exists = ChildrenOf(d) \cap trees[cur].exists
         /\ \A p \in Procs : d \in gone'[p] => d \in gone[p]
<1> USE DEF Untouched
<1>1. PICK w \in Paths, S \in SUBSET Paths : Changes(w, S)
  BY EditFacts
<1>2. UNCHANGED cur /\ now \in Nat
  BY EditFacts, Numbers DEF TypeInv
<1>3. w \notin Chain(d)
  BY <1>1, <1>2 DEF Changes
<1>4. \A e \in Chain(d) : e \notin S
  <2> SUFFICES ASSUME NEW e \in Chain(d), e \in S PROVE FALSE
    OBVIOUS
  <2>1. w \in Chain(e)
    BY <1>1 DEF Changes, Chain
  <2> QED
    BY <1>3, <2>1, ChainFacts
<1>5. \A c \in ChildrenOf(d) : c \in Paths /\ c \notin S
  <2> SUFFICES ASSUME NEW c \in ChildrenOf(d) PROVE c \in Paths /\ c \notin S
    OBVIOUS
  <2>1. c \in Paths /\ Above[c] = Chain(d)
    BY ChildFacts
  <2> QED
    BY <1>1, <1>3, <2>1 DEF Changes
<1>6. \A e \in Chain(d) : trees'[cur].mtime[e] = trees[cur].mtime[e]
  BY <1>1, <1>3, <1>4, ChainFacts DEF Changes
<1>7. d \in Chain(d)
  BY DEF Chain
<1>8. d \in trees'[cur].git <=> d \in trees[cur].git
  BY <1>1, <1>3, <1>4, <1>7 DEF Changes
<1>9. ChildrenOf(d) \cap trees'[cur].exists = ChildrenOf(d) \cap trees[cur].exists
  BY <1>1, <1>5 DEF Changes
<1>10. \A p \in Procs : d \in gone'[p] => d \in gone[p]
  BY <1>1, <1>4, <1>7 DEF Changes
<1> QED
  BY <1>2, <1>6, <1>7, <1>8, <1>9, <1>10

LEMMA EditTrue == ASSUME TrueInv, Premises, NEW x \in Paths, EditOf(x) PROVE TrueInv'
<1> USE DEF TrueInv
<1>1. /\ UNCHANGED << now, cur, runs, file, pc, index, start, probes, base, todo, opened, recs,
                      short, cached >>
      /\ quiet' = [p \in Procs |-> ~Active(p)]
  BY EditFacts
<1>2. TypeInv'
  BY EditShape
<1>3. now \in Nat /\ Window \in Nat /\ MaxWalk \in Nat /\ \A p \in Procs : start[p] \in Nat /\ start[p] <= now
  BY Numbers DEF TypeInv
<1>4. ASSUME NEW ix, Decodes(ix), Believable(ix) PROVE Believable(ix)'
  <2> SUFFICES ASSUME ix # NoIndex, ix.ino = cur, NEW d \in DOMAIN ix.entries, ix.entries[d].kind = "dir",
                      Untouched(trees[cur], ix.written - Window + 1, d)'
               PROVE  Tells(DOMAIN ix.entries, trees[cur], ix.exclude, d)'
    BY <1>1 DEF Believable
  <2>1. ix.written - Window + 1 \in Int /\ ix.written - Window + 1 <= now /\ d \in Paths
    BY <1>3, <1>4 DEF Decodes, WellLinked, Premises
  <2>2. Untouched(trees[cur], ix.written - Window + 1, d)
    BY <2>1, EditSpares
  <2>3. Tells(DOMAIN ix.entries, trees[cur], ix.exclude, d)
    BY <1>4, <2>2 DEF Believable
  <2> QED
    BY <1>1, <2>1, <2>3, EditSpares DEF Tells
<1>5. Believable(file)' /\ \A p \in Procs : Believable(index[p])'
  BY <1>1, <1>4 DEF TypeInv, RunShape, RunTrue, IndexShape, Believable
<1>6. ASSUME NEW p \in Procs, NEW d \in Paths, Active(p), Settled(p, d)'
      PROVE  /\ Settled(p, d) /\ ~quiet'[p]
             /\ trees'[cur].mtime[d] = trees[cur].mtime[d]
             /\ d \in trees'[cur].git <=> d \in trees[cur].git
             /\ ChildrenOf(d) \cap trees'[cur].exists = ChildrenOf(d) \cap trees[cur].exists
             /\ \A q \in Procs : d \in gone'[q] => d \in gone[q]
  <2>1. ~quiet'[p]
    BY <1>1, <1>6
  <2>2. Untouched(trees[cur], start[p], d)'
    BY <1>6, <2>1 DEF Settled
  <2>3. (start[p])' = start[p] /\ start[p] \in Int /\ start[p] <= now
    BY <1>1, <1>3
  <2>4. Untouched(trees'[cur'], start[p], d)
    BY <2>2, <2>3 DEF Untouched
  <2> QED
    BY <2>1, <2>3, <2>4, EditSpares DEF Settled, Untouched
<1>7. ASSUME NEW p \in Procs PROVE RunTrue(p)'
  <2> USE DEF RunTrue
  <2>1. OnTime(p)'
    BY <1>1 DEF OnTime, Active
  <2>2. ProbeTrue(p)'
    <3> SUFFICES ASSUME pc[p] = "probe", NEW d \in DOMAIN probes[p], probes[p][d].kind = "dir", Settled(p, d)'
                 PROVE  probes[p][d].mtime = trees'[cur].mtime[d]
      BY <1>1 DEF ProbeTrue, Describes, Active
    <3>1. d \in Paths
      BY DEF TypeInv, RunShape, ProbeShape, IndexShape, Decodes, WellLinked
    <3> QED
      BY <3>1, <1>6 DEF ProbeTrue, Active
  <2>3. WalkTrue(p)'
    <3> SUFFICES ASSUME Walking(p) PROVE WalkTrue(p)'
      BY <1>1 DEF WalkTrue, Walking
    <3>1. ~quiet'[p] /\ Active(p) /\ Known(p)' = Known(p)
      BY <1>1 DEF Active, Walking, Known
    <3>2. DOMAIN recs[p] \subseteq Paths /\ gone'[p] \subseteq Paths
      BY <1>2 DEF TypeInv, RunShape, WalkShape, Known
    <3>3. \A d \in gone'[p] : ~Settled(p, d)'
      BY <1>6, <3>1, <3>2 DEF WalkTrue
    <3>4. Lost(p)' = Lost(p)
      BY <1>1 DEF Lost
    <3>5. ASSUME NEW d \in DOMAIN recs[p], recs[p][d].kind = "dir", Settled(p, d)'
          PROVE  Covers(Known(p), Lost(p), trees[cur], Exclude[p], d)'
      <4>1. Covers(Known(p), Lost(p), trees[cur], Exclude[p], d)
        BY <1>6, <3>1, <3>2, <3>5 DEF WalkTrue
      <4> QED
        BY <1>1, <1>6, <3>1, <3>2, <3>4, <3>5, <4>1 DEF Covers
    <3> QED
      BY <1>1, <3>1, <3>3, <3>4, <3>5 DEF WalkTrue
  <2>4. Checked(p)'
    BY <1>1 DEF Checked, Walking, Active
  <2> QED
    BY <1>5, <2>1, <2>2, <2>3, <2>4
<1> QED
  BY <1>2, <1>5, <1>7

LEMMA SameTruth ==
  ASSUME UNCHANGED disk, NEW q, UNCHANGED Mine(q), RunTrue(q)
  PROVE  RunTrue(q)'
BY DEF disk, Mine, RunTrue, Believable, OnTime, Active, ProbeTrue, Describes, WalkTrue, Walking, Known,
       Settled, Untouched, Tells, Covers, Lost, Checked, Explained, Listing

LEMMA BelievedStill ==
  ASSUME UNCHANGED disk
  PROVE  \A ix : Believable(ix) => Believable(ix)'
BY DEF disk, Believable, Untouched, Tells

\* The part of the invariant that a step of p may disturb.
OwnTrue(p) == Believable(file) /\ RunTrue(p)

LEMMA OwnTrueSuffices ==
  ASSUME TrueInv, NEW p \in Procs, Run(p), TypeInv', OwnTrue(p)'
  PROVE  TrueInv'
<1>1. \A q \in Procs \ {p} : RunTrue(q)'
  BY OthersStay, SameTruth DEF TrueInv, TypeInv
<1> QED
  BY <1>1 DEF TrueInv, OwnTrue

\* A walk that begins knows nothing but the root.
LEMMA StartWalkTrue ==
  ASSUME TypeInv, NEW p \in Procs, gone[p] = {}, DOMAIN opened[p] = {}, StartWalk(p), UNCHANGED disk,
         start'[p] \in Nat, start'[p] <= now, now - start'[p] <= MaxWalk,
         IF cached'[p] # NoIndex /\ quiet'[p] THEN Explained(cached'[p], p) ELSE TRUE
  PROVE  OnTime(p)' /\ ProbeTrue(p)' /\ WalkTrue(p)' /\ Checked(p)'
<1>1. /\ pc'[p] = "walk" /\ todo'[p] = {Root} /\ DOMAIN recs'[p] = {} /\ base'[p] = cur
      /\ gone'[p] = {} /\ DOMAIN opened'[p] = {}
  BY StartWalkShape DEF TypeInv
<1>2. OnTime(p)' /\ ProbeTrue(p)'
  BY <1>1 DEF OnTime, ProbeTrue, disk
<1>3. WalkTrue(p)'
  BY <1>1 DEF WalkTrue, Known
<1>4. Listing(p)' = Listing(p)
  BY DEF Listing, disk
<1>5. Checked(p)'
  BY <1>4 DEF Checked, Explained
<1> QED
  BY <1>2, <1>3, <1>5

LEMMA BeginTrue == ASSUME TrueInv, NEW p \in Procs, Begin(p) PROVE OwnTrue(p)'
<1> USE DEF TrueInv
<1>1. /\ pc[p] = "idle" /\ start' = [start EXCEPT ![p] = now]
      /\ UNCHANGED << disk, file, probes, cached, quiet >>
  BY DEF Begin
<1>2. /\ DOMAIN opened[p] = {} /\ gone[p] = {} /\ cached[p] = NoIndex /\ DOMAIN probes[p] = {}
      /\ start'[p] = now /\ now \in Nat /\ MaxWalk \in Nat
  BY <1>1, Numbers DEF TypeInv, Shapes, RunShape, AtRest, Known, Walking
<1>3. Believable(file)'
  BY <1>1, BelievedStill DEF Believable
<1>4. CASE file # NoIndex /\ Describes(file, p)
  <2>1. index'[p] = file /\ base'[p] = cur /\ pc'[p] = "probe"
    BY <1>4 DEF Begin, Goto, TypeInv, Shapes
  <2>2. Believable(index[p])'
    BY <1>3, <1>1, <2>1 DEF Believable
  <2>3. OnTime(p)'
    BY <1>1, <1>2, <2>1 DEF OnTime, disk
  <2>4. ProbeTrue(p)'
    <3>1. file.written <= now
      BY <1>2, <1>4 DEF TypeInv, IndexShape, Decodes
    <3> QED
      BY <1>1, <1>2, <1>4, <2>1, <3>1 DEF ProbeTrue, Describes, disk
  <2>5. WalkTrue(p)' /\ Checked(p)'
    BY <2>1 DEF WalkTrue, Checked, Walking
  <2> QED
    BY <1>3, <2>2, <2>3, <2>4, <2>5 DEF OwnTrue, RunTrue
<1>5. CASE ~(file # NoIndex /\ Describes(file, p))
  <2>1. StartWalk(p) /\ UNCHANGED index
    BY <1>5 DEF Begin
  <2>2. OnTime(p)' /\ ProbeTrue(p)' /\ WalkTrue(p)' /\ Checked(p)'
    BY <1>1, <1>2, <2>1, StartWalkTrue
  <2>3. Believable(index[p])'
    BY <1>1, <2>1, BelievedStill DEF RunTrue, Believable
  <2> QED
    BY <1>3, <2>2, <2>3 DEF OwnTrue, RunTrue
<1> QED
  BY <1>4, <1>5

LEMMA ProbeStepTrue == ASSUME TrueInv, NEW p \in Procs, NEW d \in Paths, Probe(p, d) PROVE OwnTrue(p)'
<1> USE DEF TrueInv
<1>1. /\ pc[p] = "probe"
      /\ probes' = [probes EXCEPT ![p] = With(@, d, Found(index[p], Tree(p), d))]
      /\ UNCHANGED << disk, file, pc, index, start, cached, quiet >>
      /\ UNCHANGED << base, todo, opened, gone, recs, short >>
  BY DEF Probe, walk
<1>2. /\ DOMAIN probes'[p] = DOMAIN probes[p] \cup {d}
      /\ probes'[p][d] = Found(index[p], Tree(p), d)
      /\ \A e \in DOMAIN probes[p] : e # d => probes'[p][e] = probes[p][e]
  BY <1>1 DEF TypeInv, Shapes, With
<1>3. Tree(p) = trees[cur]
  BY <1>1 DEF RunTrue, OnTime, Active, Tree
<1>4. /\ probes'[p][d].kind = "dir" => probes'[p][d].mtime = trees[cur].mtime[d]
      /\ probes'[p][d].kind = "repo" => d \in trees[cur].git
  BY <1>2, <1>3 DEF Found, Repo, Dir, Stale
<1>5. ProbeTrue(p)'
  <2>1. ProbeTrue(p) /\ UNCHANGED << index, start, quiet, pc, trees, cur >>
    BY <1>1 DEF RunTrue, disk
  <2>2. \A e : Settled(p, e)' <=> Settled(p, e)
    BY <2>1 DEF Settled, Untouched
  <2> QED
    BY <1>1, <1>2, <1>4, <2>1, <2>2 DEF ProbeTrue, Describes
<1>6. Believable(file)' /\ Believable(index[p])'
  BY <1>1, BelievedStill DEF RunTrue, Believable
<1>7. OnTime(p)' /\ WalkTrue(p)' /\ Checked(p)'
  BY <1>1 DEF RunTrue, OnTime, Active, WalkTrue, Checked, Walking, disk
<1> QED
  BY <1>5, <1>6, <1>7 DEF OwnTrue, RunTrue

\* An entry that is reused tells the truth, if nothing has disturbed it since the run began: the
\* probes of it and of those above it were hits, none of them racy, so that nothing about it has
\* changed since the index was written.
LEMMA HitIsTrue ==
  ASSUME TrueInv, NEW p \in Procs, pc[p] = "probe", DOMAIN probes[p] = DOMAIN index[p].entries,
         NEW d \in Hits(index[p], probes[p]), probes[p][d].kind = "dir", Settled(p, d)
  PROVE  Tells(Visited(index[p], probes[p]), trees[cur], Exclude[p], d)
<1> DEFINE ix == index[p]
           pr == probes[p]
           s == ix.written - Window + 1
<1>1. Decodes(ix) /\ ix # NoIndex /\ Believable(ix)
  BY DEF TrueInv, TypeInv, RunShape, ProbeShape, IndexShape, RunTrue
<1>2. /\ ix.ino = cur /\ ix.exclude = Exclude[p]
      /\ \A e \in DOMAIN pr : pr[e].kind = "dir" /\ Settled(p, e) => pr[e].mtime = trees[cur].mtime[e]
  BY DEF TrueInv, RunTrue, ProbeTrue, Describes
<1>3. /\ ix.written \in Nat /\ Window \in Nat /\ \A e \in Paths : trees[cur].mtime[e] \in Nat
  BY <1>1, Numbers DEF TrueInv, TypeInv, Decodes
<1>4. d \in DOMAIN ix.entries /\ DOMAIN ix.entries \in SUBSET Paths /\ Climbs(DOMAIN ix.entries)
  BY <1>1 DEF Hits, Visited, Decodes, WellLinked, Climbs
<1>5. Chain(d) \subseteq DOMAIN ix.entries
  BY <1>4, ClimbReaches DEF Chain
<1>6. \A e \in Chain(d) : Hit(ix, pr, e) /\ pr[e].kind = "dir"
  BY DEF Hits, Visited, Chain
<1>7. \A e \in Chain(d) : Settled(p, e)
  BY <1>4, ChainFacts DEF Settled, Untouched
<1>8. ASSUME NEW e \in Chain(d) PROVE trees[cur].mtime[e] < s
  <2>1. pr[e].mtime = trees[cur].mtime[e] /\ trees[cur].mtime[e] \in Nat
    BY <1>2, <1>3, <1>4, <1>5, <1>6, <1>7
  <2>2. ~(trees[cur].mtime[e] > ix.written - Window)
    BY <1>6, <2>1 DEF Hit, IsRacy
  <2> QED
    BY <1>3, <2>1, <2>2
<1>9. Untouched(trees[cur], s, d) /\ ix.entries[d].kind = "dir"
  BY <1>8 DEF Untouched, Hits, Hit
<1>10. Tells(DOMAIN ix.entries, trees[cur], ix.exclude, d)
  BY <1>1, <1>2, <1>4, <1>9 DEF Believable
<1>11. ASSUME NEW c \in ChildrenOf(d) PROVE c \in Visited(ix, pr) <=> c \in DOMAIN ix.entries
  BY <1>4, <1>6, ChildFacts DEF Visited
<1> QED
  BY <1>2, <1>10, <1>11 DEF Tells

LEMMA ValidatedTrue == ASSUME TrueInv, NEW p \in Procs, Validated(p) PROVE OwnTrue(p)'
<1> DEFINE seen == Visited(index[p], probes[p])
           hits == Hits(index[p], probes[p])
           stale == seen \ hits
<1> USE DEF TrueInv
<1>1. /\ pc[p] = "probe" /\ DOMAIN probes[p] = DOMAIN index[p].entries
      /\ index' = [index EXCEPT ![p] = NoIndex]
      /\ UNCHANGED << disk, runs, file, start, cached, quiet >>
  BY DEF Validated
<1>2. /\ DOMAIN opened[p] = {} /\ gone[p] = {} /\ cached[p] = NoIndex
      /\ base[p] = cur /\ now - start[p] <= MaxWalk /\ start[p] \in Nat /\ start[p] <= now
  BY <1>1, Numbers DEF TypeInv, RunShape, AtRest, Known, Walking, RunTrue, OnTime, Active
<1>3. Believable(file)' /\ Believable(index[p])'
  <2>1. index'[p] = NoIndex
    BY <1>1 DEF TypeInv, Shapes
  <2> QED
    BY <1>1, <2>1, BelievedStill DEF Believable
<1>4. CASE Root \in stale
  <2>1. StartWalk(p)
    BY <1>4 DEF Validated
  <2>2. OnTime(p)' /\ ProbeTrue(p)' /\ WalkTrue(p)' /\ Checked(p)'
    BY <1>1, <1>2, <2>1, StartWalkTrue
  <2> QED
    BY <1>3, <2>2 DEF OwnTrue, RunTrue
<1>5. CASE Root \notin stale
  <2>1. /\ recs' = [recs EXCEPT ![p] = [d \in hits |-> probes[p][d]]]
        /\ todo' = [todo EXCEPT ![p] = stale]
        /\ base' = [base EXCEPT ![p] = cur]
        /\ pc' = [pc EXCEPT ![p] = "rewalk"]
        /\ UNCHANGED << opened, gone, short >>
    BY <1>5 DEF Validated, Goto
  <2>2. Decodes(index[p])
    BY <1>1 DEF TypeInv, RunShape, ProbeShape, IndexShape
  <2>3. Root \in seen /\ hits \subseteq seen /\ seen \subseteq DOMAIN probes[p]
    BY <1>1, <2>2, VisitedShape
  <2>4. \A d \in hits : probes[p][d].kind = "dir" /\ Settled(p, d) => Tells(seen, trees[cur], Exclude[p], d)
    BY <1>1, HitIsTrue
  <2>5. \A d \in hits : probes[p][d].kind = "repo" /\ quiet[p] => d \in trees[cur].git
    BY <1>1, <2>3 DEF RunTrue, ProbeTrue
  <2> HIDE DEF seen, hits
  <2>6. /\ recs'[p] = [d \in hits |-> probes[p][d]] /\ todo'[p] = stale /\ pc'[p] = "rewalk"
        /\ DOMAIN opened'[p] = {} /\ gone'[p] = {} /\ base'[p] = cur /\ cached'[p] = NoIndex
    BY <1>1, <1>2, <2>1 DEF TypeInv, Shapes
  <2>7. Known(p)' = seen
    BY <2>3, <2>6 DEF Known
  <2>8. \A d : Settled(p, d)' <=> Settled(p, d)
    BY <1>1 DEF Settled, Untouched, disk
  <2>9. WalkTrue(p)'
    <3>1. ASSUME NEW d \in hits, probes[p][d].kind = "dir", Settled(p, d)
          PROVE  Covers(seen, Lost(p)', trees[cur], Exclude[p], d)
      BY <2>4, <3>1 DEF Tells, Covers
    <3> QED
      BY <1>1, <2>3, <2>5, <2>6, <2>7, <2>8, <3>1 DEF WalkTrue, disk
  <2>10. OnTime(p)' /\ ProbeTrue(p)' /\ Checked(p)'
    BY <1>1, <1>2, <2>6 DEF OnTime, ProbeTrue, Checked, disk
  <2> QED
    BY <1>3, <2>9, <2>10 DEF OwnTrue, RunTrue
<1> QED
  BY <1>4, <1>5

\* What the steps of a walk leave alone.
LEMMA WalkRestTrue ==
  ASSUME TrueInv, NEW p \in Procs, Walking(p), UNCHANGED walkRest, WalkTrue(p)'
  PROVE  OwnTrue(p)'
<1>1. UNCHANGED << disk, file, pc, index, start, probes, base, cached, quiet >>
  BY DEF walkRest
<1>2. Believable(file)' /\ Believable(index[p])'
  BY <1>1, BelievedStill DEF TrueInv, RunTrue, Believable
<1>3. OnTime(p)' /\ Checked(p)'
  BY <1>1 DEF TrueInv, RunTrue, OnTime, Active, Checked, Explained, Walking, Listing, disk
<1>4. ProbeTrue(p)'
  BY <1>1 DEF ProbeTrue, Walking
<1> QED
  BY <1>2, <1>3, <1>4 DEF OwnTrue, RunTrue

\* While p walks, its root descriptor is the root.
LEMMA WalkOnTime ==
  ASSUME TrueInv, NEW p \in Procs, Walking(p)
  PROVE  Tree(p) = trees[cur] /\ WalkTrue(p) /\ WalkShape(p)
BY DEF TrueInv, TypeInv, RunShape, RunTrue, OnTime, Active, Walking, Tree

LEMMA SeeGitTrue == ASSUME TrueInv, NEW p \in Procs, NEW d \in Paths, SeeGit(p, d) PROVE OwnTrue(p)'
<1>1. /\ Walking(p) /\ d \in todo[p] /\ d \in Tree(p).git
      /\ UNCHANGED walkRest /\ UNCHANGED << opened, gone, short >>
      /\ recs' = [recs EXCEPT ![p] = With(@, d, Repo)]
      /\ todo' = [todo EXCEPT ![p] = @ \ {d}]
  BY DEF SeeGit
<1>2. /\ DOMAIN recs'[p] = DOMAIN recs[p] \cup {d} /\ recs'[p][d].kind = "repo"
      /\ \A e \in DOMAIN recs[p] : e # d => recs'[p][e] = recs[p][e]
  BY <1>1 DEF TrueInv, TypeInv, Shapes, With, Repo
<1>3. Known(p)' = Known(p) /\ Lost(p)' = Lost(p) /\ UNCHANGED << trees, cur, quiet, start >>
  BY <1>1, <1>2 DEF TrueInv, TypeInv, Shapes, Known, Lost, walkRest, disk
<1>4. \A e : Settled(p, e)' <=> Settled(p, e)
  BY <1>3 DEF Settled, Untouched
<1>5. WalkTrue(p)'
  BY <1>1, <1>2, <1>3, <1>4, WalkOnTime DEF WalkTrue
<1> QED
  BY <1>1, <1>5, WalkRestTrue

\* What is not there when it is opened, its parent's record cannot be true of.
LEMMA OpenTrue == ASSUME TrueInv, NEW p \in Procs, NEW d \in Paths, Open(p, d) PROVE OwnTrue(p)'
<1>1. /\ Walking(p) /\ d \in todo[p] /\ UNCHANGED walkRest /\ UNCHANGED << gone, recs, short >>
      /\ todo' = [todo EXCEPT ![p] = @ \ {d}]
      /\ IF d \in Tree(p).exists
         THEN opened' = [opened EXCEPT ![p] = With(@, d, Tree(p).mtime[d])]
         ELSE UNCHANGED opened
  BY DEF Open
<1>2. UNCHANGED << trees, cur, quiet, start >> /\ Lost(p)' = Lost(p)
  BY <1>1 DEF walkRest, disk, Lost
<1>3. \A e : Settled(p, e)' <=> Settled(p, e)
  BY <1>2 DEF Settled, Untouched
<1>4. Tree(p) = trees[cur] /\ WalkTrue(p) /\ WalkShape(p)
  BY <1>1, WalkOnTime
<1>5. CASE d \in Tree(p).exists
  <2>1. Known(p)' = Known(p)
    BY <1>1, <1>5 DEF TrueInv, TypeInv, Shapes, Known, With
  <2>2. WalkTrue(p)'
    BY <1>1, <1>2, <1>3, <1>4, <2>1 DEF WalkTrue
  <2> QED
    BY <1>1, <2>2, WalkRestTrue
<1>6. CASE d \notin Tree(p).exists
  <2>1. Known(p)' = Known(p) \ {d}
    BY <1>1, <1>4, <1>6 DEF TrueInv, TypeInv, Shapes, Known, WalkShape
  <2>2. d # Root
    BY <1>4, <1>6, Numbers DEF TrueInv, TypeInv
  <2>3. ASSUME NEW e \in DOMAIN recs[p], Covers(Known(p), Lost(p), trees[cur], Exclude[p], e)
        PROVE  Covers(Known(p), Lost(p), trees[cur], Exclude[p], e)'
    BY <1>2, <1>4, <1>6, <2>1, <2>3 DEF Covers
  <2>4. WalkTrue(p)'
    BY <1>1, <1>2, <1>3, <1>4, <2>1, <2>2, <2>3 DEF WalkTrue
  <2> QED
    BY <1>1, <2>4, WalkRestTrue
<1> QED
  BY <1>5, <1>6

LEMMA OpenFailsTrue == ASSUME TrueInv, NEW p \in Procs, NEW d \in Paths, OpenFails(p, d) PROVE OwnTrue(p)'
<1>1. /\ Walking(p) /\ UNCHANGED walkRest /\ UNCHANGED << opened, gone, recs >> /\ short'[p]
      /\ d \in Faulty /\ todo'[p] = todo[p] \ {d}
  BY DEF OpenFails, TrueInv, TypeInv, Shapes
<1>2. \A e : Settled(p, e)' <=> Settled(p, e)
  BY <1>1 DEF Settled, Untouched, walkRest, disk
<1>3. /\ Known(p)' \subseteq Known(p) /\ Known(p) \cup Lost(p) \subseteq Known(p)' \cup Lost(p)'
      /\ UNCHANGED << trees, cur, quiet >>
  BY <1>1 DEF Known, Lost, walkRest, disk
<1>4. ASSUME NEW e \in DOMAIN recs[p], Covers(Known(p), Lost(p), trees[cur], Exclude[p], e)
      PROVE  Covers(Known(p), Lost(p), trees[cur], Exclude[p], e)'
  BY <1>3, <1>4 DEF Covers
<1>5. WalkTrue(p)'
  BY <1>1, <1>2, <1>3, <1>4, WalkOnTime DEF WalkTrue
<1> QED
  BY <1>1, <1>5, WalkRestTrue

\* A directory that is read is told the truth about, unless it was deleted or something about it
\* has changed; what the others' records say is not disturbed.
LEMMA ReadDirTrue == ASSUME TrueInv, NEW p \in Procs, NEW d \in Paths, ReadDir(p, d) PROVE OwnTrue(p)'
<1> DEFINE git == d \in trees[cur].git /\ d \notin gone[p]
           found == IF d \in gone[p] THEN {} ELSE (ChildrenOf(d) \cap trees[cur].exists) \ Exclude[p]
           new == IF git THEN {} ELSE found
<1> HIDE DEF git, found
<1>1. Walking(p)
  BY DEF ReadDir
<1>2. Tree(p) = trees[cur] /\ WalkTrue(p) /\ WalkShape(p)
  BY <1>1, WalkOnTime
<1>3. /\ d \in DOMAIN opened[p] /\ UNCHANGED walkRest /\ UNCHANGED short
      /\ DOMAIN recs'[p] = DOMAIN recs[p] \cup {d}
      /\ recs'[p][d] = IF git THEN Repo ELSE Dir(opened[p][d])
      /\ \A e \in DOMAIN recs[p] : recs'[p][e] = recs[p][e]
      /\ todo'[p] = todo[p] \cup new
      /\ DOMAIN opened'[p] = DOMAIN opened[p] \ {d} /\ gone'[p] = gone[p] \ {d}
  BY <1>2, ReadDirFacts DEF TrueInv, git, found
<1>4. d \notin DOMAIN recs[p]
  BY <1>2, <1>3 DEF WalkShape
<1>5. UNCHANGED << trees, cur, quiet, start >> /\ \A e : Settled(p, e)' <=> Settled(p, e)
  BY <1>3 DEF Settled, Untouched, walkRest, disk
<1>11. Lost(p)' = Lost(p)
  BY <1>3 DEF Lost
<1>6. new \subseteq ChildrenOf(d) /\ ChildrenOf(d) \cap Known(p) = {}
  <2>1. new \subseteq ChildrenOf(d)
    BY DEF found
  <2>2. \A c \in ChildrenOf(d) : c # Root /\ Parent[c] = d
    BY ChildFacts
  <2> QED
    BY <1>2, <1>4, <2>1, <2>2 DEF WalkShape
<1>7. Known(p)' = Known(p) \cup new
  <2> HIDE DEF new
  <2> QED
    BY <1>3 DEF Known
<1>8. ASSUME NEW e \in DOMAIN recs[p], Covers(Known(p), Lost(p), trees[cur], Exclude[p], e)
      PROVE  Covers(Known(p), Lost(p), trees[cur], Exclude[p], e)'
  <2>1. e \in Paths /\ e # d
    BY <1>2, <1>4, <1>8 DEF WalkShape, WellLinked
  <2>2. ChildrenOf(e) \cap new = {}
    BY <1>6, <2>1, ChildFacts
  <2> HIDE DEF new
  <2> QED
    BY <1>5, <1>11, <1>7, <1>8, <2>2 DEF Covers
<1>9. /\ recs'[p][d].kind = "dir" /\ Settled(p, d) => Covers(Known(p), Lost(p), trees[cur], Exclude[p], d)'
      /\ recs'[p][d].kind = "repo" => d \in trees[cur].git
  <2>1. CASE git
    BY <1>3, <2>1 DEF Repo, git
  <2>2. CASE ~git /\ ~Settled(p, d)
    BY <1>3, <2>2 DEF Dir
  <2>3. CASE ~git /\ Settled(p, d)
    <3>1. d \notin gone[p]
      BY <1>1, <1>2, <2>3 DEF WalkTrue
    <3>2. d \notin trees[cur].git /\ new = (ChildrenOf(d) \cap trees[cur].exists) \ Exclude[p]
      BY <2>3, <3>1 DEF git, found
    <3>3. ChildrenOf(d) \cap Known(p)' = new
      BY <1>6, <1>7
    <3>4. Covers(Known(p), Lost(p), trees[cur], Exclude[p], d)'
      BY <1>5, <3>2, <3>3 DEF Covers
    <3>5. recs'[p][d].kind = "dir"
      BY <1>3, <2>3 DEF Dir
    <3> QED
      BY <3>4, <3>5
  <2> QED
    BY <2>1, <2>2, <2>3
<1> HIDE DEF new
<1>10. WalkTrue(p)'
  BY <1>1, <1>2, <1>3, <1>5, <1>11, <1>7, <1>8, <1>9 DEF WalkTrue
<1> QED
  BY <1>1, <1>3, <1>10, WalkRestTrue

\* Over a tree that was left alone, what a walk has recorded is what a walk would print, but for
\* what it lost: from a record up, all are directories that are no repositories and not excluded;
\* from a repository down, the first directory without a record is one that its parent's tells of,
\* or that did not open.
LEMMA QuietWalk ==
  ASSUME TrueInv, NEW p \in Procs, WalkOver(p), quiet[p]
  PROVE  /\ Repos(recs[p]) \subseteq Listing(p)
         /\ \A d \in Listing(p) \ Repos(recs[p]) : Chain(d) \cap Lost(p) # {}
<1> DEFINE t == trees[cur]
           K == DOMAIN recs[p]
           D == {e \in K : recs[p][e].kind = "dir"}
<1>1. /\ Known(p) = K /\ K \subseteq Paths /\ WellLinked(recs[p])
      /\ Root \in K \cup Lost(p)
      /\ \A e \in D : Covers(K, Lost(p), t, Exclude[p], e)
      /\ \A e \in K : recs[p][e].kind = "repo" => e \in t.git
  <2>1. Walking(p) /\ Known(p) = K
    BY DEF WalkOver, Known
  <2> QED
    BY <2>1, WalkOnTime DEF WalkTrue, WalkShape, Settled
<1>2. /\ Root \notin Exclude[p] /\ t.git \subseteq t.exists
      /\ t.exists \subseteq Paths /\ Climbs(t.exists)
  BY Numbers DEF TrueInv, TypeInv, Shapes, TreeShape, IsTree, Climbs
<1>3. ASSUME NEW e \in K, e # Root PROVE Parent[e] \in D /\ e \in ChildrenOf(Parent[e])
  BY <1>1, <1>3 DEF WellLinked, ChildrenOf
<1>4. \A e \in K : e \notin Exclude[p]
  BY <1>1, <1>2, <1>3 DEF Covers
<1>5. ASSUME NEW d \in Repos(recs[p]) PROVE d \in Listing(p)
  <2>1. d \in K /\ recs[p][d].kind = "repo" /\ d \in t.git /\ d \in Paths
    BY <1>1 DEF Repos
  <2>2. Climbs(D \cup {d}) /\ D \cup {d} \in SUBSET Paths
    BY <1>1, <1>3, <2>1 DEF Climbs
  <2>3. \A e \in Above[d] : e \in D
    BY <2>1, <2>2, ClimbReaches, NotBelowItself
  <2> QED
    BY <1>1, <1>4, <2>1, <2>3 DEF Listing, Covers
<1>6. ASSUME NEW d \in Listing(p), Chain(d) \cap Lost(p) = {} PROVE d \in Repos(recs[p])
  <2> DEFINE B == Chain(d) \ K
  <2>1. /\ d \in t.git /\ d \in Paths /\ d \notin Exclude[p]
        /\ \A e \in Above[d] : e \notin Exclude[p] /\ e \notin t.git
    BY <1>2 DEF Listing
  <2>2. Chain(d) \subseteq t.exists
    BY <1>2, <2>1, ClimbReaches DEF Chain
  <2>3. ASSUME NEW e \in B, e # Root PROVE Parent[e] \in B
    <3>1. e \in Paths /\ e \in t.exists /\ e \notin Exclude[p] /\ e \in ChildrenOf(Parent[e])
      BY <2>1, <2>2, <2>3, ChainFacts DEF Chain, ChildrenOf
    <3>2. Parent[e] \in Above[d]
      BY <2>1, <2>3, AboveClimbs, ParentAbove DEF Chain, Climbs
    <3>3. Parent[e] \notin D
      BY <1>1, <1>6, <2>3, <3>1 DEF Covers
    <3>4. Parent[e] \notin K
      BY <1>1, <2>1, <3>2, <3>3 DEF WellLinked
    <3> QED
      BY <3>2, <3>4 DEF Chain
  <2>4. d \in K
    <3> SUFFICES ASSUME d \notin K PROVE FALSE
      OBVIOUS
    <3>1. d \in B /\ Climbs(B) /\ B \in SUBSET Paths
      BY <2>1, <2>3, ChainFacts DEF Climbs, Chain
    <3>2. Root \in B
      BY <2>1, <3>1, ClimbReaches, ChainFacts DEF Chain
    <3> QED
      BY <1>1, <1>6, <3>2
  <2> QED
    BY <1>1, <2>1, <2>4 DEF Repos, Covers, WellLinked
<1> QED
  BY <1>5, <1>6

LEMMA QuietListing ==
  ASSUME TrueInv, NEW p \in Procs, WalkOver(p), quiet[p]
  PROVE  /\ ~short[p] => Repos(recs[p]) = Listing(p)
         /\ Explained([repos |-> Repos(recs[p]), short |-> short[p]], p)
<1>1. \A d \in Listing(p) : d \in Paths
  BY Numbers DEF Listing, TrueInv, TypeInv
<1>2. ASSUME NEW d \in Listing(p) \ Repos(recs[p]) PROVE short[p] /\ \E f \in Faulty : d \in Below(f)
  <2>1. PICK f \in Chain(d) : f \in Lost(p)
    BY <1>2, QuietWalk
  <2>2. short[p] /\ f \in Faulty
    BY <2>1 DEF Lost
  <2>3. d \in Below(f)
    BY <1>1, <1>2, <2>1 DEF Chain, Below
  <2> QED
    BY <2>2, <2>3
<1> QED
  BY <1>2, QuietWalk DEF Explained


LEMMA CheckAfreshTrue == ASSUME TrueInv, NEW p \in Procs, CheckAfresh(p) PROVE OwnTrue(p)'
<1>1. /\ WalkOver(p) /\ StartWalk(p)
      /\ cached' = [cached EXCEPT ![p] = [repos |-> Repos(recs[p]), short |-> short[p]]]
      /\ UNCHANGED << disk, runs, file, index, start, probes, quiet >>
  BY DEF CheckAfresh
<1>2. /\ DOMAIN opened[p] = {} /\ gone[p] = {}
      /\ now - start[p] <= MaxWalk /\ start[p] \in Nat /\ start[p] <= now
  BY <1>1, Numbers DEF TrueInv, TypeInv, RunShape, WalkShape, WalkOver, RunTrue, OnTime, Active, Walking
<1>3. cached'[p] = [repos |-> Repos(recs[p]), short |-> short[p]]
  BY <1>1 DEF TrueInv, TypeInv, Shapes
<1>4. quiet[p] => Explained(cached'[p], p)
  BY <1>1, <1>3, QuietListing
<1>5. OnTime(p)' /\ ProbeTrue(p)' /\ WalkTrue(p)' /\ Checked(p)'
  BY <1>1, <1>2, <1>4, StartWalkTrue DEF TrueInv
<1>6. Believable(file)' /\ Believable(index[p])'
  BY <1>1, BelievedStill DEF TrueInv, RunTrue, Believable
<1> QED
  BY <1>5, <1>6 DEF OwnTrue, RunTrue

\* What is built can be believed: what would not be racy in it is settled since the run began.
LEMMA BuiltTrue ==
  ASSUME TrueInv, Premises, NEW p \in Procs, WalkOver(p), ~short[p]
  PROVE  Believable(Built(p))
<1> SUFFICES ASSUME NEW d \in DOMAIN recs[p], recs[p][d].kind = "dir",
                    Untouched(trees[cur], now - Window + 1, d)
             PROVE  Tells(DOMAIN recs[p], trees[cur], Exclude[p], d)
  BY DEF Believable, Built
<1>1. Walking(p) /\ Known(p) = DOMAIN recs[p]
  BY DEF WalkOver, Known
<1>2. WalkTrue(p) /\ WalkShape(p)
  BY <1>1, WalkOnTime
<1>3. /\ now \in Nat /\ Window \in Nat /\ MaxWalk \in Nat /\ start[p] \in Nat
      /\ now - start[p] <= MaxWalk /\ MaxWalk < Window
      /\ \A e \in Paths : trees[cur].mtime[e] \in Nat
  BY <1>1, Numbers DEF TrueInv, TypeInv, RunTrue, OnTime, Active, Walking, Premises
<1>4. d \in Paths
  BY <1>2 DEF WalkShape, WellLinked
<1>5. ASSUME NEW e \in Chain(d) PROVE trees[cur].mtime[e] < start[p]
  <2>1. trees[cur].mtime[e] < now - Window + 1 /\ trees[cur].mtime[e] \in Nat
    BY <1>3, <1>4, ChainFacts DEF Untouched
  <2> QED
    BY <1>3, <2>1
<1>6. Settled(p, d)
  BY <1>5 DEF Settled, Untouched
<1>7. Lost(p) = {} /\ Covers(DOMAIN recs[p], Lost(p), trees[cur], Exclude[p], d)
  BY <1>1, <1>2, <1>6 DEF WalkTrue, Lost
<1> QED
  BY <1>7 DEF Covers, Tells

LEMMA EndTrue ==
  ASSUME TrueInv, Premises, NEW p \in Procs, Build(p) \/ Store(p) \/ GiveUp(p)
  PROVE  OwnTrue(p)'
<1>1. Believable(file) /\ Believable(index[p]) /\ Believable(NoIndex)
  BY DEF TrueInv, RunTrue, Believable
<1>2. \E l \in {"idle", "store"} : \E ix : Drop(p, l, ix) /\ IndexShape(ix) /\ Believable(ix)
  BY <1>1, BuiltDecodes, BuiltTrue DEF Build, Store, GiveUp, IndexShape, TrueInv
<1>3. PICK l \in {"idle", "store"} : \E ix : Drop(p, l, ix) /\ IndexShape(ix) /\ Believable(ix)
  BY <1>2
<1>4. PICK ix : Drop(p, l, ix) /\ IndexShape(ix) /\ Believable(ix)
  BY <1>3
<1>5. UNCHANGED disk
  BY <1>4 DEF Drop
<1>6. file' = file \/ file' = index[p]
  BY DEF Build, Store, GiveUp
<1>7. IndexShape(file)'
  BY EndShape DEF TrueInv, Own
<1>8. pc'[p] = l /\ index'[p] = ix
  BY <1>4, <1>7, DropShape DEF TrueInv
<1>9. Believable(file)' /\ Believable(index[p])'
  BY <1>1, <1>4, <1>5, <1>6, <1>8, BelievedStill DEF Believable
<1>10. OnTime(p)' /\ ProbeTrue(p)' /\ WalkTrue(p)' /\ Checked(p)'
  BY <1>8 DEF OnTime, Active, ProbeTrue, WalkTrue, Checked, Walking
<1> QED
  BY <1>9, <1>10 DEF OwnTrue, RunTrue

\* The bound on a run's time is what makes its windows last.
LEMMA TickTrue == TrueInv /\ Tick => TrueInv'
<1> SUFFICES ASSUME TrueInv, Tick PROVE TrueInv'
  OBVIOUS
<1>1. /\ now' = now + 1 /\ \A p \in Procs : Active(p) => now - start[p] < MaxWalk
      /\ UNCHANGED << trees, cur, file, pc, index, base, start, probes, todo, opened, gone, recs,
                      short, cached, quiet >>
  BY DEF Tick, walk
<1>2. TypeInv'
  BY TickShape DEF TrueInv
<1>3. Believable(file)' /\ \A p \in Procs : Believable(index[p])'
  BY <1>1 DEF TrueInv, RunTrue, Believable, Untouched, Tells
<1>4. ASSUME NEW p \in Procs PROVE OnTime(p)'
  <2>1. now \in Nat /\ MaxWalk \in Nat /\ start[p] \in Nat
    BY Numbers DEF TrueInv, TypeInv
  <2> QED
    BY <1>1, <2>1 DEF TrueInv, RunTrue, OnTime, Active
<1>5. ASSUME NEW p \in Procs PROVE ProbeTrue(p)' /\ WalkTrue(p)' /\ Checked(p)'
  BY <1>1 DEF TrueInv, RunTrue, ProbeTrue, Describes, WalkTrue, Walking, Known, Settled, Untouched, Covers,
              Lost, Checked, Explained, Listing
<1> QED
  BY <1>2, <1>3, <1>4, <1>5 DEF TrueInv, RunTrue

\* Another directory at the root's path has an identity of its own, and no index is of it.
LEMMA SwapTrue == TrueInv /\ Premises /\ Swap => TrueInv'
<1> SUFFICES ASSUME TrueInv, Premises, Swap PROVE TrueInv'
  OBVIOUS
<1>1. /\ UNCHANGED << now, file, pc, index, start, probes, walk, cached >>
      /\ \A p \in Procs : ~Active(p)
      /\ cur' \in Inos /\ cur' > cur
  BY SwapFacts DEF TrueInv, Premises
<1>2. TypeInv'
  BY SwapShape DEF TrueInv
<1>3. ASSUME NEW ix, IndexShape(ix), UNCHANGED ix PROVE Believable(ix)'
  <2>1. cur \in Nat /\ cur' \in Nat /\ \A i \in Inos : i \in Nat
    BY <1>1, Numbers DEF TrueInv, TypeInv
  <2>2. ix # NoIndex => ix.ino # cur'
    BY <1>1, <1>3, <2>1 DEF IndexShape, Decodes
  <2> QED
    BY <1>3, <2>2 DEF Believable
<1>4. Believable(file)' /\ \A p \in Procs : Believable(index[p])'
  BY <1>1, <1>3 DEF TrueInv, TypeInv, RunShape
<1>5. ASSUME NEW p \in Procs PROVE OnTime(p)' /\ ProbeTrue(p)' /\ WalkTrue(p)' /\ Checked(p)'
  BY <1>1 DEF OnTime, ProbeTrue, WalkTrue, Checked, Active, Walking
<1> QED
  BY <1>2, <1>4, <1>5 DEF TrueInv, RunTrue

LEMMA InitTrueInv == Init => TrueInv
<1> SUFFICES ASSUME Init PROVE TrueInv
  OBVIOUS
<1>1. file = NoIndex /\ \A p \in Procs : pc[p] = "idle" /\ index[p] = NoIndex
  BY DEF Init
<1> QED
  BY <1>1, InitTypeInv DEF TrueInv, RunTrue, Believable, OnTime, ProbeTrue, WalkTrue, Checked, Active, Walking

LEMMA NextTrueInv == TrueInv /\ Premises /\ [Next]_vars => TrueInv'
<1> SUFFICES ASSUME TrueInv, Premises, [Next]_vars PROVE TrueInv'
  OBVIOUS
<1>1. TypeInv'
  BY NextTypeInv DEF TrueInv
<1>2. ASSUME NEW p \in Procs, Run(p) PROVE TrueInv'
  <2>1. OwnTrue(p)'
    BY <1>2, BeginTrue, ValidatedTrue, CheckAfreshTrue, EndTrue, ProbeStepTrue, SeeGitTrue, OpenTrue,
       OpenFailsTrue, ReadDirTrue DEF Run
  <2> QED
    BY <1>1, <1>2, <2>1, OwnTrueSuffices
<1>3. CASE Environment
  BY <1>3, TickTrue, SwapTrue, EditTrue DEF Environment, EditOf
<1>4. CASE UNCHANGED vars
  <2>1. UNCHANGED disk /\ UNCHANGED file /\ \A p \in Procs : UNCHANGED Mine(p)
    BY <1>4 DEF vars, walk, Mine
  <2>2. Believable(file)' /\ \A p \in Procs : RunTrue(p)'
    BY <2>1, SameTruth, BelievedStill DEF TrueInv, Believable
  <2> QED
    BY <1>1, <2>2 DEF TrueInv
<1> QED
  BY <1>2, <1>3, <1>4 DEF Next

LEMMA TrueInvAlways == ASSUME Premises PROVE Spec => []TrueInv
BY InitTrueInv, NextTrueInv, PTL DEF Spec

\* A run that nobody disturbs prints what a walk of the whole root would, whatever changed before
\* it, in whatever tick, and whichever runs wrote the index it reads, of any tree and with any
\* number of runs at once (index.rs: probe_all, walk_index, Hit; walk/mod.rs: walk_subtrees).  The
\* premises are that no run takes as long as the racy window and that the root is not replaced
\* under one; without the second it fails, as the run IndexRestore shows.
THEOREM QuietIsRight == Premises => (Spec => []QuietRunIsRight)
<1> SUFFICES ASSUME Premises PROVE Spec => []QuietRunIsRight
  OBVIOUS
<1>1. TrueInv => QuietRunIsRight
  BY QuietListing DEF QuietRunIsRight
<1> QED
  BY <1>1, TrueInvAlways, PTL

\* If nothing changed while --cache-check ran, whatever it reports was warned of: a repository that
\* only one of the two listings has lies at or below a directory that did not open for the other
\* (index.rs: report_diff, which compares short listings too).
THEOREM DifferencesExplained == Premises => (Spec => []DifferencesAreWarnedOf)
<1> SUFFICES ASSUME Premises PROVE Spec => []DifferencesAreWarnedOf
  OBVIOUS
<1>1. ASSUME TrueInv, NEW p \in Procs, WalkOver(p), quiet[p], cached[p] # NoIndex
      PROVE  LET fresh == [repos |-> Repos(recs[p]), short |-> short[p]]
             IN \A has, lacks \in {cached[p], fresh} : \A d \in has.repos \ lacks.repos :
                   lacks.short /\ \E f \in Faulty : d \in Below(f)
  <2> DEFINE fresh == [repos |-> Repos(recs[p]), short |-> short[p]]
  <2>1. Explained(fresh, p)
    BY <1>1, QuietListing
  <2>2. Explained(cached[p], p)
    BY <1>1 DEF TrueInv, RunTrue, Checked, WalkOver
  <2> HIDE DEF fresh
  <2>3. \A l \in {cached[p], fresh} : Explained(l, p)
    BY <2>1, <2>2
  <2>4. \A has, lacks \in {cached[p], fresh} : \A d \in has.repos \ lacks.repos :
           lacks.short /\ \E f \in Faulty : d \in Below(f)
    BY <2>3 DEF Explained
  <2> QED
    BY <2>4 DEF fresh
<1>2. TrueInv => DifferencesAreWarnedOf
  BY <1>1 DEF DifferencesAreWarnedOf
<1> QED
  BY <1>2, TrueInvAlways, PTL

\* No entry of the file on disk that a run would take for valid at this instant says anything
\* untrue of its directory, whatever was changed while or after the file was written: the mtime is
\* read before the entries, and a recent one is not believed (index.rs: RACY_WINDOW_NS).
THEOREM StaleIsSeen == Premises => (Spec => []NothingStaleIsBelieved)
<1> SUFFICES ASSUME Premises PROVE Spec => []NothingStaleIsBelieved
  OBVIOUS
<1>1. ASSUME TrueInv PROVE NothingStaleIsBelieved
  <2> DEFINE t == trees[cur]
             pr == [d \in DOMAIN file.entries |-> Found(file, t, d)]
  <2> SUFFICES ASSUME file # NoIndex, file.ino = cur, NEW d \in Hits(file, pr), pr[d].kind = "dir"
               PROVE  Tells(DOMAIN file.entries, t, file.exclude, d)
    BY DEF NothingStaleIsBelieved, Tells
  <2>1. /\ Decodes(file) /\ Believable(file)
        /\ Window \in Nat /\ file.written \in Nat /\ \A e \in Paths : t.mtime[e] \in Nat
    BY <1>1, Numbers DEF TrueInv, TypeInv, IndexShape, Decodes
  <2>2. /\ d \in DOMAIN file.entries /\ DOMAIN file.entries \in SUBSET Paths
        /\ Climbs(DOMAIN file.entries)
    BY <2>1 DEF Hits, Visited, Decodes, WellLinked, Climbs
  <2>3. Chain(d) \subseteq DOMAIN file.entries
    BY <2>2, ClimbReaches DEF Chain
  <2>4. \A e \in Chain(d) : Hit(file, pr, e) /\ pr[e].kind = "dir"
    BY DEF Hits, Visited, Chain
  <2>5. ASSUME NEW e \in Chain(d) PROVE t.mtime[e] < file.written - Window + 1
    <3>1. pr[e] = Found(file, t, e) /\ pr[e].kind = "dir" /\ ~IsRacy(pr[e].mtime, file.written)
      BY <2>3, <2>4 DEF Hit
    <3>2. pr[e].mtime = t.mtime[e] /\ t.mtime[e] \in Nat
      BY <2>1, <2>2, <2>3, <3>1 DEF Found, Repo, Dir, Stale
    <3> QED
      BY <2>1, <3>1, <3>2 DEF IsRacy
  <2>6. file.entries[d].kind = "dir" /\ Untouched(t, file.written - Window + 1, d)
    BY <2>5 DEF Hits, Hit, Untouched
  <2> QED
    BY <2>1, <2>2, <2>6 DEF Believable
<1> QED
  BY <1>1, TrueInvAlways, PTL
=============================================================================
