------------------------------- MODULE Index --------------------------------
(***************************************************************************)
(* The mtime-validated listing index (src/index.rs) of one root, used by   *)
(* concurrent `scap list` runs while the tree changes.                     *)
(*                                                                         *)
(* A run loads the index file, stats every entry, walks again what did not *)
(* validate (or everything), prints, and writes the index back:            *)
(*                                                                         *)
(*   idle -> probe -> rewalk -> store -> idle   the index may be believed  *)
(*   idle -> walk -> store -> idle              there is none              *)
(*   idle -> probe -> walk -> store -> idle     its root entry is stale    *)
(*   idle -> probe -> rewalk -> walk -> ...     --cache-check               *)
(*                                                                         *)
(* Time is counted in ticks of the file system's clock: two changes in one *)
(* tick leave the same mtime.                                              *)
(***************************************************************************)
EXTENDS Integers, FiniteSets

CONSTANTS
    Paths, Root,
    Parent,         \* [Paths \ {Root} -> Paths]
    Inos,           \* inode numbers of the directories that come to the root's path
    Procs,          \* `scap list` processes, each one run after another
    Exclude,        \* [Procs -> SUBSET Paths]: what scap.listExclude matches
    Faulty,         \* paths that may fail to open
    Window,         \* RACY_WINDOW_NS, in ticks
    MaxWalk,        \* bound: ticks from the start of a run to its index
    MaxTime,        \* bound: the last tick
    MaxEdits,       \* bound: changes to the tree
    MaxRuns,        \* bound: runs begun
    SwapMidRun,     \* may the root be replaced while a run is going on?
    NoIndex

\* The directories above p: whatever holds p's parent and its members' parents holds them.
Climbs(S)   == \A q \in S \ {Root} : Parent[q] \in S
Above[p \in Paths] == {q \in Paths : p # Root /\ \A S \in SUBSET Paths : Parent[p] \in S /\ Climbs(S) => q \in S}
Below(p)    == {q \in Paths : p = q \/ p \in Above[q]}
ChildrenOf(p) == {q \in Paths \ {Root} : Parent[q] = p}

ASSUME IndexAssumption ==
    /\ Root \in Paths /\ IsFiniteSet(Paths)
    /\ Parent \in [Paths \ {Root} -> Paths]
    /\ \A p \in Paths : p \notin Above[p] /\ (p # Root => Root \in Above[p])
    /\ Inos \subseteq Nat /\ Inos # {}
    /\ Faulty \subseteq Paths
    /\ Exclude \in [Procs -> SUBSET (Paths \ {Root})]
    /\ Window \in Nat /\ MaxWalk \in Nat /\ MaxTime \in Nat /\ MaxEdits \in Nat /\ MaxRuns \in Nat
    /\ SwapMidRun \in BOOLEAN

VARIABLES
    now,        \* the clock
    edits,      \* changes made so far
    runs,       \* runs begun so far
    trees,      \* per identity: what exists, what holds a `.git`, the mtimes
    cur,        \* the identity at the root's path
    file,       \* the index file, or NoIndex
    pc,         \* where each run is
    index,      \* the index it loaded
    base,       \* the identity behind its root descriptor
    start,      \* when it began
    probes,     \* the entries it has probed, with what it found
    todo,       \* paths it has found and not taken up
    opened,     \* directories it has open, with the mtime it read first
    gone,       \* of these, the ones deleted since
    recs,       \* its records
    short,      \* Out.incomplete
    cached,     \* the index's listing in --cache-check, or NoIndex
    quiet       \* has the tree been left alone since it began?

disk == <<now, edits, trees, cur>>
walk == <<base, todo, opened, gone, recs, short>>
vars == <<disk, runs, file, pc, index, start, probes, walk, cached, quiet>>

\* One record of a walk, one entry of an index, one result of a probe.
Repo   == [kind |-> "repo", mtime |-> 0]
Dir(m) == [kind |-> "dir", mtime |-> m]
Stale  == [kind |-> "stale", mtime |-> 0]
None   == [x \in {} |-> Repo]

IsTree(exists) == Root \in exists /\ \A p \in exists \ {Root} : Parent[p] \in exists
AnyTree(m) == {t \in [exists : SUBSET Paths, git : SUBSET Paths,
                      mtime : {[p \in Paths |-> m]}] :
                  IsTree(t.exists) /\ t.git \subseteq t.exists}
Bare    == [exists |-> {Root}, git |-> {}, mtime |-> [p \in Paths |-> 0]]
Tree(p) == trees[base[p]]
Goto(p, l) == pc' = [pc EXCEPT ![p] = l]
Repos(r) == {d \in DOMAIN r : r[d].kind = "repo"}
With(f, d, v) == [e \in DOMAIN f \cup {d} |-> IF e = d THEN v ELSE f[e]]
Without(f, d) == [e \in DOMAIN f \ {d} |-> f[e]]

Init ==
    /\ now = 0 /\ edits = 0 /\ runs = 0
    /\ cur = CHOOSE i \in Inos : TRUE
    /\ \E t \in AnyTree(0) : trees = [i \in Inos |-> IF i = cur THEN t ELSE Bare]
    /\ file = NoIndex
    /\ pc = [p \in Procs |-> "idle"]
    /\ index = [p \in Procs |-> NoIndex]
    /\ base = [p \in Procs |-> CHOOSE i \in Inos : TRUE]
    /\ start = [p \in Procs |-> 0]
    /\ probes = [p \in Procs |-> None]
    /\ todo = [p \in Procs |-> {}]
    /\ opened = [p \in Procs |-> None]
    /\ gone = [p \in Procs |-> {}]
    /\ recs = [p \in Procs |-> None]
    /\ short = [p \in Procs |-> FALSE]
    /\ cached = [p \in Procs |-> NoIndex]
    /\ quiet = [p \in Procs |-> TRUE]

Active(p) == pc[p] \notin {"idle", "store"}

-----------------------------------------------------------------------------
(* The tree: other programs, and time.                                     *)

Tick ==
    /\ now < MaxTime
    /\ \A p \in Procs : Active(p) => now - start[p] < MaxWalk
    /\ now' = now + 1
    /\ UNCHANGED <<edits, trees, cur, runs, file, pc, index, start, probes, walk,
                   cached, quiet>>

\* A change in the root's directory tree: a name made, moved in or deleted in
\* `where` moves the mtime of `where`.
Edit(exists, git, mtime) ==
    /\ edits < MaxEdits
    /\ edits' = edits + 1
    /\ trees' = [trees EXCEPT ![cur] = [exists |-> exists, git |-> git, mtime |-> mtime]]
    /\ quiet' = [p \in Procs |-> ~Active(p)]
    /\ UNCHANGED <<now, cur, runs, file, pc, index, start, probes, base, todo, opened,
                   recs, short, cached>>

\* What is moved in keeps its own mtimes.
MoveIn(d) ==
    LET t == trees[cur] IN
    /\ d \notin t.exists /\ d # Root /\ Parent[d] \in t.exists
    /\ \E new \in SUBSET Below(d) : \E git \in SUBSET new : \E m \in {0, now} :
          /\ d \in new /\ IsTree(t.exists \cup new)
          /\ Edit(t.exists \cup new, t.git \cup git,
                  [p \in Paths |-> IF p \in new THEN m
                                   ELSE IF p = Parent[d] THEN now ELSE t.mtime[p]])
    /\ UNCHANGED gone

Delete(d) ==
    LET t == trees[cur] IN
    /\ d \in t.exists \ {Root}
    /\ Edit(t.exists \ Below(d), t.git \ Below(d), [t.mtime EXCEPT ![Parent[d]] = now])
    /\ gone' = [p \in Procs |-> IF base[p] = cur
                                THEN gone[p] \cup (Below(d) \cap DOMAIN opened[p])
                                ELSE gone[p]]

\* git init, or the removal of `.git`.
ToggleGit(d) ==
    LET t == trees[cur] IN
    /\ d \in t.exists
    /\ Edit(t.exists, IF d \in t.git THEN t.git \ {d} ELSE t.git \cup {d},
            [t.mtime EXCEPT ![d] = now])
    /\ UNCHANGED gone

\* Another directory takes the root's place, a restored one with its old mtimes.
Swap ==
    /\ SwapMidRun \/ \A p \in Procs : ~Active(p)
    /\ edits < MaxEdits
    /\ edits' = edits + 1
    /\ \E i \in Inos \ {cur} : \E m \in {0, now} : \E t \in AnyTree(m) :
          /\ i > cur
          /\ cur' = i
          /\ trees' = [trees EXCEPT ![i] = t]
    /\ quiet' = [p \in Procs |-> ~Active(p)]
    /\ UNCHANGED <<now, runs, file, pc, index, start, probes, walk, cached>>

-----------------------------------------------------------------------------
(* cached_listing: loading, probing, and what the probes say.              *)

\* walk_root opens the root by path, and starts from it.
StartWalk(p) ==
    /\ base' = [base EXCEPT ![p] = cur]
    /\ todo' = [todo EXCEPT ![p] = {Root}]
    /\ recs' = [recs EXCEPT ![p] = None]
    /\ short' = [short EXCEPT ![p] = FALSE]
    /\ Goto(p, "walk")
    /\ UNCHANGED <<opened, gone>>

\* A wrong variant: the inode is not compared.
DescribesAnyDirectory(ix, p) == ix.exclude = Exclude[p]
\* A wrong variant: the patterns are not compared.
DescribesAnyPatterns(ix, p) == ix.ino = cur

Describes(ix, p) == ix.ino = cur /\ ix.exclude = Exclude[p]

Begin(p) ==
    /\ pc[p] = "idle" /\ runs < MaxRuns
    /\ runs' = runs + 1
    /\ start' = [start EXCEPT ![p] = now]
    /\ IF file # NoIndex /\ Describes(file, p)
       THEN /\ index' = [index EXCEPT ![p] = file]
            /\ base' = [base EXCEPT ![p] = cur]
            /\ Goto(p, "probe")
            /\ UNCHANGED <<todo, opened, gone, recs, short>>
       ELSE StartWalk(p) /\ UNCHANGED index
    /\ UNCHANGED <<disk, file, probes, cached, quiet>>

\* What an entry's statat answers.
Found(ix, t, d) ==
    IF ix.entries[d].kind = "repo"
    THEN IF d \in t.git THEN Repo ELSE Stale
    ELSE IF d \in t.exists THEN Dir(t.mtime[d]) ELSE Stale

\* One statat, by one of probe_all's threads.
Probe(p, d) ==
    /\ pc[p] = "probe"
    /\ d \in DOMAIN index[p].entries \ DOMAIN probes[p]
    /\ probes' = [probes EXCEPT ![p] = With(@, d, Found(index[p], Tree(p), d))]
    /\ UNCHANGED <<disk, runs, file, pc, index, start, walk, cached, quiet>>

\* A wrong variant: only what is newer than the index is racy.
IsRacyWhenNewer(observed, written) == observed > written

IsRacy(observed, written) == observed > written - Window

\* An entry is reused if it is what it was and, a directory's, not racy.
Hit(ix, pr, d) ==
    /\ pr[d] = ix.entries[d]
    /\ pr[d].kind = "dir" => ~IsRacy(pr[d].mtime, ix.written)

\* A wrong variant: every entry is consulted, whatever its parent's mtime says.
VisitedInAnyOrder(ix, pr) == DOMAIN ix.entries

\* walk_index goes down from the root, below directories that are hits.
Visited(ix, pr) ==
    {d \in DOMAIN ix.entries : \A e \in Above[d] : Hit(ix, pr, e) /\ pr[e].kind = "dir"}

Hits(ix, pr) == {d \in Visited(ix, pr) : Hit(ix, pr, d)}

Validated(p) ==
    /\ pc[p] = "probe" /\ DOMAIN probes[p] = DOMAIN index[p].entries
    /\ LET seen  == Visited(index[p], probes[p])
           hits  == Hits(index[p], probes[p])
           stale == seen \ hits
       IN IF Root \in stale
          THEN StartWalk(p)
          ELSE /\ recs' = [recs EXCEPT ![p] = [d \in hits |-> probes[p][d]]]
               /\ todo' = [todo EXCEPT ![p] = stale]
               /\ base' = [base EXCEPT ![p] = cur]
               /\ Goto(p, "rewalk")
               /\ UNCHANGED <<opened, gone, short>>
    /\ index' = [index EXCEPT ![p] = NoIndex]
    /\ probes' = [probes EXCEPT ![p] = None]
    /\ UNCHANGED <<disk, runs, file, start, cached, quiet>>

-----------------------------------------------------------------------------
(* The walk of the root, or of the stale subtrees (Pool has its threads).  *)

Walking(p) == pc[p] \in {"walk", "rewalk"}
walkRest == <<disk, runs, file, pc, index, start, probes, base, cached, quiet>>

\* A wrong variant: the repository is listed and descended into.
SeeGitAndDescend(p, d) ==
    /\ Walking(p) /\ d \in todo[p] \cap Tree(p).git
    /\ recs' = [recs EXCEPT ![p] = With(@, d, Repo)]
    /\ UNCHANGED <<walkRest, todo, opened, gone, short>>

\* Stat-first: a `.git` is seen without the directory being opened.
SeeGit(p, d) ==
    /\ Walking(p) /\ d \in todo[p] \cap Tree(p).git
    /\ recs' = [recs EXCEPT ![p] = With(@, d, Repo)]
    /\ todo' = [todo EXCEPT ![p] = @ \ {d}]
    /\ UNCHANGED <<walkRest, opened, gone, short>>

\* It is opened, and its mtime read before its entries; or it is not there.
Open(p, d) ==
    /\ Walking(p) /\ d \in todo[p]
    /\ todo' = [todo EXCEPT ![p] = @ \ {d}]
    /\ IF d \in Tree(p).exists
       THEN opened' = [opened EXCEPT ![p] = With(@, d, Tree(p).mtime[d])]
       ELSE UNCHANGED opened
    /\ UNCHANGED <<walkRest, gone, recs, short>>

\* A wrong variant: the first failure ends the walk.
OpenFailsForGood(p, d) ==
    /\ Walking(p) /\ d \in todo[p] \cap Faulty
    /\ todo' = [todo EXCEPT ![p] = {}]
    /\ short' = [short EXCEPT ![p] = TRUE]
    /\ UNCHANGED <<walkRest, opened, gone, recs>>

OpenFails(p, d) ==
    /\ Walking(p) /\ d \in todo[p] \cap Faulty
    /\ todo' = [todo EXCEPT ![p] = @ \ {d}]
    /\ short' = [short EXCEPT ![p] = TRUE]
    /\ UNCHANGED <<walkRest, opened, gone, recs>>

ReadDir(p, d) ==
    /\ Walking(p) /\ d \in DOMAIN opened[p]
    /\ LET t == Tree(p)
           git   == d \in t.git /\ d \notin gone[p]
           found == IF d \in gone[p] THEN {}
                    ELSE (ChildrenOf(d) \cap t.exists) \ Exclude[p]
       IN /\ recs' = [recs EXCEPT ![p] = With(@, d, IF git THEN Repo
                                                    ELSE Dir(opened[p][d]))]
          /\ todo' = [todo EXCEPT ![p] = IF git THEN @ ELSE @ \cup found]
    /\ opened' = [opened EXCEPT ![p] = Without(@, d)]
    /\ gone' = [gone EXCEPT ![p] = @ \ {d}]
    /\ UNCHANGED <<walkRest, short>>

WalkOver(p) == Walking(p) /\ todo[p] = {} /\ DOMAIN opened[p] = {}

-----------------------------------------------------------------------------
(* Ending: the comparison, the index file.                                 *)

\* A run with --cache-check keeps the index's answer and walks afresh. (The flag
\* makes no difference before, so which runs have it is decided here.)
CheckAfresh(p) ==
    /\ WalkOver(p) /\ pc[p] = "rewalk"
    /\ cached' = [cached EXCEPT ![p] = [repos |-> Repos(recs[p]), short |-> short[p]]]
    /\ StartWalk(p)
    /\ UNCHANGED <<disk, runs, file, index, start, probes, quiet>>

\* build: every record's parent is one, and the root's identity is taken by
\* path, now.
Linked(r) == Root \in DOMAIN r /\ \A d \in DOMAIN r \ {Root} : Parent[d] \in DOMAIN r
Built(p)  == [ino |-> cur, exclude |-> Exclude[p], written |-> now, entries |-> recs[p]]

\* The run is over, or has nothing left to do but to replace the file.
Drop(p, l, ix) ==
    /\ Goto(p, l)
    /\ index' = [index EXCEPT ![p] = ix]
    /\ base' = [base EXCEPT ![p] = CHOOSE i \in Inos : TRUE]
    /\ start' = [start EXCEPT ![p] = 0]
    /\ probes' = [probes EXCEPT ![p] = None]
    /\ todo' = [todo EXCEPT ![p] = {}]
    /\ opened' = [opened EXCEPT ![p] = None]
    /\ gone' = [gone EXCEPT ![p] = {}]
    /\ recs' = [recs EXCEPT ![p] = None]
    /\ short' = [short EXCEPT ![p] = FALSE]
    /\ cached' = [cached EXCEPT ![p] = NoIndex]
    /\ quiet' = [quiet EXCEPT ![p] = TRUE]
    /\ UNCHANGED <<disk, runs>>

\* A wrong variant: a short listing is kept.
BuildShort(p) ==
    /\ WalkOver(p)
    /\ IF Linked(recs[p]) THEN Drop(p, "store", Built(p)) ELSE Drop(p, "idle", NoIndex)
    /\ UNCHANGED file

\* store_if_complete: a short listing is printed and not kept.
Build(p) ==
    /\ WalkOver(p)
    /\ IF ~short[p] /\ Linked(recs[p])
       THEN Drop(p, "store", Built(p))
       ELSE Drop(p, "idle", NoIndex)
    /\ UNCHANGED file

\* write_atomically: a file of the run's own, renamed over the index.
Store(p) ==
    /\ pc[p] = "store"
    /\ file' = index[p]
    /\ Drop(p, "idle", NoIndex)

\* It is killed, or writing fails: the file stays what it was.
GiveUp(p) ==
    /\ pc[p] # "idle"
    /\ Drop(p, "idle", NoIndex)
    /\ UNCHANGED file

-----------------------------------------------------------------------------
Environment == \/ Tick \/ Swap
               \/ \E d \in Paths : MoveIn(d) \/ Delete(d) \/ ToggleGit(d)

Run(p) ==
    \/ Begin(p) \/ Validated(p) \/ CheckAfresh(p)
    \/ Build(p) \/ Store(p) \/ GiveUp(p)
    \/ \E d \in Paths : \/ Probe(p, d) \/ SeeGit(p, d) \/ Open(p, d)
                        \/ OpenFails(p, d) \/ ReadDir(p, d)

Next == Environment \/ \E p \in Procs : Run(p)

Spec == Init /\ [][Next]_vars

-----------------------------------------------------------------------------
(* Properties.                                                             *)

\* Every variable stays in its type; what is stored never holds a stale probe.
TypeOK ==
    /\ now \in 0 .. MaxTime /\ edits \in 0 .. MaxEdits /\ runs \in 0 .. MaxRuns /\ cur \in Inos
    /\ \A i \in Inos : /\ IsTree(trees[i].exists)
                       /\ trees[i].git \subseteq trees[i].exists
                       /\ trees[i].mtime \in [Paths -> 0 .. now]
    /\ \A ix \in {file} \cup {index[p] : p \in Procs} :
          ix = NoIndex \/ \A d \in DOMAIN ix.entries :
                              ix.entries[d].kind \in {"repo", "dir"}
    /\ \A p \in Procs :
          /\ pc[p] \in {"idle", "probe", "rewalk", "walk", "store"}
          /\ DOMAIN recs[p] \subseteq Paths
          /\ gone[p] \subseteq DOMAIN opened[p]
          /\ base[p] \in Inos
          /\ todo[p] \cap DOMAIN recs[p] = {}

\* What a walk that nothing disturbs prints.
Listing(p) ==
    LET t == trees[cur]
        out(d) == d \in Exclude[p] \/ d \in t.git
    IN {d \in t.git : d \notin Exclude[p] /\ \A e \in Above[d] : ~out(e)}

\* A run over a tree that nobody changes meanwhile prints what a walk would,
\* whatever changed before it, at whatever tick, under whichever other runs
\* that wrote the index it reads (README.md:61, `the printed bytes are
\* identical either way`).
QuietRunIsRight ==
    \A p \in Procs : WalkOver(p) /\ quiet[p] /\ ~short[p] =>
        Repos(recs[p]) = Listing(p)

\* If nothing changed since the run began, --cache-check reports a repository
\* that one listing has and the other lacks only where a walk warned: the one
\* that lacks it is short, by a directory from there up that did not open.
\* report_diff compares short listings like complete ones, so it alarms then.
DifferencesAreWarnedOf ==
    \A p \in Procs : WalkOver(p) /\ quiet[p] /\ cached[p] # NoIndex =>
        LET fresh == [repos |-> Repos(recs[p]), short |-> short[p]]
        IN \A has, lacks \in {cached[p], fresh} : \A d \in has.repos \ lacks.repos :
              lacks.short /\ \E f \in Faulty : d \in Below(f)

\* No entry that would pass for valid this instant says anything untrue: a
\* directory's entries are its subdirectories and it is no repository. It holds
\* of every file any run left, whatever happens while or after it is written:
\* the timestamp read before the entries, and the racy window, see to that.
NothingStaleIsBelieved ==
    file # NoIndex /\ file.ino = cur =>
        LET t  == trees[cur]
            pr == [d \in DOMAIN file.entries |-> Found(file, t, d)]
        IN \A d \in Hits(file, pr) :
              pr[d].kind = "dir" =>
                  /\ d \notin t.git
                  /\ ChildrenOf(d) \cap DOMAIN file.entries
                       = (ChildrenOf(d) \cap t.exists) \ file.exclude

\* What is written decodes: a tree of directories with repositories at most as
\* leaves.
WrittenDecodes ==
    file # NoIndex =>
        \A d \in DOMAIN file.entries \ {Root} :
            /\ Parent[d] \in DOMAIN file.entries
            /\ file.entries[Parent[d]].kind = "dir"
=============================================================================
