------------------------------- MODULE Walker -------------------------------
(***************************************************************************)
(* What one root's walk emits: the entry rules (i) to (viii) of            *)
(* src/walk/sys.rs, the root's own of src/walk/mod.rs, and the arena of    *)
(* src/walk/arena.rs that the findings are merged in.  The order in which  *)
(* the pool takes the directories is left open; that it takes each of them *)
(* once is Pool's business.                                                *)
(*                                                                         *)
(* A path is a text as in Url.  tree maps each path that exists, `.git`    *)
(* itself apart, to what the process may find out about it:                *)
(*   kind    "dir", "link" (to `target`) or "other"                        *)
(*   typed   readdir tells the kind                                        *)
(*   read    "me": may be opened; "other": has a read bit for others; "no" *)
(*   search  names in it may be looked up                                  *)
(*   git     its `.git`: "none", "typed" (dir or file), "link", "untyped", *)
(*           or "dangling", a link to nothing that can be looked up        *)
(***************************************************************************)
EXTENDS Url

CONSTANT Worlds     \* where a listing may start: [tree, roots, opts, args]

\* A path as canonicalize gives it, or a walk below such a path: absolute, its components
\* apart by one "/", its last one not ".".
Canonical(p) ==
  \/ p = << "/" >>
  \/ /\ Len(p) > 1 /\ p[1] = "/" /\ Last(p) # "/"
     /\ \A i \in 2..Len(p) : p[i - 1] = "/" => p[i] # "/"
     /\ p[Len(p) - 1] = "/" => Last(p) # "."

Parent(path) == IF RFind(path, "/") = 1 THEN << "/" >> ELSE Before(path, RFind(path, "/"))

\* What lies below a path, itself included.
Prefix(root) == IF root = << "/" >> THEN root ELSE Append(root, "/")
Below(root, p) == p = root \/ IsPrefix(Prefix(root), p)

IsTree(t) ==
  /\ IsFiniteSet(DOMAIN t)
  /\ \A p \in DOMAIN t :
       /\ p \in Seq(STRING) /\ Canonical(p)
       /\ p = << "/" >> \/ Parent(p) \in DOMAIN t
       /\ t[p].kind \in {"dir", "link", "other"} /\ t[p].read \in {"me", "other", "no"}
       /\ t[p].typed \in BOOLEAN /\ t[p].search \in BOOLEAN
       /\ t[p].git \in {"none", "typed", "link", "untyped", "dangling"}

\* Roots that are not there are cleaned at least: only "/" ends in its separator.
ASSUME WorldsAssumption ==
  \A w \in Worlds :
    /\ IsTree(w.tree)
    /\ w.roots \in Seq(Seq(STRING))
    /\ \A i \in DOMAIN w.roots : LET r == w.roots[i]
                                IN  r # <<>> /\ (r = << "/" >> \/ Last(r) # "/")
    /\ w.opts.detect \in {"StatFirst", "OpenScan"} /\ w.opts.tight \in BOOLEAN

VARIABLES
  tree,
  roots,            \* as resolve_roots returned them
  opts,             \* [detect, exclude, tight]; tight: descriptors run out and reads fail
  args,             \* the command line
  listings,         \* of the roots walked so far: [arena, incomplete]
  jobs,             \* directories of the root being walked still to be read: [rel, byPath]
  phase

\* A lookup of a path searches every directory above it.
Stats(path) == /\ path \in DOMAIN tree
               /\ \A q \in DOMAIN tree : Below(q, path) /\ q # path => tree[q].search

walkVars == << tree, roots, opts, args, listings, jobs, phase >>

-----------------------------------------------------------------------------
(* The arena: the texts in one buffer, and where each of them lies.        *)

NoArena == [bytes |-> <<>>, repos |-> <<>>]

push(arena, path) ==
  LET start == Len(arena.bytes)
  IN  [bytes |-> arena.bytes \o path,
       repos |-> Append(arena.repos, [from |-> start + 1, to |-> start + Len(path)])]

merge(arena, other) ==
  LET shift == Len(arena.bytes)
  IN  [bytes |-> arena.bytes \o other.bytes,
       repos |-> arena.repos \o [i \in DOMAIN other.repos |->
                   [from |-> other.repos[i].from + shift, to |-> other.repos[i].to + shift]]]

iter(arena) == [i \in DOMAIN arena.repos |-> SubSeq(arena.bytes, arena.repos[i].from, arena.repos[i].to)]

\* The root itself is printed as ".".
emit(rels) == FoldSet(LAMBDA rel, arena : push(arena, IF rel = <<>> THEN << "." >> ELSE rel), NoArena, rels)

-----------------------------------------------------------------------------
(* The tree.                                                               *)

join_rel(rel, name) == IF rel = <<>> THEN name ELSE rel \o << "/" >> \o name

\* <root>/<rel>; "/" is the one path that ends in its separator.
push_full_path(root, rel) ==
  IF rel = << "." >> THEN root
  ELSE IF Last(root) = "/" THEN root \o rel ELSE join_rel(root, rel)

Name(path) == After(path, RFind(path, "/"))
EndsGit(path) == path # <<>> /\ Last(path) = ".git"

Walked == roots[Len(listings)]          \* the root being walked
Abs(rel) == push_full_path(Walked, IF rel = <<>> THEN << "." >> ELSE rel)
Node(rel) == tree[Abs(rel)]
Entries(rel) == {join_rel(rel, Name(p)) : p \in {q \in DOMAIN tree : q # Abs(rel) /\ Parent(q) = Abs(rel)}}

Resolves(node) == node.git \in {"typed", "link", "untyped"}

\* stat of <child>/.git and open of <child>, in the directory rel.
GitStats(rel, child) == Node(rel).search /\ Node(child).search /\ Resolves(Node(child))
Opens(rel, child) == Node(rel).search /\ Node(child).read = "me"

\* The kind: as readdir tells it, or by a stat of its own; else the entry is passed over.
KindOf(rel, child) ==
  IF Node(child).typed \/ Node(rel).search THEN Node(child).kind ELSE "unknown"

is_excluded(rel) == rel \in opts.exclude

\* Rules (i) and (iv): from the entries if they tell, else by a stat of `.git`.
is_repo_dir(rel) == \/ Node(rel).git = "typed"
                    \/ Node(rel).git \in {"link", "untyped"} /\ Node(rel).search

\* Rule (iii): a link is a candidate under its own name and is never entered.  It is followed
\* all the way, or passed over in silence.
LinkIsRepository(rel, link) ==
  /\ Node(rel).search /\ Stats(Node(link).target)
  /\ LET target == tree[Node(link).target]
     IN  target.kind = "dir" /\ (EndsGit(link) \/ (target.search /\ Resolves(target)))

\* Rules (ii) and (iii), and stat-first's probe: what the directory rel shows to be repositories,
\* and the directories that have to be opened to tell.
Here(rel, kind) == {c \in Entries(rel) : KindOf(rel, c) = kind /\ ~is_excluded(c)}

Shown(rel) ==
  {c \in Here(rel, "dir") : EndsGit(c) \/ (opts.detect = "StatFirst" /\ GitStats(rel, c))}
  \cup {c \in Here(rel, "link") : LinkIsRepository(rel, c)}

Candidates(rel) == Here(rel, "dir") \ Shown(rel)

\* queue_child, of the candidates that are not queued by path: queued open, or a repository
\* that may not be opened, or dropped.
Queued(rel, cs) == {c \in cs : Opens(rel, c)}
Probed(rel, cs) == {c \in cs : ~Opens(rel, c) /\ GitStats(rel, c)}
Dropped(rel, cs) == {c \in cs : ~Opens(rel, c) /\ ~GitStats(rel, c)}

\* Adds to the listing of the root being walked.
Merge(rels, short) ==
  listings' = [listings EXCEPT ![Len(listings)] =
                 [arena |-> merge(@.arena, emit(rels)), incomplete |-> @.incomplete \/ short]]

\* read_dir of an open directory, for a walk that still has others to read.
read_dir(rel, others) ==
  IF is_repo_dir(rel) THEN Merge({rel}, FALSE) /\ jobs' = others
  ELSE \E byPath \in IF opts.tight THEN SUBSET Candidates(rel) ELSE {{}} :
         LET tried == Candidates(rel) \ byPath
         IN  /\ Merge(Shown(rel) \cup Probed(rel, tried), Dropped(rel, tried) # {})
             /\ jobs' = others \cup [rel : byPath, byPath : {TRUE}]
                               \cup [rel : Queued(rel, tried), byPath : {FALSE}]

-----------------------------------------------------------------------------
NoListing == [arena |-> NoArena, incomplete |-> FALSE]

Init ==
  /\ \E w \in Worlds : tree = w.tree /\ roots = w.roots /\ opts = w.opts /\ args = w.args
  /\ listings = <<>> /\ jobs = {} /\ phase = "root"

\* walk_root, until the pool starts.  Rule (vi): a root that is missing, cannot be looked up, is
\* no directory or has no read bit is passed over.
NextRoot ==
  /\ phase = "root" /\ Len(listings) < Len(roots)
  /\ listings' = Append(listings, NoListing)
  /\ phase' = "open"
  /\ UNCHANGED << tree, roots, opts, args, jobs >>

root_is_walkable ==
  /\ Stats(Walked)
  /\ Node(<<>>).kind = "dir" /\ Node(<<>>).read # "no"

PassOver == /\ phase = "open" /\ ~root_is_walkable
            /\ phase' = "root"
            /\ UNCHANGED << tree, roots, opts, args, listings, jobs >>

\* Rule (ii) on the root itself; a root that cannot be opened is unreadable(); others are
\* read on this thread.
OpenRoot ==
  /\ phase = "open" /\ root_is_walkable
  /\ IF EndsGit(Walked) THEN Merge({<<>>}, FALSE) /\ UNCHANGED jobs
     ELSE IF Node(<<>>).read # "me" THEN Merge({}, TRUE) /\ UNCHANGED jobs
     ELSE read_dir(<<>>, {})
  /\ phase' = "pool"
  /\ UNCHANGED << tree, roots, opts, args >>

\* A descriptor for it, its stream or a read of its entries fails: unreadable().
OpenRootFails ==
  /\ phase = "open" /\ root_is_walkable /\ ~EndsGit(Walked) /\ opts.tight
  /\ Merge({}, TRUE)
  /\ phase' = "pool"
  /\ UNCHANGED << tree, roots, opts, args, jobs >>

\* Mutant of Run: a directory that cannot be opened any more is passed over in silence.
RunSilently(job) ==
  /\ phase = "pool"
  /\ IF job.byPath /\ ~Opens(Parent(job.rel), job.rel)
     THEN jobs' = jobs \ {job} /\ UNCHANGED listings
     ELSE read_dir(job.rel, jobs \ {job})
  /\ UNCHANGED << tree, roots, opts, args, phase >>

\* Walker::run: a directory queued by path is opened now, or dropped.
Run(job) ==
  /\ phase = "pool"
  /\ IF job.byPath /\ ~Opens(Parent(job.rel), job.rel)
     THEN Merge({}, TRUE) /\ jobs' = jobs \ {job}
     ELSE read_dir(job.rel, jobs \ {job})
  /\ UNCHANGED << tree, roots, opts, args, phase >>

\* The same of a directory the pool takes up: it is dropped, and what was read of it.
RunFails(job) ==
  /\ phase = "pool" /\ opts.tight
  /\ Merge({}, TRUE) /\ jobs' = jobs \ {job}
  /\ UNCHANGED << tree, roots, opts, args, phase >>

WalkOver == /\ phase = "pool" /\ jobs = {}
            /\ phase' = "root"
            /\ UNCHANGED << tree, roots, opts, args, listings, jobs >>

Walk == \/ NextRoot \/ PassOver \/ OpenRoot \/ OpenRootFails \/ WalkOver
        \/ \E job \in jobs : Run(job) \/ RunFails(job)
=============================================================================
