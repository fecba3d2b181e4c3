------------------------------ MODULE Listing ------------------------------
(***************************************************************************)
(* `scap list`: the roots are walked one after the other (Walker), their   *)
(* repositories named, filtered and printed: src/cmd/list.rs, without the  *)
(* index (Index).                                                          *)
(***************************************************************************)
EXTENDS Walker

VARIABLE out        \* what was printed: pairs of a line and the repository it stands for

vars == << walkVars, out >>

-----------------------------------------------------------------------------
(* Which root names a repository.                                          *)

NotUnder == -1

\* Mutant of root_prefix: any text that begins with the root is below it.
BytePrefix(root, abs) ==
  IF ~IsPrefix(root, abs) THEN NotUnder
  ELSE IF Len(abs) = Len(root) THEN Len(abs)
  ELSE IF Last(root) = "/" THEN Len(root)
  ELSE Len(root) + 1

\* How much of abs the root takes away.
root_prefix(root, abs) ==
  IF ~IsPrefix(root, abs) THEN NotUnder
  ELSE IF Len(abs) = Len(root) THEN Len(abs)
  ELSE IF Last(root) = "/" THEN Len(root)
  ELSE IF abs[Len(root) + 1] = "/" THEN Len(root) + 1 ELSE NotUnder

\* The first root up to the walked one that contains the repository names it.
Named(walked, abs, naming) ==
  LET rel == After(abs, root_prefix(roots[naming], abs))
  IN  [walked |-> walked, abs |-> abs, rel |-> IF rel = <<>> THEN << "." >> ELSE rel, under_primary |-> naming = 1]

Naming(walked, abs) ==
  Named(walked, abs, Min({i \in 1..walked : root_prefix(roots[i], abs) # NotUnder}))

name_repositories ==
  UNION {{Naming(w, push_full_path(roots[w], rel)) : rel \in ToSet(iter(listings[w].arena))} : w \in DOMAIN listings}

-----------------------------------------------------------------------------
(* Filtering.                                                              *)

\* Every tail that starts at a component.
subpaths(rel) == {After(rel, i) : i \in {0} \cup {j \in DOMAIN rel : rel[j] = "/"}}

non_host_path(rel) == IF Has(rel, "/") THEN After(rel, Find(rel, "/")) ELSE <<>>
host_component(rel) == UpTo(rel, "/")

looks_like_pattern(head) == \E i \in DOMAIN head : head[i] \in DottedWords \cup {".", ".git", ".."}

\* The host a query asks for, << >> if none, and what it looks for.
split_authority_prefix(query) ==
  IF Has(query, "/") /\ looks_like_pattern(UpTo(query, "/"))
  THEN [host |-> UpTo(query, "/"), q |-> non_host_path(query)]
  ELSE [host |-> <<>>, q |-> query]

FoundIn(hay, q) == \E i \in 0..(Len(hay) - Len(q)) : SubSeq(hay, i + 1, i + Len(q)) = q

\* A query in lower case matches without regard to case.
MatchesFolded(hay, q) == IF q = Lower(q) THEN FoundIn(Lower(hay), q) ELSE FoundIn(hay, q)

MatchesQuery(rel, ask) == /\ ask.host # <<>> => host_component(rel) = ask.host
                          /\ MatchesFolded(non_host_path(rel), ask.q)

filter_repos(repos, exact, query) ==
  IF query = <<>> THEN repos
  ELSE IF exact THEN {r \in repos : query \in subpaths(r.rel)}
  ELSE {r \in repos : MatchesQuery(r.rel, split_authority_prefix(query))}

-----------------------------------------------------------------------------
(* --unique.                                                               *)

repos_count(repos, rel) == Cardinality({r \in repos : r.rel = rel})

\* Mutant of subpath_count: copies of a repository count too.
CountsCopies(repos, tail) == Cardinality({r \in repos : tail \in subpaths(r.rel)})

\* Copies of a repository count once.
subpath_count(repos, tail) == Cardinality({rel \in {r.rel : r \in repos} : tail \in subpaths(rel)})

UniqueTails(repos, rel) == {p \in subpaths(rel) : subpath_count(repos, p) = 1}

format_unique(repos) ==
  LET kept == {r \in repos : /\ repos_count(repos, r.rel) > 1 => r.under_primary
                             /\ UniqueTails(repos, r.rel) # {}}
      shortest(r) == CHOOSE p \in UniqueTails(repos, r.rel) : \A q \in UniqueTails(repos, r.rel) : Len(p) <= Len(q)
  IN  {<< shortest(r), r >> : r \in kept}

Lines(repos, a) ==
  IF a.unique THEN format_unique(repos)
  ELSE {<< IF a.full_path THEN r.abs ELSE r.rel, r >> : r \in repos}

-----------------------------------------------------------------------------
ListInit == Init /\ out = {}

WriteOut ==
  /\ phase = "root" /\ Len(listings) = Len(roots)
  /\ out' = Lines(filter_repos(name_repositories, args.exact, args.query), args)
  /\ phase' = "printed"
  /\ UNCHANGED << tree, roots, opts, args, listings, jobs >>

ListNext ==
  \/ Walk /\ UNCHANGED out
  \/ WriteOut
  \/ phase = "printed" /\ UNCHANGED vars

ListSpec == ListInit /\ [][ListNext]_vars

-----------------------------------------------------------------------------
(* Properties.                                                             *)

\* The repositories below a root, said of the tree and not of a walk of it.
Steps(root, p) == {q \in DOMAIN tree : Below(root, q) /\ Below(q, p) /\ q # p}

HasGit(p) == tree[p].git \in {"typed", "link", "untyped"}
Excluded(root, p) == p # root /\ After(p, Len(Prefix(root))) \in opts.exclude

\* What a listing that nothing stopped would hold ...
IsRepository(p) ==
  \/ tree[p].kind = "dir" /\ (EndsGit(p) \/ HasGit(p))
  \/ /\ tree[p].kind = "link" /\ tree[p].target \in DOMAIN tree
     /\ tree[tree[p].target].kind = "dir" /\ (EndsGit(p) \/ HasGit(tree[p].target))

\* A directory that may not be searched, where only a lookup of `.git` would tell.
Veiled(p) == tree[p].git \in {"link", "untyped"} /\ ~tree[p].search /\ ~EndsGit(p)

InSight(root, p) ==
  /\ ~Excluded(root, p)
  /\ \A q \in Steps(root, p) : /\ tree[q].kind = "dir" /\ ~Excluded(root, q)
                               /\ IsRepository(q) => Veiled(q)

There(root) ==
  IF root \notin DOMAIN tree \/ tree[root].kind # "dir" THEN {}
  ELSE {p \in DOMAIN tree : Below(root, p) /\ IsRepository(p) /\ InSight(root, p)}

\* ... and what the process may not see without being told: below a root without a read bit, or
\* that it cannot look up; in a directory it may not search, entries without a type and what
\* links lead to; what a link leads to that it may not search, or whose way it may not, which is
\* passed over like a link to nothing.
Hidden(root, p) ==
  \/ tree[root].read = "no" \/ ~Stats(root)
  \/ p # root /\ ~tree[Parent(p)].search /\ (tree[p].kind = "link" \/ ~tree[p].typed)
  \/ \E q \in Steps(root, p) \ {root} : ~tree[q].typed /\ ~tree[Parent(q)].search
  \/ tree[p].kind = "link" /\ ~Stats(tree[p].target)
  \/ tree[p].kind = "link" /\ ~EndsGit(p) /\ ~tree[tree[p].target].search
  \/ Veiled(p)

\* A walk finds the repositories of its root, each once and nothing besides, under either
\* detection strategy and however short descriptors run; one it misses it has warned of, so
\* that no index is made of a short listing (sys.rs: read_dir, queue_child; mod.rs:67-75).
FindsWhatIsThere ==
  phase = "printed" => \A w \in DOMAIN roots :
    LET found == iter(listings[w].arena)
        paths == {push_full_path(roots[w], rel) : rel \in ToSet(found)}
    IN  /\ IsInjective(found)
        /\ paths \subseteq There(roots[w])
        /\ ~listings[w].incomplete => \A p \in There(roots[w]) \ paths : Hidden(roots[w], p)

\* A repository has one name, whichever roots hold each other and whichever walk met it: it is
\* the tail of its full path below the first root that contains it (list.rs: name_repositories).
OneNameEach ==
  phase = "printed" => \A r \in name_repositories :
    LET first == Min({i \in DOMAIN roots : \E p \in Steps(<< "/" >>, r.abs) \cup {r.abs} : p = roots[i]})
    IN  /\ push_full_path(roots[first], r.rel) = r.abs
        /\ r.under_primary <=> first = 1

\* What is printed leads back: a line of --unique, given to --exact, means that one repository
\* and no other, and a line of the plain listing finds its repository again, as an exact query
\* and as a query with a host.  --unique leaves a repository out only if its path is the tail
\* of another's, or if it was met twice outside the primary root (list.rs: format_unique,
\* filter_repos).
LinesLeadBack ==
  phase = "printed" /\ ~args.full_path =>
    LET all == name_repositories
        exactly(l) == filter_repos(all, TRUE, l)
    IN  /\ \A o \in out : o[2] \in exactly(o[1])
        /\ args.unique /\ args.query = <<>> => \A o \in out : {r.rel : r \in exactly(o[1])} = {o[2].rel}
        /\ ~args.unique => \A o \in out : looks_like_pattern(host_component(o[1])) /\ Has(o[1], "/") =>
                                            o[2] \in filter_repos(all, FALSE, o[1])
        /\ args.unique /\ args.query = <<>> => \A r \in all \ {o[2] : o \in out} :
             \/ \E s \in all : s.rel # r.rel /\ r.rel \in subpaths(s.rel)
             \/ ~r.under_primary /\ repos_count(all, r.rel) > 1
=============================================================================
