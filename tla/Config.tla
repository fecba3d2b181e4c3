------------------------------- MODULE Config -------------------------------
(***************************************************************************)
(* One scap process finding where each of its targets belongs: the roots,  *)
(* the delegation to `git config --get-urlmatch` with its memo             *)
(* (src/config.rs), and the commands that ask (src/cmd/get.rs, rm.rs,      *)
(* create.rs), under a user who may edit a gitconfig meanwhile.            *)
(*                                                                         *)
(* The snapshot is taken once; each delegation reads the files anew.       *)
(***************************************************************************)
EXTENDS Sources

CONSTANTS
  Workers,       \* the threads of `get -P`; one of them serves the other commands
  Starts,        \* where a process may start: [env, files, req], with
                 \* req = [cmd, ssh, parallel, look, bare, targets] its command line
  Named,         \* Named[i]: the repository [host, owner, name] that input i is to mean
  Contents,      \* what an edit may leave in the user's gitconfig,
  EditedIn,      \* bound: the environments it happens in
  MaxFailures,   \* bound: delegations that fail for a passing reason
  Cleaned,       \* Cleaned[r]: root r without "." and ".." (clean_path)
  Physical       \* Physical[r]: a cleaned root with its symlinks resolved (canonicalize)

ASSUME MaxFailuresAssumption == MaxFailures \in Nat

ASSUME WorkersAssumption == Workers # {}

\* A path that was resolved resolves to itself.
ASSUME PathsAssumption ==
  /\ \A r \in DOMAIN Cleaned : Cleaned[r] \in DOMAIN Physical
  /\ \A r \in DOMAIN Physical : Physical[r] \in DOMAIN Physical /\ Physical[Physical[r]] = Physical[r]

IsSequence(s) == s \in Seq(ToSet(s))

\* Files and environments hold sequences of entries, and their roots are paths.
GivesRoots(entries) ==
  /\ IsSequence(entries)
  /\ \A e \in ToSet(entries) : /\ DOMAIN e = {"key", "sub", "val"}
                               /\ e.key \in {"root", "onbranch"} => e.val \in DOMAIN Cleaned

\* A command line has its six parts; git's own system file is one of the candidates; a file
\* under two spellings is one file; only a file the user names lies below no directory.
ASSUME StartsAssumption ==
  /\ IsSequence(SystemCandidates) /\ GitPrefix \in ToSet(SystemCandidates)
  /\ "home/scap" \in DOMAIN Cleaned
  /\ \A s \in Starts :
        /\ DOMAIN s.req = {"cmd", "ssh", "parallel", "look", "bare", "targets"}
        /\ IsSequence(s.env.scapRoot) /\ GivesRoots(s.env.extra)
        /\ \A l \in DOMAIN s.files : GivesRoots(s.files[l])
        /\ s.env.oneGlobal /\ "home" \in DOMAIN s.files =>
              "xdg" \in DOMAIN s.files /\ s.files["xdg"] = s.files["home"]
        /\ \A l \in DOMAIN s.files : (\E e \in ToSet(s.files[l]) : e.key = "nodir") =>
              l \in {"GIT_CONFIG_SYSTEM", "GIT_CONFIG_GLOBAL", "xdg", "home"}

VARIABLES
  env, files,    \* the environment, and the gitconfig files as they are now
  req,           \* the command line
  snap,          \* the process's ConfigSnapshot, or NotLoaded
  todo,          \* targets not taken yet
  pc, job,       \* per worker: control, and the target it resolves
  memo,          \* cells: url -> git's answer, for the urls answered
  holder,        \* url -> the worker that holds the url's slot
  went,          \* the decisions taken: where each target belongs
  answered,      \* url -> delegations that brought an answer
  failures, edits

vars == << env, files, req, snap, todo, pc, job, memo, holder, went, answered, failures, edits >>

\* f, with v at each of keys.
With(f, keys, v) == [k \in DOMAIN f \cup keys |-> IF k \in keys THEN v ELSE f[k]]

NotLoaded == ConfigError("not loaded")
NoJob == [input |-> <<>>, repo |-> UrlError("Empty"), remote |-> <<>>]

-----------------------------------------------------------------------------
\* s without what it repeats.
Firsts(s) == Picks(s, {i \in DOMAIN s : \A j \in 1..(i - 1) : s[j] # s[i]})

\* clean_path, canonicalize and first occurrences only
Dedupe(roots) == Firsts([i \in DOMAIN roots |-> Physical[Cleaned[roots[i]]]])

\* Mutant of resolve_roots: the roots of URL sections are left out.
PlainRoots(e, s, all) ==
  LET configured == IF e.scapRoot # <<>> THEN e.scapRoot ELSE Reverse(s.roots)
      roots == IF configured = <<>> /\ e.home THEN << "home/scap" >> ELSE configured
  IN  IF roots = <<>> THEN <<>> ELSE Dedupe(roots)

\* << >> stands for the error NoHomeDir.
resolve_roots(e, s, all) ==
  LET configured == IF e.scapRoot # <<>> THEN e.scapRoot ELSE Reverse(s.roots)
      roots == IF configured = <<>> /\ e.home THEN << "home/scap" >> ELSE configured
      scoped == IF all /\ e.scapRoot = <<>> THEN s.url_scoped_roots ELSE <<>>
  IN  IF roots = <<>> THEN <<>> ELSE Dedupe(roots \o scoped)

PrimaryRoot(e, s) == LET r == resolve_roots(e, s, FALSE) IN IF r = <<>> THEN None ELSE r[1]

IsCodecommit(url) == IsPrefix(<< "codecommit", ":", "/", "/" >>, url) \/ is_codecommit_input(url)

Delegates(e, s, url) == e.scapRoot = <<>> /\ ~IsCodecommit(url) /\ s.url_scoped_roots # <<>>

\* Rules (a) to (e); answer is what git said, None if it was not asked or knows no root.
root_for_url(e, s, url, answer) ==
  IF e.scapRoot # <<>> THEN Cleaned[Head(e.scapRoot)]
  ELSE IF IsCodecommit(url) THEN PrimaryRoot(e, s)
  ELSE IF answer # None THEN Cleaned[answer]
  ELSE IF s.roots # <<>> THEN Cleaned[Last(s.roots)]
  ELSE PrimaryRoot(e, s)

\* External: git's choice among the roots whose section matches the URL: the longest
\* section wins, then the last; a plain key matches every URL and is the shortest.
WithoutUser(url) == LET c == Find(url, ":")
                        at == Find(url, "@")
                    IN  IF at = 0 THEN url ELSE SubSeq(url, 1, c + 2) \o After(url, at)

Matches(sub, url) == /\ IsPrefix(sub, WithoutUser(url))
                     /\ Len(sub) < Len(WithoutUser(url)) => WithoutUser(url)[Len(sub) + 1] = "/"

get_urlmatch(e, f, url) ==
  LET listing == GitListing(e, f)
      hits == {i \in DOMAIN listing : listing[i].key = "root" /\ (listing[i].sub = <<>> \/ Matches(listing[i].sub, url))}
      best == {i \in hits : \A j \in hits : \/ Len(listing[j].sub) < Len(listing[i].sub)
                                            \/ Len(listing[j].sub) = Len(listing[i].sub) /\ j <= i}
      vals == {listing[i].val : i \in best} \ {""}
  IN  IF vals = {} THEN None ELSE CHOOSE v \in vals : TRUE

-----------------------------------------------------------------------------
Init ==
  /\ \E s \in Starts : env = s.env /\ files = s.files /\ req = s.req
  /\ snap = NotLoaded
  /\ todo = req.targets
  /\ pc = [w \in Workers |-> "start"]
  /\ job = [w \in Workers |-> NoJob]
  /\ memo = <<>> /\ holder = <<>> /\ answered = <<>>
  /\ went = {} /\ failures = 0 /\ edits = 0

\* The threads a command runs its targets on.
Crew == IF req.parallel THEN Workers ELSE {CHOOSE w \in Workers : TRUE}

\* config::snapshot, on the first thread, before the others exist.
Load ==
  /\ snap = NotLoaded
  /\ snap' = load(env, files)
  /\ pc' = [w \in Workers |-> IF snap'.err = None /\ w \in Crew THEN "idle" ELSE "done"]
  /\ UNCHANGED << env, files, req, todo, job, memo, holder, went, answered, failures, edits >>

\* Mutant of AfterError: the failed target stays in hand.
KeepsJob(w) ==
  /\ pc' = [pc EXCEPT ![w] = IF req.parallel THEN "idle" ELSE "done"]
  /\ req' = [req EXCEPT !.look = req.look /\ req.parallel]
  /\ UNCHANGED job

\* A target failed: -P logs it and goes on, every other command ends there.
AfterError(w) ==
  /\ pc' = [pc EXCEPT ![w] = IF req.parallel THEN "idle" ELSE "done"]
  /\ req' = [req EXCEPT !.look = req.look /\ req.parallel]
  /\ job' = [job EXCEPT ![w] = NoJob]

\* process_target, rm::run and create::run, as far as the remote.
Take(w) ==
  /\ pc[w] = "idle" /\ todo # <<>>
  /\ todo' = Tail(todo)
  /\ LET repo == from_input(Head(todo), snap.user, snap.complete_user, env.aws)
         remote == IF req.cmd = "get" /\ repo.host = <<>> THEN repo.original
                   ELSE IF req.ssh THEN repo.ssh_url ELSE repo.https_url
     IN  IF repo.err # None THEN AfterError(w)
         ELSE /\ UNCHANGED req
              /\ pc' = [pc EXCEPT ![w] = "resolve"]
              /\ job' = [job EXCEPT ![w] = [input |-> Head(todo), repo |-> repo, remote |-> remote]]
  /\ UNCHANGED << env, files, snap, memo, holder, went, answered, failures, edits >>

Asked(w) == job[w].remote

\* The target's place is known, or there is no home directory to put it in.
Decide(w, answer) ==
  LET root == root_for_url(env, snap, Asked(w), answer)
  IN  IF root = None THEN AfterError(w) /\ UNCHANGED went
      ELSE /\ UNCHANGED req
           /\ went' = went \cup {[input |-> job[w].input, remote |-> Asked(w), fresh |-> edits = 0,
                                  dest |-> dest_path(root, job[w].repo, req.bare)]}
           /\ pc' = [pc EXCEPT ![w] = "idle"]
           /\ job' = [job EXCEPT ![w] = NoJob]

Resolve(w) ==
  /\ pc[w] = "resolve" /\ ~Delegates(env, snap, Asked(w))
  /\ Decide(w, None)
  /\ UNCHANGED << env, files, snap, todo, memo, holder, answered, failures, edits >>

\* urlmatch: the url's cell, then its slot, whose lock is held until the answer is known.
LockSlot(w) ==
  /\ pc[w] = "resolve" /\ Delegates(env, snap, Asked(w)) /\ Asked(w) \notin DOMAIN holder
  /\ holder' = With(holder, {Asked(w)}, w)
  /\ pc' = [pc EXCEPT ![w] = "slot"]
  /\ UNCHANGED << env, files, req, snap, todo, job, memo, went, answered, failures, edits >>

Unlock(url) == holder' = [u \in DOMAIN holder \ {url} |-> holder[u]]

Remembered(w) ==
  /\ pc[w] = "slot" /\ Asked(w) \in DOMAIN memo
  /\ Decide(w, memo[Asked(w)]) /\ Unlock(Asked(w))
  /\ UNCHANGED << env, files, snap, todo, memo, answered, failures, edits >>

\* Mutant of MustSpawn: the cell is not looked at again under its lock.
SpawnsAnyway(w) == pc[w] = "slot"

MustSpawn(w) == pc[w] = "slot" /\ Asked(w) \notin DOMAIN memo

\* Mutant of Answered: the answer is used and not stored.
Forgotten(w) ==
  /\ MustSpawn(w) /\ resolve_git_program(env) /\ ~GitDies(env, files)
  /\ Decide(w, get_urlmatch(env, files, Asked(w)))
  /\ Unlock(Asked(w))
  /\ UNCHANGED << env, files, snap, todo, memo, answered, failures, edits >>

Answered(w) ==
  /\ MustSpawn(w) /\ resolve_git_program(env) /\ ~GitDies(env, files)
  /\ LET answer == get_urlmatch(env, files, Asked(w))
     IN  memo' = With(memo, {Asked(w)}, answer) /\ Decide(w, answer)
  /\ answered' = With(answered, {Asked(w)}, IF Asked(w) \in DOMAIN answered THEN answered[Asked(w)] + 1 ELSE 1)
  /\ Unlock(Asked(w))
  /\ UNCHANGED << env, files, snap, todo, failures, edits >>

\* Mutant of SpawnFails: an error path that keeps the slot's lock.
KeepsSlot(w) ==
  /\ MustSpawn(w)
  /\ IF resolve_git_program(env) /\ ~GitDies(env, files)
     THEN failures < MaxFailures /\ failures' = failures + 1
     ELSE UNCHANGED failures
  /\ AfterError(w)
  /\ UNCHANGED << env, files, snap, todo, memo, holder, went, answered, edits >>

\* No git, a git that dies, or one that failed this once: nothing is remembered.
SpawnFails(w) ==
  /\ MustSpawn(w)
  /\ IF resolve_git_program(env) /\ ~GitDies(env, files)
     THEN failures < MaxFailures /\ failures' = failures + 1
     ELSE UNCHANGED failures
  /\ AfterError(w) /\ Unlock(Asked(w))
  /\ UNCHANGED << env, files, snap, todo, memo, went, answered, edits >>

\* The queue is empty.
Leave(w) ==
  /\ pc[w] = "idle" /\ todo = <<>>
  /\ pc' = [pc EXCEPT ![w] = "done"]
  /\ UNCHANGED << env, files, req, snap, todo, job, memo, holder, went, answered, failures, edits >>

\* --look: the first target again, on the first thread, after the others ended.
ExecLook ==
  /\ req.look /\ snap.err = None /\ \A w \in Workers : pc[w] = "done"
  /\ req' = [req EXCEPT !.look = FALSE, !.parallel = FALSE]
  /\ todo' = << Head(req.targets) >>
  /\ pc' = [w \in Workers |-> IF w = CHOOSE v \in Workers : TRUE THEN "idle" ELSE "done"]
  /\ UNCHANGED << env, files, snap, job, memo, holder, went, answered, failures, edits >>

\* External: the user rewrites ~/.gitconfig.
Edit ==
  /\ env \in EditedIn /\ edits = 0 /\ edits' = 1
  /\ \E c \in Contents : files' = With(files, IF env.oneGlobal THEN {"home", "xdg"} ELSE {"home"}, c)
  /\ UNCHANGED << env, req, snap, todo, pc, job, memo, holder, went, answered, failures >>

Work(w) == Take(w) \/ Resolve(w) \/ LockSlot(w) \/ Remembered(w) \/ Answered(w) \/ SpawnFails(w) \/ Leave(w)

AllDone == \A w \in Workers : pc[w] = "done"

Ended == AllDone /\ ~(req.look /\ snap.err = None) /\ UNCHANGED vars

Next == Load \/ ExecLook \/ Edit \/ (\E w \in Workers : Work(w)) \/ Ended

Spec == Init /\ [][Next]_vars

-----------------------------------------------------------------------------
TypeOK ==
  /\ pc \in [Workers -> {"start", "idle", "resolve", "slot", "done"}]
  /\ \A w \in Workers : pc[w] \in {"resolve", "slot"} <=> job[w] # NoJob
  /\ DOMAIN memo = DOMAIN answered
  /\ failures \in 0..MaxFailures /\ edits \in 0..1

\* A slot that is locked is locked by a thread that is asking git for that very remote, so a
\* thread waits only for its own answer, and not for ever (config.rs:180-184).
WaitsForItsAnswer ==
  \A u \in DOMAIN holder : pc[holder[u]] = "slot" /\ Asked(holder[u]) = u

\* The root of a remote when git alone is asked, and ghq's primary root when it knows none.
GitRoot(g, url) ==
  LET answer == get_urlmatch(env, files, url)
  IN  IF env.scapRoot # <<>> THEN Cleaned[Head(env.scapRoot)]
      ELSE IF IsCodecommit(url) \/ answer = None THEN PrimaryRoot(env, g)
      ELSE Cleaned[answer]

Roots(s) == [all \in BOOLEAN |-> resolve_roots(env, s, all)]

\* What a process works with, roots apart; of an exclusion only its first place matters.
Settings(s) == [s EXCEPT !.roots = <<>>, !.url_scoped_roots = <<>>, !.list_exclude = Firsts(s.list_exclude)]

\* The system file scap reads is git's.  It is not where git was built to read another one than
\* the only one scap finds (sources.rs:18-21), nor where git is told to skip the file that
\* GIT_CONFIG_SYSTEM names, which scap reads all the same (sources.rs:84).
SystemIsGits ==
  /\ ~(env.nosystem /\ env.systemVar)
  /\ Len(probe_system_config(files)) = 1 => GitPrefix \in DOMAIN files

\* The repository scap finds is git's.  It is not where a ceiling is written through a symlink
\* (README.md:57), nor where git refuses a repository of another owner, whose trust scap drops
\* (sources.rs:196).
RepositoryIsGits == git_repository(env) = discover_git_dir(env)

\* One of the files git would read is one it passes over.
GitPassesOver(e, fs) == \E l \in ToSet(GitFiles(e, fs)) \cap DOMAIN fs : PassedOver(l, fs)

\* Where scap and git take the same system file and the same repository, a process that goes on
\* has the settings git reads from the same files, its roots and every target's root included.
\* It stops where git would, where git is needed and missing, or of a file that cannot be opened
\* and that git passes over (config.rs:439), and nowhere else (config.rs: load, root_for_url
\* rules (a) to (e)).
AsGitReads ==
  edits = 0 /\ AllDone /\ SystemIsGits /\ RepositoryIsGits =>
    LET g == from_listing(GitListing(env, files), env)
    IN  /\ snap.err # None => \/ GitDies(env, files)
                              \/ ~env.git
                              \/ snap.err = "Parse" /\ GitPassesOver(env, files)
        /\ snap.err = None => /\ ~GitDies(env, files)
                              /\ Settings(snap) = Settings(g) /\ Roots(snap) = Roots(g)
                              /\ \A d \in went : GitRoot(g, d.remote) \in {d.dest[1], Physical[d.dest[1]]}

\* While a process runs, one remote has one root, however its user edits the gitconfig
\* meanwhile and whatever failed before: --look enters the clone it made (config.rs:178-184).
OneAnswer == \A d, e \in went : d.remote = e.remote => d.dest[1] = e.dest[1]

\* Threads that ask the same question share one answer: no remote is answered by git twice
\* (config.rs:181-184, 814-815).
OneSpawnAnswers == \A u \in DOMAIN answered : answered[u] = 1

\* Without a home directory and a plain root, `scap list` and `scap root` refuse, although a URL
\* section may give a clone its root (config.rs:711-714).
Homeless(s) == ~env.home /\ env.scapRoot = <<>> /\ s.roots = <<>>

\* scap finds every repository that git finds.
RepositoryIsFound == git_repository(env) \in {None, discover_git_dir(env)}

\* A later `scap list` or `scap root --all` walks the root a target was put in: no clone is
\* made where the listing cannot find it, but where it says so (config.rs: resolve_roots against
\* root_for_url), although git may refuse a repository that scap reads.
ListedRoot ==
  edits = 0 /\ AllDone /\ RepositoryIsFound =>
    LET s == load(env, files)
        listed == resolve_roots(env, s, TRUE)
    IN  \A d \in went : IF Homeless(s) THEN listed = <<>> ELSE Physical[d.dest[1]] \in ToSet(listed)

\* Every spelling of a repository, its own remote included, leads to the one path
\* <host>/<owner>/<name>, and under one gitconfig to the one root (url.rs, path.rs).
OnePlacePerRepository ==
  AllDone => \A d \in went :
    /\ d.dest[2] = rel_path(Named[d.input], req.bare)
    /\ req.cmd # "get" \/ IsCodecommit(d.remote) \/ d.dest[2] = rel_path(from_input(d.remote, None, FALSE, env.aws), req.bare)
    /\ \A e \in went : d.fresh /\ e.fresh /\ d.dest[2] = e.dest[2] => d.dest = e.dest
=============================================================================
