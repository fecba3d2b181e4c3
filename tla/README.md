# Formal models of scap

scap clones git repositories into one tree (`scap get`), lists that tree
(`scap list`), and creates, removes and locates repositories in it. This
directory holds TLA+ models of the parts where order matters, the TLC
configurations that check them, and TLAPS proofs about them. Paths below are
relative to the repository root (`src/...` is its Rust source).

Check a model with `tlc -config <run>.cfg <module>.tla`, a proof with
`tlapm <module>.tla`.

## The system

| Component | State it keeps | Operations | Interacts with |
|---|---|---|---|
| `cmd/get.rs` | files beside each destination: `.scap-lock-<name>`, `<name>.tmp-<pid>`; the `-P` queue | process a target, sweep stale directories, lock, clone, rename, clean up, exit 75 | other scap processes through the file system; git children |
| `vcs/git.rs` | none | clone, update, is-it-a-repository, stale temporary directories, is-the-pid-alive | git, the process table |
| `walk/pool.rs` | deques, `in_flight`, the parking lot | find a job, run it, push, wake, park, retire | `walk/sys.rs` on every worker |
| `walk/sys.rs`, `walk/mod.rs` | `live_fds`, per-worker output | open, read, classify and queue one directory; walk a root or a set of subtrees | the file system; the pool |
| `walk/arena.rs` | one byte buffer per worker | push, merge, iterate | the walk |
| `index.rs` | one file per root under the cache directory | load, probe, re-walk what is stale, build, write atomically, check against a fresh walk | the walk; other list processes through the file |
| `cmd/list.rs` | none | walk or index every root, filter, name, print | index, walk, config |
| `config.rs`, `config/*` | the once-only snapshot, the urlmatch memo | parse gitconfig or ask git, resolve roots, match a URL | every command |
| `url.rs`, `path.rs` | none | argument to remote, remote to destination | get, create, rm |
| `cmd/rm.rs`, `cmd/create.rs`, `cmd/root.rs` | the tree itself | remove, create, print roots | get, through the file system |

What is hard, and what should hold of it:

* **get**: any number of processes and threads share a destination, a lock file
  that is unlinked while others may have it open, and temporary directories
  named by pid; each may be killed at any step. A destination must go from
  absent to a whole clone and never be seen between; nobody may disturb a live
  clone; what crashes leave must neither block nor survive later runs.
* **pool**: termination is detected by a counter while workers steal, park and
  panic. No worker may leave while work can still arrive, none may be left
  asleep, and the descriptors parked in the queue must stay within a budget
  that is checked without a lock.
* **index**: a listing is believed on the evidence of timestamps read at other
  times than the entries they vouch for, while the tree and other writers
  change things. A run over an unchanging tree must print what a walk would.
* **rm, create**: three or four steps on the tree without get's lock, against it
  and each other. A whole repository may only be lost to an rm that its user
  confirmed, and half of one only be left by a command that says so.
* **config**: an in-process reader that must agree with git about files, order
  and settings, or notice that it cannot and ask; answers of git shared between
  threads, which must neither be asked for twice, nor contradict each other when the
  user edits the file meanwhile, nor block anyone after a failure.
* **list, url, path**: sequential, but with many cases; every spelling of a repository
  has to lead to one place, every directory that may be read to what is in it
  or to a flag, and every line to one repository.

`PROJECT.json` lists the components with their status, and every hazard with
its line and the properties that cover it.

## Models

### get: `AtomicClone`, `GetClone`, `MCGetClone`, `GetCloneProofs`, `GetOutcomeProofs`

`GetClone` models any number of scap processes (`Procs`), each with one worker
or, with `-P`, one per target up to six; a worker is `<<process, number>>`.

| Model | Code |
|---|---|
| `dest` | the destination: absent, an empty directory, something else, part of a clone, a whole clone |
| `tmp[d][p]` | `<name>.tmp-<pid>` beside it; `"junk"` is what a run before this behaviour left |
| `lockPath`, `fd` | which inode the name `.scap-lock-<name>` has now, and which one a worker holds open; the flock lies on the inode |
| `next`, `job` | the queue of arguments and the one a worker is on |
| `stale`, `victim`, `spared` | what `stale_tmp_paths` returned, the directory in `remove_dir_all` right now (`"moved"`: it was renamed onto the destination meanwhile), and the pids whose leftovers the scan did not see or the sweep could not delete |
| `git` | the worker's `git clone` child, which outlives a killed process |
| `Take`, `Finish` | the loop of `run` and of a `run_parallel` worker |
| `Existing`, `Missing` | `process_target` looking at the destination, before any lock |
| `Scan`, `SweepStart/End/Fails/Done` | the sweep of dead pids' directories, one at a time, each delete in two steps; the scan may miss any of them and any delete may fail, and the run goes on |
| `OpenLock`, `TryLock`, `TempFail` | opening the lock file, `try_lock`, and `exit(75)` of the whole process when it fails, of a lock that is held or, where `FlockFails` allows it, of itself |
| `Clone`, `Reap`, `Rename`, `RenameFails`, `CleanupStart/End`, `Unlock`, `Unlink` | the rest of `clone_with_lock`, one action per system call that others can see |
| `Kill`, `Die`, `Exit` | a process may be killed between any two of these |

`AtomicClone` is the promise (README.md:50, "Atomic clone via temp-dir +
rename"): a destination goes from absent or empty to a whole clone in one step.
`GetClone` implements it (`AbstractSpec`) with `dest` unchanged as the mapping:
every step of the lock, the sweep, git and the crashes is a stutter.

| Run | Shows |
|---|---|
| `GetRace` | three sequential processes, one with `-u`, one destination, leftovers under two pids, every initial state of destination and lock file: all safety properties and `AbstractSpec` |
| `GetParallel` | a two-worker `-P` process and a sequential one over two destinations in opposite orders, with flock failing on one of them: one worker's exit 75 kills a sibling mid-clone |
| `GetThricePartial` (violation) | one target given three times to `-P`: the destination is partial for a while |

Bounds. Three processes are the fewest with which the unlinked-lock race
happens (one holding the unlinked file, one that opened it before, one that
made a new one), so `GetRace` covers it. A lock inode is reused only when
nothing names or holds it, so `|workers| + |destinations| - 1` inodes are as
good as any number; the runs have that many. Each process is launched once;
a restart is another process. Two leftovers let one deletion fail and the next one be due, and one
destination on which flock may fail, beside one on which it may not, shows both.

What fails. `LeftoversSwept` speaks of what a worker's own scan saw and its own deletions did:
`get.rs:149` ignores a deletion that fails and `git.rs:128-130` takes a parent that cannot be read for
an empty one, so a leftover may lie there when the lock is opened; that failure must not keep the
others from being swept. `TempfailMeansBusy` excepts a flock that fails of itself: `get.rs:164`
asks `is_err()` only, so where flock is not supported, `get` exits 75 and prints that another
process is cloning although none is. Making the parent or the rename may fail with the destination
free (`RenameFails`), like every other step of the clone.

Fairness (`FairSpec`; checked with rm and create beside it, in `RepoLife`). Every thread and every git child is scheduled by the
kernel, so each gets weak fairness; `Launch` and `Kill` get none, and no step
waits for a lock, so none needs strong fairness. Git is assumed to end, which
the code assumes too: `wait` has no timeout.

Assumed or left out. A pid is not handed out again between a sweep's liveness
test and its delete. Git writes into its target directory alone, and removes it on
failure or not. Deleting one's own temporary directory after an error succeeds (get.rs:192 ignores a failure, too). `update` changes nothing
that tells a whole repository from another, so it is an outcome only. Where a
target belongs, and the second resolution `--look` makes of the first one, are
`Config`'s. The argument list from standard input is not modelled.

### rm, create: `RepoLife`, `MCRepoLife`, `RepoLifeProofs`, `RepoOutcomeProofs`

`RepoLife` extends `GetClone` with rm and create processes (`Commands`). They take
no lock, and they hold a directory rather than its name: `held` says whether the
directory a command has open is still the one at its destination, and whether
its files were deleted while it was writing them (`"torn"`). A rename of a
clone onto the destination takes that directory away from them (`Beside`).

| Model | Code |
|---|---|
| `RmCheck`, `Confirm`, `RmOpen`, `RmEmptied`, `RmFails`, `Rmdir` | `rm::run`: the check, the prompt (anything but `y` refuses), and `remove_dir_all`, which opens the directory, deletes what it finds, and removes the name |
| `CreateCheck`, `Mkdir`, `Spawn`, `InitStart`, `InitEnd`, `InitFails` | `create::run`: the check, `create_dir_all`, the child that changes into the directory and becomes `git init` |
| `KillCommand` | either may be killed at any step; a `git init` that was started goes on |
| `GetRuns` | every step of `GetClone` |

Run `RepoLife`: an rm, two creates and a get that takes one destination twice,
with `-u`, from every state of it. Two creates are needed for two writers in one directory, one of
which an rm tears; a second target of the get makes it look at what the others
did to the first. `PartialIsReported` and `LostOnlyToRm` say what may go wrong and who
tells the user, `OkMeansThere` what exit 0 promises, and `EveryRunEnds` that a get ends whatever the
others do.

Fairness (`LifeFairSpec`). As in `GetClone`, and each command goes on by
itself (`Proceed`); `Confirm` has no fairness, since the user need not answer, and
neither do `KillCommand` and `Kill`.

External: what `git init` does in a directory that was removed (it fails), or that holds a
repository (it leaves it as it is).

### walk: `TreeWalk`, `Pool`, `PoolInv`, `PoolProofs`, `MCPool`

`Pool` models the threads of `walk/pool.rs` and, of `walk/sys.rs`, what touches
shared state or decides whether the listing is short: opening, listing, the
descriptor budget and the error paths. A directory carries its progress
(`state`) and whose hands it is in (`owner`); `Queue(w)` and `Found(w)` are
read off these. A queue is a set: the deque's order decides nothing that the
properties mention. `parked` are the jobs with an open descriptor and
`liveFds` the atomic that counts them: they are two variables because the code
updates one without the other.

| Model | Code |
|---|---|
| `Pop`, `Steal`, `LookFurther` | `find_job`: own deque, injector, the others; a steal moves a batch |
| `OpenParked`, `Reopen`, `ReopenFails` | `Walker::run` |
| `List`, `ListingFails`, `StatFirst`, `PastBudget`, `WithinBudget`, `OpenChild`, `OpenFails` | `read_dir` and `queue_child`: the check of the budget, the openat and the count are separate steps |
| `ReadDone`, `Push`, `Pushed`, `Wake`, `Retire` | the tail of `work` and the `Retire` guard |
| `Check`, `Lock`, `Recheck`, `Timeout`, `WakeUp`, `WakeAllFinal` | the idle half of `work`, and `Park`; a spin and the last spin are one choice |
| `Panic` | a panic anywhere in the reading; the guard still retires the job |

`TreeWalk` is the walk without threads: a frontier of directories, each taken
up once, over when it is empty. `Pool` implements it (`WalkSpec`).

| Run | Shows |
|---|---|
| `PoolTree` | two workers, six directories on two levels, one search-only repository, three directories that may fail, a budget of one: safety, `WalkSpec`, and every worker ends though no wait ever times out |
| `PoolPanic` | three workers, stat-first, one wide directory, two directories that may panic: the survivors finish what is left and end, and the counters stay right (`IInv`) |
| `PoolSearchOnly` (violation) | past the budget, open-and-scan drops a mode-0111 repository |

Bounds. Two workers and a budget of one already reach the bound
`fd_cap + N - 1` exactly, so `FdSoftBound` is tight in `PoolTree`; three
workers are needed for a thief to be stolen from, which `PoolPanic` has.

Fairness. `FairSpec` lets every runnable thread run (weak fairness) and
everyone who waits for the mutex get it in the end (strong fairness of the
four steps that take it, since it is released and retaken in between). Nothing
is assumed of `PARK_TIMEOUT`, so `PoolTree` shows that the notifications alone
suffice. After a panic they do not: the jobs left in the dead worker's queue
are announced by nobody, and sleepers find them when their wait times out.
`PoolPanic` therefore uses `TimedSpec`, which adds fairness of `Timeout`.

The entry rules (what is a repository, what is excluded, symlinks) are
`Walker`'s; here they are the constants `Children` and `Repos`. Atomics are sequentially
consistent in the model; the code uses `SeqCst` for `in_flight` and
`sleepers` and `Relaxed` for `live_fds`, of which only the count matters.

### walk: `Walker`; list: `Listing`, `MCListing`, `ListingProofs`

`Pool` has the threads, `Walker` what they find: the entry rules of
`walk/sys.rs`, over a tree whose every node says what the process may learn of
it (its kind, whether readdir tells it, read and search permission, what kind
of `.git` it has). The order in which directories are taken is left open; that each is taken once
is `Pool`'s (`PoolWalks`). `Listing` extends `Walker` with what `cmd/list.rs` makes of the
findings.

| Model | Code |
|---|---|
| `push`, `merge`, `iter` | `walk/arena.rs`: texts in one buffer, with ranges that a merge shifts |
| `KindOf`, `is_repo_dir`, `LinkIsRepository`, `Shown`, `Candidates`, `is_excluded` | the entry rules (i) to (viii) of `walk/sys.rs` |
| `Queued`, `Probed`, `Dropped`, the set `byPath` | `queue_child`: queued open, found by a stat, dropped and flagged, or queued by path while descriptors are short |
| `Stats` | a lookup by path: every directory above must be searchable |
| `NextRoot`, `root_is_walkable`, `PassOver`, `OpenRoot`, `OpenRootFails`, `Run`, `RunFails`, `WalkOver` | `walk_root_capped`, `Walker::run`, and both where a descriptor, the stream or a read fails |
| `root_prefix`, `Naming`, `filter_repos`, `format_unique`, `WriteOut` | `cmd/list.rs` |

Run `Listing` has two kinds of starting state. The first is one root with a
directory in it, one in that, a repository inside, a file and a link, where both
directories take every mode, every kind of `.git` and names with and without
`.git`, the link points to each of them or to nothing, under both strategies,
with and without exclusions, with and without descriptors running out and reads failing (`opts.tight`): `FindsWhatIsThere`
compares the result with a definition of what is there. Three levels are enough since the
rules look at a directory and its parent. Among them is a directory whose own `.git`
only a lookup would tell and which holds one whose name ends in `.git`: whether it may be searched decides
whether the walk goes on to that one. The second is several roots
that contain, prefix or repeat each other, are repositories, are missing, or
are closed, or lie below a directory that may not be searched, with every kind of query and flag, for `OneNameEach` and `LinesLeadBack`.

What the run showed on the way, which is the code's intent as far as it tells: entries
whose kind readdir does not tell, links, and a `.git` link, in a directory that may be read and not
searched (mode r--), are passed over without marking the walk incomplete; so is a link when any directory
on the way to its target may not be searched, like one that dangles (sys.rs:509-517), and a root that
cannot be looked up, although of that one there is a warning (mod.rs:601-604); `Hidden` in
`Listing` names them. A directory that is a repository only by such an entry is `Veiled`: the
walk cannot tell, and goes on into it as into any other. A query `codecommit`-style (a host without a dot) does not find its own
line, since `looks_like_authority` wants one. `--unique` drops a repository that is
found under two roots neither of which is the primary one.

Left out: the tree does not change here (it does in `Index`); an exclusion is a set of paths (the matching of
patterns is gix-glob's); lines are a set (sorting and the buffered writer are not
modelled); a run with an index prints what `Index` says.

### config, url, path: `Url`, `Sources`, `Config`, `MCConfig`, `ConfigProofs`

`Url` has `url.rs` and `path.rs` as operators over tokens: an input is a sequence
of separators and words, so that every place where the code splits, strips or
searches is there, and the letters of a word are not, except for what the
code asks of them (`DottedWords`, `RegionWords`, `CapitalWords`). `Sources` has which gitconfig files are
read, in which order, and when git is asked instead. `Config` is one process that resolves
its targets, with the memo of urlmatch answers that `-P` threads share.

| Model | Code |
|---|---|
| `from_input`, `normalize_to_parseable`, `from_bare`, `from_url`, `parse_codecommit`, `rel_path` | the functions of these names in `url.rs` and `path.rs` |
| `enumerate`, `discover_git_dir`, `common_dir_of`, `probe_system_config` | `config/sources.rs` |
| `needs_git_backend`, `load`, `load_git`, `from_file`, `from_listing` | `config.rs`, `config/git_backend.rs` |
| `resolve_roots`, `root_for_url`, `Delegates` | the functions of `config.rs` |
| `memo`, `holder`, `LockSlot`, `Remembered`, `Answered`, `SpawnFails` | `urlmatch`: a cell per URL, whose lock is held across the git child |
| `Take`, `AfterError`, `Resolve`, `Decide`, `Leave`, `ExecLook` | `process_target`, `rm::run`, `create::run`, `run_parallel`, `--look` |
| `Edit` | the user changes `~/.gitconfig` while the process runs |
| `git_repository`, `PassedOver`, `Opened`, `GitListing`, `GitDies`, `get_urlmatch`, `gix_parse` | external: what git and gix-url do; git's own search for the repository is `env.gitRepo`, independent of scap's (`env.cwdRepo`) |

`AsGitReads` compares what the in-process reader makes of the files with what
git makes of them, repeated exclusions and repeated roots apart (`Settings`, `Firsts`: a
pattern excludes, and a root is walked, as often as it is said); `ListedRoot` compares the root of a clone with the roots a listing
walks; `OnePlacePerRepository` compares the spellings of one repository, its own remote
among them; `OneAnswer`, `OneSpawnAnswers` and `WaitsForItsAnswer` are about the memo.

`ListedRoot` has one exception, met while proving it and now an arrangement of the run:
`resolve_roots` asks for a home directory before it looks at the roots of URL sections
(config.rs:711-714). Without `HOME` and a plain `scap.root`, where only a URL section gives a
root, `get` clones below it, and `list` and `root` stop with `NoHomeDir` (`Homeless`).

`AsGitReads` is about a process that reads the files git reads, and excepts three things.

* The system file (`SystemIsGits`). With `GIT_CONFIG_NOSYSTEM` and `GIT_CONFIG_SYSTEM` both set, scap
  reads the file the latter names (sources.rs:84) and git does not. And where exactly one candidate exists, which is
  not the file the installed git was built to read, scap takes it for git's (sources.rs:18-21 asks git
  only for more than one).
* The repository (`RepositoryIsGits`). A ceiling written through a symlink stops git and not scap
  (README.md:57), and scap drops the trust that gix-discover returns (sources.rs:196), where git
  refuses a repository of another owner. `ListedRoot` needs less, `RepositoryIsFound`: scap may read a repository
  that git refuses, but not miss one that git reads.
* Files that exist and cannot be opened. scap stops with a parse error (config.rs:439,
  `ignore_io_errors: false`; the error names the first file of the list, whichever it was); git dies of
  the system or the repository file too, but passes over a user's file that it may not read, and over
  any path that leads through a file (`PassedOver`). So scap may stop where git goes on (`GitPassesOver`).

The run has starts of all these kinds, which the other properties are checked on too; dropping any of the
three exceptions makes TLC find the difference.

What the constants must satisfy: there is a thread (`WorkersAssumption`); a path that was resolved resolves to itself
(`PathsAssumption`, what `canonicalize` does); the system file git was built with is one of
the candidates that scap looks for (sources.rs:29-42; `StartsAssumption`: with a git of
another prefix scap would read less than git); only a file that the user names or that lies in the home directory can have
a file for a directory on its way; and where the two global files are one, which the code
tells by their canonical path (sources.rs:93-119), they hold the same.

Run `Targets`: one target in every environment (each variable that decides
which files are read, with and without git, in a repository and in a linked
worktree) and arrangement of files (each file with a root of its own, so that one
read too much, too little or out of order shows; an `onbranch` include, files that do not
parse and files that cannot be opened, `worktreeConfig`, URL sections), in a repository that both, only scap or only git finds; and seventeen spellings, inputs that name nothing,
`-p`, `--bare`, `--look`, and four targets on two `-P` threads, three of them
of one remote, under two gitconfigs, with one edit at any moment and one delegation that fails for
a passing reason. Two threads and two equal remotes are what one slot can be contended with; one
failure lets the other thread inherit a slot without an answer.

Left out: `..` right after `:` or `@`; a key `scap.user` without a value; git's
integer syntax in booleans (`parse_git_int`: one word stands for a number that is not zero); `~` and
`%(prefix)` in paths, `include.path`; percent-decoding; `detect_vcs` (only git
is ever chosen).
Under `-P` a failing delegation ends its target only, where the comment at
config.rs:814 has every such error end the process; the memo is right either way, as
`WaitsForItsAnswer` and `OneAnswer` show.

### index: `Index`, `MCIndex`, `IndexProofs`

`Index` models the index file of one root, the `scap list` processes that load,
validate, re-walk and replace it, and the tree, which other programs change at
any moment. Time is a tick of the file system's clock: two changes in one tick
leave the same mtime, which is what the racy window is about.

| Model | Code |
|---|---|
| `trees[i]`, `cur` | the directory with inode `i`, and which one is at the root's path |
| `file`, `index` | the file, and what a run loaded or is about to write |
| `base` | the root descriptor of the probes or of the walk |
| `probes`, `Probe`, `Found` | `probe_all`: one `statat` per entry, in any order, the tree changing between them |
| `Visited`, `Hit`, `Hits`, `IsRacy`, `Validated` | `walk_index`, and the choice between re-walking subtrees and the whole root |
| `todo`, `opened`, `gone`, `Open`, `ReadDir`, `SeeGit`, `OpenFails` | the walk, one directory at a time: its mtime is read at `Open`, its entries at `ReadDir` |
| `CheckAfresh` | `check_root` keeping the index's answer and walking again |
| `Build`, `Store`, `GiveUp` | `store_if_complete`, `build`, `write_atomically`; a crash or a write error |
| `Tick`, `MoveIn`, `Delete`, `ToggleGit`, `Swap` | other programs (external) |

`NothingStaleIsBelieved` is about the file at rest and `QuietRunIsRight` about
what is printed: a run that nothing disturbs prints what a walk would, whoever
wrote the index and whatever has happened since. `DifferencesAreWarnedOf`
is about `--cache-check`: if nothing changed meanwhile, a repository that one of the two listings has and
the other lacks lies at or below a directory that could not be opened, and of which the walk that lacks it
warned. `report_diff` (index.rs:580) compares short listings like complete ones, so it does report such a
repository, as `(in the index, not on disk)` even when only the fresh walk could not look; that
it reports a difference says something about the index only if no walk warned. `WrittenDecodes` says that what is written is a tree
`decode` accepts.

| Run | Shows |
|---|---|
| `IndexRuns` | three runs by two processes (two may write at once, a third reads), one change to the tree of any kind at any moment |
| `IndexSettings` | a root with two children, one of which may fail to open at any time; runs with different exclusions, `--cache-check`, and between runs another directory at the root's path with old timestamps |
| `IndexRestore` (violation) | the root replaced *while* a run walks it |

Bounds. Three directories in a chain (in `IndexSettings` two beside each other, so that a directory that does not open leaves another to compare) give a parent, a child that may be
believed under it, and a root; four ticks with a window of two give an entry
old enough to be believed and a change after it. One change per behaviour, at
any point of any run, makes any one entry stale in any phase. `MaxWalk < Window` says that a run takes
less than the racy window: with `MaxWalk = 2` TLC finds the change that is
missed, the limitation README.md:61 and `index.rs` warn of for coarse clocks. Under that bound a change
while a run walks is racy anyway, so the order of the mtime and the entries at `Open` and `ReadDir`, which is
the code's, decides nothing the properties see: no property claims to cover it.

Left out: the three blind spots README.md:61 lists (rewound timestamps, symlinked repositories,
mode 0111), names ending in `.git`, a failed `fstat` (`NEVER_VALID`), several
roots (each has its own file), and the bytes of the file (planned as
`IndexCodec`). A directory's entries are read in one step.

## Theorems

Each theorem is for every value of the constants that its module's assumptions
allow: any processes, threads, directories, destinations, inputs and files.

`GetCloneProofs` and `GetOutcomeProofs`, about `GetClone`:

| Theorem | Statement | Assumes |
|---|---|---|
| `TypeCorrect` | `Spec => []TypeOK` | |
| `NeverHalfCloned` | `Spec => []DestNeverPartial` | `DistinctTargets` |
| `NeverDisturbed` | `Spec => []LiveCloneUndisturbed` | `DistinctTargets` |
| `ImplementsAtomicClone` | `Spec => AbstractSpec` | `DistinctTargets` |
| `OkIsTrue` | `Spec => []OkMeansCloned` | `DistinctTargets` |
| `NoneLeftBehind` | `Spec => []NothingLeftBehind` | `DistinctTargets` |
| `AllSwept` | `Spec => []LeftoversSwept` | `DistinctTargets` |
| `BusyIsTrue` | `Spec => TempfailMeansBusy` | `DistinctTargets` |

`DistinctTargets`: no `-P` process is given one destination twice. Without it
`DestNeverPartial` is false (`GetThricePartial`). The first four proofs never use that the
lock is held: as the lock file is unlinked by name after the unlock, two
processes may hold a lock each, and what protects the destination
is that temporary directories are named by pid and that rename replaces
nothing. The inductive invariant `Safe` says just that: the live workers of
one process are on different targets (`JobsDistinct`); the directory a worker
deletes is its own or a dead process's (`StaleDead`, `VictimOK`); a process
that was not launched has no git child (`Unborn`); a worker that is not
waiting has no live child (`GitQuiet`); a worker about to rename has a whole
clone in its temporary directory (`WholeReady`). `DestNeverPartial` alone is
not inductive: rename publishes whatever the temporary directory holds.

What a process says when it ends rests on an invariant of its own each.
Exit 0 (`OkInv`): a sequential worker has left no target behind it that is not
whole but for the one it is on, leaves only at the end of its queue, and carries a
true outcome to the unlink; whole destinations stay whole, since only `Rename` changes
one (`OnlyRenames`). The directories (`LeftInv`): a temporary directory that a live
process made is in the hands of a worker that will rename or delete it. The sweep
(`SweptInv`): a leftover beside its destination is on a worker's list or being
deleted by it until it opens the lock, or is one that its scan or a deletion of its own failed on (`spared`),
and nobody makes new ones (`JunkIsOld`). Exit 75
(`LockInv`): as long as a name or an open descriptor refers to a lock file's
inode, it means one destination, although the file is unlinked under its holders. So a lock that
is held is held for that destination, whether or not flock may fail there.

`RepoLifeProofs`, about `RepoLife`, reuses `TypeInv` and `Safe`, which a step of rm
or create leaves alone (`GetUntouched`):

| Theorem | Statement | Assumes |
|---|---|---|
| `LifeInvariance` | `LifeSpec => []LifeInv` | `DistinctTargets` |
| `PartialAlwaysReported` | `LifeSpec => []PartialIsReported` | `DistinctTargets` |
| `OnlyRmLoses` | `LifeSpec => LostOnlyToRm` | `DistinctTargets` |

`PartialIsReported` speaks of the end only; `LifeInv` says of every moment who
answers for part of a repository: an rm that is deleting and cannot end well while something
is left, a command that has failed, or a `git init` that is still writing; and that a torn
directory has an rm to answer for it.

`ConfigProofs`, about `Config` (with `MaxFailuresAssumption`; `RootsAreListed`, `ReadsAsGit` and
`RemotesAreStable` also use `StartsAssumption`, the first of them `PathsAssumption`, the second
`WorkersAssumption`):

| Theorem | Statement |
|---|---|
| `Invariance` | `Spec => []MemoInv` |
| `TypeCorrect` | `Spec => []TypeOK` |
| `SlotsAreFreed` | `Spec => []WaitsForItsAnswer` |
| `OneSpawn` | `Spec => []OneSpawnAnswers` |
| `OneRoot` | `Spec => []OneAnswer` |
| `RootsAreListed` | `Spec => []ListedRoot` |
| `ReadsAsGit` | `Spec => []AsGitReads` |
| `RemotesLeadBack` | `NamesItself(repo, ...)` for every `WellSpelt(repo)` |
| `RemotesAreStable` | `Spec => []RemoteLeadsBack` |

The theorems about the memo use nothing about the configuration's files or the spelling of URLs: that one remote has one root
follows from the snapshot, which is taken once, and from the memo, which is
never overwritten. `MemoInv` adds that a thread that asks has the lock of its remote's slot
and no other, and that every decision taken is founded on what the snapshot and the memo
still say (`Founded`).

`RootsAreListed` is about what is read. Until a gitconfig is edited, the snapshot and the
memo hold what the files say (`FreshInv`), so that by `Founded` every decision is
`root_for_url` of the files. git reads no file that scap does not (`GitReadsNoMore`)
where scap finds the repository git finds, if any; so every root git may answer is among those of the snapshot, plain or in a
section, whichever of the two backends made it (`LoadTells`); and `resolve_roots` holds each
of them once it is resolved (`DedupeHolds`). The entries of several files
are joined by a recursive function of the community modules; that the joined sequence holds an entry exactly if one of
the files does is shown without induction, by a shortest sequence of files for which it fails.

`ReadsAsGit` needs the order of what is read too. What scap reads of the files is what git reads of
them, but for one part, a global file under two spellings, that git reads twice in a row
(`ReadsTwice`). `Twice(p, q)` says this of any two sequences: `p` is `a \o b \o c` and `q` is
`a \o b \o b \o c`. Every operator on the way from entries to settings and roots distributes over `\o`
(`ReadJoin`, `PicksJoin`, `PlainJoin`, `TrimmedJoin`, `RealsJoin`, `ReverseJoin`), so that `Twice` passes through
each of them; and at the end nothing tells the two apart: the last element is the same (`TwiceLast`), and
so are the first occurrences, in any company (`Alike`, `AlikeJoin`). Hence the settings and roots are git's whenever
the files are read in-process and can be opened (`OpenedRead`), and there the file does not parse exactly if git dies of it, or
passes over one of them (`LoadAsGit`). For
the root of a target it remains that without a root in a URL section git answers the last plain
root, although its rule is the longest match (`AnswerIsLast`), which is the primary root (`PrimaryIs`). That a process
that ends has loaded its snapshot is a small invariant of its own (`NoneEndsBefore`).

`RemotesLeadBack` is about `url.rs` alone: the https or the ssh remote that `build_repo` writes for a repository is read
by `from_input` as that repository, with the same remotes and the same path. The repository
is any that is `WellSpelt`: a host without separators and in lower case, an owner of any number
of components, a name of one component that does not end in `.git`, none of them `..`. The proof takes the text
apart at its first `:`, its first `/` after the scheme, its last `@` before it and its last `/`
(`FirstAt`, `LastAt`), and shows that each separates what it was put between (`UrlReads`).
`RemotesAreStable` takes it to `Config`: whatever the spelling of a target, the configuration, the
threads and the failures, the remote a target was resolved with, given to scap again, leads to the
directory the target was put in, below its root. `PlacedInv` says that each target and each
decision is what `from_input` read in its input. This is what `OnePlacePerRepository` says
second, for every well-spelt repository instead of those of the instance.

`PoolProofs`, about `Pool`:

| Theorem | Statement | Assumes |
|---|---|---|
| `Invariance` | `Spec => []IInv` | |
| `TypeCorrect` | `Spec => []TypeOK` | |
| `NeverEarly` | `Spec => []NoEarlyExit` | |
| `FdBounded` | `Spec => []FdSoftBound` | |
| `NoneLeftParked` | `Spec => []DescriptorsGivenBack` | |
| `WalkIsComplete` | `Spec => []CompleteOrFlagged` | |
| `PoolWalks` | `Spec => WalkSpec` | `Panics = {}` |

`IInv` (`PoolInv`) says what each counter counts: `in_flight` the directories that are
queued, counted by a worker that is about to push them, or in a worker's hands; `sleepers` the workers
between announcing and withdrawing their sleep; `live_fds` the parked descriptors. That
`in_flight` is zero then means that nobody has anything to add, which is what
`NoEarlyExit` needs and cannot say of itself. The counters are integers there, and that they
never go below zero is a consequence of what they count. A panic takes a directory out of a worker's hands,
so `PoolWalks` excludes it; the other theorems do not.

`IndexProofs`, about `Index`:

| Theorem | Statement | Assumes |
|---|---|---|
| `TypeCorrect` | `Spec => []TypeOK` | |
| `FilesDecode` | `Spec => []WrittenDecodes` | |
| `QuietIsRight` | `Spec => []QuietRunIsRight` | `Premises` |
| `DifferencesExplained` | `Spec => []DifferencesAreWarnedOf` | `Premises` |
| `StaleIsSeen` | `Spec => []NothingStaleIsBelieved` | `Premises` |

`Premises` is `MaxWalk < Window /\ ~SwapMidRun`: a run takes less than the racy window,
and nobody replaces the root while one is walking it. Neither can be spared: TLC finds the change
that is missed with `MaxWalk = 2`, and `IndexRestore` the one without the second. What the
cache lives by is a fact about time (`EditSpares`). A change below the root moves
the mtime of a directory to the present, and what a walk would find in `d` depends on `d` and the directories above
it only: so as long as none of these has an mtime of `s` or later (`Untouched`),
nothing about `d` has changed since `s`. The invariant `TrueInv` uses it
three times. An index, on disk or loaded, is `Believable`: for every entry
whose chain is older than its racy window, what it says of the directory is true of the tree now. A
run in its probes has the present mtime of each directory it probed, and one in its walk what is
in each directory it read, unless the chain was touched since the run began (`ProbeTrue`,
`WalkTrue`), which is why what it writes is believable again: `start` is less
than a window before `written`. `NothingStaleIsBelieved` alone is not inductive, since
it does not speak of what runs have loaded or read.

`RepoOutcomeProofs`, about `RepoLife`:

| Theorem | Statement | Assumes |
|---|---|---|
| `OkIsThere` | `LifeSpec => []OkMeansThere` | `DistinctTargets` |

`OkInv` of `GetOutcomeProofs` does not hold beside rm. What takes its place is said of destinations that are *calm*:
where no command has set to work but creates that are writing or have ended well. On
a calm destination a repository, once begun, stays one (`CalmStep`): get
renames nothing over it, and whoever writes it has it open at its place. A worker of get then carries
`Assured` (calm, hence begun) from its check to its exit, as `OkInv` carried whole
destinations; a destination that is not calm never becomes so again.

`ListingProofs`, about `Listing` and `Walker`:

| Theorem | Statement |
|---|---|
| `EveryRootIsListed` | `ListSpec => []FindsWhatIsThere` |
| `OneName` | `ListSpec => []OneNameEach` |
| `LinesFindTheirOwn` | `ListSpec => []LinesLeadBack` |

They hold for any finite trees and any roots that `WorldsAssumption` allows: every
path has its parent in the tree, and a root is a path that is not empty and does not end in a
separator unless it is `/`. The code sees to the second: `resolve_roots` gives
canonical or cleaned paths (config.rs:722-728, 896-908), and `cmd/list.rs` walks these. A
walk is a frontier (`Sighted`): the repositories found and the
directories still to be read, no one of the latter below another or above a finding; whatever is there and was
not found is hidden, or below the frontier, or the listing is marked incomplete.
`FindsWhatIsThere` is what this says when nothing is left to read. The findings are
kept as texts in an arena whose ranges a merge shifts, so that each step also shows
that the arena still spells the same texts, each once (`Lists`); `emit` folds over a finite set, which is shown without
induction by looking at a smallest set for which it fails.
`OneNameEach` follows from the first root that contains a path being a function of the path
alone. `LinesLeadBack` needs that a printed name is a tail of the path which the query, split at the same
separators, matches again, and that the shortest tail `--unique` takes is counted once.

Only model-checked, on the instances above:

* liveness (`EveryRunEnds`, `EveryWorkerEnds`), which is out of the prover's reach;
* `OnePlacePerRepository` of `Config`, but for what `RemotesAreStable` proves of it. It depends on
  `Named`, the constant that says which repository a spelling means: it is a statement about the
  spellings of the instance, and false of some others. `owner/name.git.git` loses one `.git` and is kept in
  `owner/name.git`, and the remote built for it, given to `scap get` again, loses another and
  leads to `owner/name`, which is why `WellSpelt` excludes such names.

## Divergences from what the repository says

* `GetThricePartial`: the lock file is unlinked by name after the unlock
  (get.rs:194-195), so the per-target lock of README.md:51 and CHANGELOG.md:77
  does not exclude a process that opened the file before from one that creates
  it anew. The destination stays safe all the same (theorems above), but for workers of
  one `-P` run, which share the pid in the temporary directory's name: given one target
  three times, one worker's cleanup may delete what another publishes.
* `PoolSearchOnly`: mod.rs:67-75 says both detection strategies list the same
  repositories; past the descriptor budget open-and-scan loses one of mode 0111.
* `IndexRestore`: `build` takes the root's identity by path at the end of the
  walk, so a root replaced meanwhile is stored under the new identity with the
  old entries (index.rs:643 against index.rs:412-415).

## Plan

1. (done) `AtomicClone`, `GetClone`, `GetCloneProofs`: the core promise.
2. (done) `TreeWalk`, `Pool`: the walk's scheduler, with its abstract walk.
3. (done) `Index`: the cache's validation, with concurrent runs and a changing tree.
4. (done) Proofs about `Pool`: `NoEarlyExit` from what the counters count, then
   `WalkSpec` without panics.
5. (done) `RepoLife`: rm and create beside get, without a lock; `RepoLifeProofs`.
6. (done) `Url`, `Sources`, `Config`: targets, roots and the urlmatch memo; `ConfigProofs`.
7. (done) `Walker`, `Listing`: the entry rules and what is printed.
8. (done) `GetOutcomeProofs`: what exit 0, exit 75 and the directories left behind say.
9. (done) `IndexProofs`: `NothingStaleIsBelieved` and what is printed, for `MaxWalk < Window`.
10. (done) `RepoOutcomeProofs`: `OkMeansThere` for any number of commands.
11. (done) `ListingProofs`: the entry rules and the names, for any tree.
12. (done) `RootsAreListed`: `ListedRoot` for any files, environment and remote.
13. (done) `ReadsAsGit`: `AsGitReads`, likewise.
14. (done) `RemotesAreStable`: the remote of a target leads back to its place.
15. `decode` of the index file: that it accepts exactly the trees `build` writes.

## Not modelled

* Argument declarations, logging, build scripts and benches: no state of the program.
* The argument list from standard input, and git's own argument lists.
* `decode`'s structural checks on the bytes of an index file (planned).
* The matching of exclusion patterns (gix-glob), percent-decoding of URLs,
  `include.path`, `~` and `%(prefix)` in configured paths, git's integer syntax.
* The pid of a dead run handed out again between a sweep's test and its delete.
