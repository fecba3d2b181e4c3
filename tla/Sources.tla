------------------------------ MODULE Sources ------------------------------
(***************************************************************************)
(* Which gitconfig files a scap process reads, in which order, and what it *)
(* makes of them: src/config/sources.rs, src/config/git_backend.rs and the *)
(* loading half of src/config.rs.                                          *)
(*                                                                         *)
(* files maps each file that exists to its entries, in order.  An entry is *)
(* [key, sub, val]: sub is the URL of a [scap "<url>"] section, << >> for  *)
(* a plain key.  The key "onbranch" stands for an includeIf "onbranch:"    *)
(* around `root = val`, and "garbage" for a file no parser accepts.  A     *)
(* file that is one entry "denied" may not be opened (EACCES); one that is *)
(* an entry "nodir" is named below something that is no directory.         *)
(***************************************************************************)
EXTENDS Url

CONSTANTS
  SystemCandidates,   \* the system files probed, in order
  GitPrefix           \* the one of them the installed git was built to read

Vals(entries) == [i \in DOMAIN entries |-> entries[i].val]
Plain(entries, key) ==
  Vals(Picks(entries, {i \in DOMAIN entries : entries[i].key = key /\ entries[i].sub = <<>>}))
Scoped(entries, key) ==
  Vals(Picks(entries, {i \in DOMAIN entries : entries[i].key = key /\ entries[i].sub # <<>>}))
LastOr(s, default) == IF s = <<>> THEN default ELSE Last(s)

\* What the words of a boolean mean; "valueless" is a key without "=".
git_boolean(v) == v \in {"valueless", "yes", "on", "true", "nonzero"}

boolean_of(entries, key) == git_boolean(LastOr(Plain(entries, key), "false"))

\* git: strtoul of "" is 0; what it cannot parse it dies of.
git_config_count_applies(count) == count \in {"some", "bad"}

needs_git_backend(env, matches, unevaluated) ==
  \/ env.backend = "git"
  \/ git_config_count_applies(env.count)
  \/ env.parameters
  \/ matches > 1
  \/ unevaluated

resolve_git_program(env) == env.git

-----------------------------------------------------------------------------
\* The directories that hold a repository's `config`, and its `config.worktree`.
ConfigIn == [main |-> "main/config", linked |-> "linked/config"]
WorktreeIn == [main |-> "main/config.worktree", linked |-> "linked/config.worktree"]

discover_git_dir(env) == IF env.gitDir # None THEN env.gitDir ELSE env.cwdRepo

\* Mutant of common_dir_of: a linked worktree passes for a repository of its own.
PrivateDir(dir) == dir

\* A linked worktree's `commondir` file names the main repository's directory.
common_dir_of(dir) == "main"

worktree_config_enabled(files, local) ==
  local \in DOMAIN files /\ boolean_of(files[local], "worktreeconfig")

probe_system_config(files) ==
  Picks(SystemCandidates, {i \in DOMAIN SystemCandidates : SystemCandidates[i] \in DOMAIN files})

system_files(env, files) ==
  IF env.systemVar THEN << "GIT_CONFIG_SYSTEM" >>
  ELSE IF env.nosystem THEN <<>> ELSE probe_system_config(files)

\* One file under two spellings is read once.
global_files(env) ==
  IF env.globalVar THEN << "GIT_CONFIG_GLOBAL" >>
  ELSE IF ~env.home THEN <<>>
  ELSE IF env.oneGlobal THEN << "xdg" >> ELSE << "xdg", "home" >>

local_files(env, files) ==
  LET dir == discover_git_dir(env)
      local == ConfigIn[common_dir_of(dir)]
      worktree == WorktreeIn[dir]
  IN  IF dir = None THEN <<>>
      ELSE << local >> \o (IF worktree \in DOMAIN files /\ worktree_config_enabled(files, local)
                           THEN << worktree >> ELSE <<>>)

enumerate(env, files) ==
  [files |-> system_files(env, files) \o global_files(env) \o local_files(env, files),
   matches |-> IF env.systemVar \/ env.nosystem THEN 0 ELSE Len(probe_system_config(files))]

\* A file that is not there is skipped; one that cannot be opened leaves its entry.
Read(locations, files) ==
  FlattenSeq([i \in DOMAIN locations |->
                IF locations[i] \in DOMAIN files THEN files[locations[i]] ELSE <<>>])

parse(list, files) == Read(list.files, files)

Unparsable(entries) == \E i \in DOMAIN entries : entries[i].key \in {"garbage", "denied", "nodir"}
has_unevaluable_includeif(entries) == \E i \in DOMAIN entries : entries[i].key = "onbranch"

-----------------------------------------------------------------------------
\* One trailing "/" is folded away; nothing is left of a pattern that was only that.
normalize_exclude(pattern) ==
  IF pattern # <<>> /\ Last(pattern) = "/" THEN Front(pattern) ELSE pattern

effective_list_exclude(env, fromConfig) ==
  LET given == IF env.exclude = <<>> THEN fromConfig ELSE env.exclude
      patterns == [i \in DOMAIN given |-> normalize_exclude(given[i])]
  IN  Picks(patterns, {i \in DOMAIN patterns : patterns[i] # <<>>})

effective_list_cache(env, fromConfig) ==
  IF env.cache = "" THEN fromConfig ELSE git_boolean(env.cache)

NonEmpty(vals) == Picks(vals, {i \in DOMAIN vals : vals[i] # ""})

from_file(entries, env) ==
  [err |-> None,
   roots |-> NonEmpty(Plain(entries, "root")),
   url_scoped_roots |-> NonEmpty(Scoped(entries, "root")),
   user |-> LastOr(Plain(entries, "user"), None),
   complete_user |-> boolean_of(entries, "completeuser"),
   list_exclude |-> effective_list_exclude(env, Plain(entries, "listexclude")),
   list_cache |-> effective_list_cache(env, boolean_of(entries, "listcache"))]

\* The keys of a `git config --list`, read as from_file reads them.
from_listing(listing, env) == from_file(listing, env)

ConfigError(e) ==
  [err |-> e, roots |-> <<>>, url_scoped_roots |-> <<>>, user |-> None, complete_user |-> FALSE,
   list_exclude |-> <<>>, list_cache |-> FALSE]

-----------------------------------------------------------------------------
\* External: the repository git finds.  Its own search heeds ceilings written through a
\* symlink and passes by a repository of another owner.
git_repository(env) == IF env.gitDir # None THEN env.gitDir ELSE env.gitRepo

\* External: the files git itself reads, those it opens of them, the entries it sees, and
\* whether it dies of them.
GitFiles(env, files) ==
  LET dir == git_repository(env)
  IN  (IF env.nosystem THEN <<>>
       ELSE IF env.systemVar THEN << "GIT_CONFIG_SYSTEM" >> ELSE << GitPrefix >>)
      \o (IF env.globalVar THEN << "GIT_CONFIG_GLOBAL" >>
          ELSE IF env.home THEN << "xdg", "home" >> ELSE <<>>)
      \o (IF dir = None THEN <<>> ELSE << "main/config" >>)
      \o (IF dir # None /\ worktree_config_enabled(files, "main/config")
          THEN << WorktreeIn[dir] >> ELSE <<>>)

\* git passes over a file below no directory, and over a user's file it may not open.
PassedOver(l, files) ==
  \E i \in DOMAIN files[l] :
    \/ files[l][i].key = "nodir"
    \/ files[l][i].key = "denied" /\ l \in {"GIT_CONFIG_GLOBAL", "xdg", "home"}

Opened(files) == [l \in {k \in DOMAIN files : ~PassedOver(k, files)} |-> files[l]]

GitListing(env, files) ==
  LET read == Read(GitFiles(env, files), Opened(files))
      included == [i \in DOMAIN read |-> IF read[i].key = "onbranch" /\ env.onBranch
                                         THEN [read[i] EXCEPT !.key = "root"] ELSE read[i]]
  IN  included \o (IF env.count = "some" \/ env.parameters THEN env.extra ELSE <<>>)

GitDies(env, files) == env.count = "bad" \/ Unparsable(GitListing(env, files))

\* git_backend::load
load_git(env, files) ==
  IF ~resolve_git_program(env) THEN ConfigError("GitRequired")
  ELSE IF GitDies(env, files) THEN ConfigError("GitConfigFailed")
  ELSE from_listing(GitListing(env, files), env)

load(env, files) ==
  LET list == enumerate(env, files)
      file == parse(list, files)
  IN  IF needs_git_backend(env, 0, FALSE) THEN load_git(env, files)
      ELSE IF needs_git_backend(env, list.matches, FALSE) THEN load_git(env, files)
      ELSE IF Unparsable(file) THEN ConfigError("Parse")
      ELSE IF needs_git_backend(env, list.matches, has_unevaluable_includeif(file))
        THEN load_git(env, files)
      ELSE from_file(file, env)
=============================================================================
