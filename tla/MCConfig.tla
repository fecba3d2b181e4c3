------------------------------ MODULE MCConfig ------------------------------
(***************************************************************************)
(* Instances of Config.  In every file each root is its own, so that a     *)
(* file read too much, too little or out of order shows.                   *)
(***************************************************************************)
EXTENDS Config

MCDotted == {"github.com", "gitlab.com", "GitHub.com"}
MCRegions == {"eu-west", "me", "tool"}
MCCapital == {"GitHub.com"}
MCLower == [w \in MCCapital |-> "github.com"]
MCCandidates == << "etc", "opt" >>

RootNames == {"etc", "opt", "sysvar", "xdg", "home", "link", "globalvar", "local", "private", "worktree",
              "extra", "env", "env/.", "work", "org", "home/scap", ""}
MCCleaned == [r \in RootNames |-> IF r = "env/." THEN "env" ELSE r]
MCPhysical == [r \in RootNames |-> IF r = "link" THEN "home" ELSE r]

E(key, val) == [key |-> key, sub |-> <<>>, val |-> val]
Root(r) == E("root", r)
Section(sub, r) == [key |-> "root", sub |-> sub, val |-> r]

U(scheme) == << scheme, ":", "/", "/" >>
GitHub == U("https") \o << "github.com" >>
SectionMe == Section(GitHub \o << "/", "me" >>, "work")
SectionSsh == Section(U("ssh") \o << "github.com" >>, "org")

\* The repository me/tool on github.com, in the ways a user may write it.
Tool == [host |-> << "github.com" >>, owner |-> << "me" >>, name |-> << "tool" >>]
ToolSpellings ==
  << GitHub \o << "/", "me", "/", "tool" >>,
     GitHub \o << "/", "me", "/", "tool", ".git" >>,
     GitHub \o << "/", "me", "/", "tool", "/" >>,
     U("https") \o << "GitHub.com", "/", "me", "/", "tool" >>,
     GitHub \o << ":", "443", "/", "me", "/", "tool" >>,
     U("ssh") \o << "git", "@", "github.com", "/", "me", "/", "tool", ".git" >>,
     << "git", "@", "github.com", ":", "me", "/", "tool", ".git" >>,
     << "git", "@", "github.com", ":", "/", "me", "/", "tool" >>,
     << "github.com", ":", "me", "/", "tool" >>,
     << "github.com", "/", "me", "/", "tool" >>,
     << "me", "/", "tool" >>,
     << "tool", ".git", "/" >> >>

\* Others: a subgroup, CodeCommit with and without a region, a local path.
Sub == [host |-> << "gitlab.com" >>, owner |-> << "me", "/", "sub" >>, name |-> << "tool" >>]
SubSpellings == << << "git", "@", "gitlab.com", ":", "me", "/", "sub", "/", "tool", ".git" >>,
                   << "gitlab.com", "/", "me", "/", "sub", "/", "tool" >> >>
Aws == [host |-> << "eu-west" >>, owner |-> <<>>, name |-> << "tool" >>]
AwsSpellings == << << "codecommit", ":", ":", "eu-west", ":", "/", "/", "me", "@", "tool" >>,
                   << "codecommit", ":", "/", "/", "tool" >> >>
Local == [host |-> <<>>, owner |-> << "srv" >>, name |-> << "tool" >>]
LocalSpellings == << U("file") \o << "/", "srv", "/", "tool" >> >>

\* Inputs that name nothing.
Refused == << <<>>, << "..", "/", "tool" >>, << "me", "/", "sub", "/", "tool" >>,
              GitHub \o << "/", "tool" >>, GitHub, U("https") \o << "/", "me", "/", "tool" >> >>

Spelled == {<< ToolSpellings, Tool >>, << SubSpellings, Sub >>, << AwsSpellings, Aws >>, << LocalSpellings, Local >>}
MCNamed == [i \in UNION {ToSet(p[1]) : p \in Spelled} |-> LET p == CHOOSE q \in Spelled : i \in ToSet(q[1]) IN p[2]]

-----------------------------------------------------------------------------
BaseEnv ==
  [scapRoot |-> <<>>, home |-> TRUE, backend |-> "", count |-> "unset", parameters |-> FALSE,
   extra |-> << Root("extra") >>, nosystem |-> FALSE, systemVar |-> FALSE, globalVar |-> FALSE,
   oneGlobal |-> FALSE, gitDir |-> None, cwdRepo |-> None, gitRepo |-> None, onBranch |-> FALSE, git |-> TRUE,
   exclude |-> <<>>, cache |-> "", aws |-> << "", "eu-west", "" >>]

AtHome == [BaseEnv EXCEPT !.nosystem = TRUE]

Get == [cmd |-> "get", ssh |-> FALSE, parallel |-> FALSE, look |-> FALSE, bare |-> FALSE, targets |-> << ToolSpellings[1] >>]

\* One target, in every environment and with every arrangement of the files.
Envs ==
  {[BaseEnv EXCEPT !.scapRoot = r, !.home = r # <<>> \/ t # "zero", !.git = g, !.gitDir = d[1], !.cwdRepo = d[2], !.gitRepo = d[3],
                   !.nosystem = s \in {"none", "both"}, !.systemVar = s \in {"var", "both"}, !.globalVar = l = "var", !.oneGlobal = l = "one",
                   !.backend = IF t = "git" THEN "git" ELSE "", !.parameters = t = "parameters",
                   !.count = IF t \in {"zero", "some", "bad"} THEN t ELSE "unset", !.onBranch = TRUE] :
     r \in {<<>>, << "env/.", "etc" >>}, g \in BOOLEAN,
     d \in {<< None, None, None >>, << None, "main", "main" >>, << None, "linked", "linked" >>,
            << None, "linked", None >>, << None, None, "main" >>, << "main", "linked", "linked" >>},
     s \in {"none", "var", "both", "probe"}, l \in {"var", "one", "two"},
     t \in {"", "git", "parameters", "zero", "some", "bad"}}

Everywhere ==
  [l \in {"etc", "GIT_CONFIG_SYSTEM", "GIT_CONFIG_GLOBAL", "xdg", "home", "main/config", "linked/config",
          "main/config.worktree", "linked/config.worktree"} |->
     CASE l = "etc" -> << Root("etc"), E("user", "other"), E("listcache", "nonzero") >>
       [] l = "GIT_CONFIG_SYSTEM" -> << Root("sysvar") >>
       [] l = "GIT_CONFIG_GLOBAL" -> << Root("globalvar"), E("listexclude", << "cache", "/" >>) >>
       [] l = "xdg" -> << Root("home"), Root("link"), E("user", "me"), E("completeuser", "valueless"), E("listexclude", << "tmp" >>) >>
       [] l = "home" -> << Root("home"), Root("link"), E("user", "me"), E("completeuser", "valueless"), E("listexclude", << "tmp" >>) >>
       [] l = "main/config" -> << Root("local"), E("completeuser", "off") >>
       [] l = "linked/config" -> << Root("private") >>
       [] OTHER -> << Root("worktree") >>]

Denied == << E("denied", "") >>

Arrangements ==
  {Everywhere,
   ("opt" :> << Root("opt") >>) @@ Everywhere,
   [l \in {"opt", "xdg", "home"} |-> Everywhere["etc"]],
   ("main/config" :> << E("worktreeconfig", "true"), Root("") >>) @@ Everywhere,
   ("home" :> << E("onbranch", "work"), SectionMe >>) @@ ("xdg" :> << E("onbranch", "work"), SectionMe >>) @@ Everywhere,
   ("GIT_CONFIG_GLOBAL" :> << SectionMe >>) @@ Everywhere,
   ("GIT_CONFIG_GLOBAL" :> << SectionMe >>) @@ ("main/config" :> << [SectionMe EXCEPT !.val = "local"] >>) @@ Everywhere,
   ("home" :> << Root("home"), E("garbage", "") >>) @@ ("xdg" :> << Root("home"), E("garbage", "") >>) @@ Everywhere,
   ("home" :> Denied) @@ ("xdg" :> Denied) @@ Everywhere,
   ("main/config" :> Denied) @@ ("GIT_CONFIG_GLOBAL" :> << E("nodir", "") >>) @@ Everywhere,
   [l \in {"etc", "GIT_CONFIG_SYSTEM"} |-> IF l = "etc" THEN Denied ELSE << E("nodir", "") >>],
   <<>>}

\* Spellings, commands, flags and failures: several targets, in a few environments.
UserFiles == {"home" :> << Root("home"), E("user", "me"), E("completeuser", "yes") >>,
              "home" :> << Root("home"), E("user", "me"), E("completeuser", "on"), SectionMe, SectionSsh >>}

AllSpelled == ToolSpellings \o SubSpellings \o AwsSpellings \o LocalSpellings

Lists ==
  {[Get EXCEPT !.targets = AllSpelled, !.ssh = p, !.bare = b] : p \in BOOLEAN, b \in BOOLEAN}
  \cup {[Get EXCEPT !.parallel = TRUE, !.look = l, !.targets = t] : l \in BOOLEAN,
          t \in {<< ToolSpellings[1], ToolSpellings[11], SubSpellings[2], ToolSpellings[1] >>}}
  \cup {[Get EXCEPT !.parallel = TRUE, !.targets = << AwsSpellings[1], ToolSpellings[12] >> \o Refused]}
  \cup {[Get EXCEPT !.look = TRUE, !.targets = << ToolSpellings[1], SubSpellings[1] >>]}
  \cup {[Get EXCEPT !.cmd = "rm", !.targets = << i >>] : i \in {ToolSpellings[2], LocalSpellings[1]}}

MCStarts ==
  [env : Envs, files : Arrangements, req : {Get}]
  \cup [env : {AtHome, [AtHome EXCEPT !.aws = << "", "", "" >>]}, files : UserFiles, req : Lists]

MCEditedIn == {AtHome}

MCContents == {<< Root("etc") >>, << Root("home"), Section(GitHub, "org"), SectionMe >>, << E("garbage", "") >>, Denied}
=============================================================================
