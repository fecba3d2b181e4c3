-------------------------------- MODULE Url --------------------------------
(***************************************************************************)
(* From what the user types to a repository, its two remotes and the path  *)
(* of its clone: src/url.rs and src/path.rs.                               *)
(*                                                                         *)
(* A text is a sequence of tokens: the separators "/", ":", "@" and "\\",  *)
(* the suffix ".git", the component "..", and words, which hold none of    *)
(* these.  What the code asks of a word's letters is a constant.           *)
(***************************************************************************)
EXTENDS Integers, Sequences, SequencesExt

CONSTANTS
  DottedWords,    \* words with a dot inside, such as a host name
  RegionWords,    \* words that match [a-z][a-z0-9-]+
  CapitalWords,   \* words with a capital letter in them
  LowerWord       \* LowerWord[w]: a capital word in ASCII lower case

None == "none"

Punctuation == {"@", "\\"}   \* no letter, digit, '+', '-' or '.'

Before(s, i) == SubSeq(s, 1, i - 1)
After(s, i) == SubSeq(s, i + 1, Len(s))
Find(s, t) == SelectInSeq(s, LAMBDA x : x = t)
RFind(s, t) == SelectLastInSeq(s, LAMBDA x : x = t)
Has(s, t) == Find(s, t) # 0

\* What stands before the first t.
UpTo(s, t) == Before(s, IF Has(s, t) THEN Find(s, t) ELSE Len(s) + 1)

\* What s has at the positions S, in their order.
Picks(s, S) == [k \in 1..Cardinality(S) |-> s[CHOOSE i \in S : Cardinality({j \in S : j <= i}) = k]]

\* s without its empty components.
Squeeze(s) ==
  Picks(s, {i \in DOMAIN s : \/ s[i] # "/"
                             \/ /\ i > 1 /\ s[i - 1] # "/"
                                /\ \E j \in (i + 1)..Len(s) : s[j] # "/"})

TrimStart(s) == LET i == SelectInSeq(s, LAMBDA x : x # "/")
                IN  IF i = 0 THEN <<>> ELSE SubSeq(s, i, Len(s))
TrimSlashes(s) ==
  LET inner == {i \in DOMAIN s : s[i] # "/"}
  IN  IF inner = {} THEN <<>> ELSE SubSeq(s, Min(inner), Max(inner))

StripGit(s) == IF s # <<>> /\ Last(s) = ".git" THEN Front(s) ELSE s

Lower(s) == [i \in DOMAIN s |-> IF s[i] \in CapitalWords THEN LowerWord[s[i]] ELSE s[i]]

\* Mutant of trim_repo_path: the suffix stays.
KeepsGit(p) == TrimSlashes(p)

trim_repo_path(p) == TrimSlashes(StripGit(TrimSlashes(p)))

\* A whole component between slashes or backslashes is "..".
has_traversal(input) ==
  \E i \in DOMAIN input : /\ input[i] = ".."
                          /\ i > 1 => input[i - 1] \in {"/", "\\"}
                          /\ i < Len(input) => input[i + 1] \in {"/", "\\"}

has_scheme(s) ==
  LET c == Find(s, ":")
  IN  /\ c # 0
      /\ \A i \in 1..(c - 1) : s[i] \notin Punctuation \cup {"/"}
      /\ IsPrefix(<< "/", "/" >>, After(s, c))

\* user@host:path, with the user's "@" kept.
is_scp_like(s) ==
  LET left == UpTo(s, ":")
  IN  left # <<>> /\ Len(left) + 1 < Len(s) /\ ~Has(left, "/") /\ Last(left) # "@"

parse_scp_like(s) ==
  LET left == UpTo(s, ":")
      at == RFind(left, "@")
  IN  [user |-> SubSeq(left, 1, at), host |-> After(left, at), path |-> After(s, Len(left) + 1)]

scp_url(scp) == << "ssh", ":", "/", "/" >> \o scp.user \o scp.host \o << "/" >> \o TrimStart(scp.path)

looks_like_authority(s) ==
  LET host == UpTo(s, ":")
  IN  /\ \E i \in DOMAIN host : host[i] \in DottedWords \cup {".git", ".."}
      /\ host[1] \notin {".git", ".."}
      /\ \A i \in DOMAIN host : host[i] \notin Punctuation

\* The text handed to the URL parser; a bare name, which has no parser to go to, is <<>>.
normalize_to_parseable(input) ==
  IF has_scheme(input) THEN input
  ELSE IF is_scp_like(input) THEN scp_url(parse_scp_like(input))
  ELSE IF looks_like_authority(UpTo(input, "/")) /\ Has(input, "/")
    THEN << "https", ":", "/", "/" >> \o input
  ELSE <<>>

\* External: scheme://[user@]host[:port]/path.  The port is parsed and not kept by Repo.
gix_parse(s) ==
  LET c == Find(s, ":")
      rest == After(s, c + 2)
      slash == Find(rest, "/")
      authority == UpTo(rest, "/")
      at == RFind(authority, "@")
  IN  [scheme |-> s[1], user |-> Before(authority, at),
       host |-> UpTo(After(authority, at), ":"),
       path |-> IF slash = 0 THEN <<>> ELSE After(rest, slash - 1)]

-----------------------------------------------------------------------------
Repo(host, owner, name, https, ssh, original) ==
  [err |-> None, host |-> host, owner |-> owner, name |-> name,
   https_url |-> https, ssh_url |-> ssh, original |-> original]

UrlError(e) == [Repo(<<>>, <<>>, <<>>, <<>>, <<>>, <<>>) EXCEPT !.err = e]

Remote(scheme, authority, owner, name) ==
  scheme \o << ":", "/", "/" >> \o authority \o << "/" >> \o owner \o << "/" >> \o name

build_repo(original, user, host, owner, name) ==
  Repo(host, owner, name, Remote(<< "https" >>, host, owner, name),
       Remote(<< "ssh" >>, user \o << "@" >> \o host, owner, name), original)

from_bare(original, user, completeUser) ==
  LET path == Squeeze(StripGit(TrimSlashes(original)))
      first == UpTo(path, "/")
      rest == After(path, Len(first) + 1)
      github(owner, name) == build_repo(original, << "git" >>, << "github.com" >>, owner, name)
  IN  IF path = <<>> THEN UrlError("Empty")
      ELSE IF rest = <<>> /\ completeUser /\ user = None THEN UrlError("UnknownUser")
      ELSE IF rest = <<>> THEN github(IF completeUser THEN << user >> ELSE first, first)
      ELSE IF Has(rest, "/") THEN UrlError("Malformed")
      ELSE github(first, rest)

\* codecommit:[:region:]//[user@]name, as [ok, region, user, name].
parse_codecommit(s) ==
  LET explicit == Len(s) > 4 /\ s[3] = ":"
      rest == After(s, IF explicit THEN 5 ELSE 2)
      body == After(rest, 2)
      at == RFind(body, "@")
      name == After(body, at)
  IN  [ok |-> /\ IsPrefix(<< "codecommit", ":" >>, s)
              /\ explicit => s[4] \in RegionWords /\ s[5] = ":"
              /\ IsPrefix(<< "/", "/" >>, rest)
              /\ at # 1
              /\ name # <<>>
              /\ \A i \in DOMAIN name : name[i] \notin {"/", ":", "@", "\\"},
       region |-> IF explicit THEN s[4] ELSE None,
       user |-> Before(body, at), name |-> name]

is_codecommit_input(s) == parse_codecommit(s).ok

\* aws: AWS_REGION, AWS_DEFAULT_REGION and what `aws configure get region` prints, "" if nothing.
resolve_codecommit_region(aws) ==
  LET i == SelectInSeq(aws, LAMBDA r : r # "") IN IF i = 0 THEN None ELSE aws[i]

finalize_codecommit(original, cc, aws) ==
  LET host == IF cc.region # None THEN cc.region ELSE resolve_codecommit_region(aws)
      url == << "codecommit", ":", "/", "/" >>
             \o (IF cc.user = <<>> THEN <<>> ELSE Append(cc.user, "@")) \o << host, "/" >> \o cc.name
  IN  IF host = None THEN UrlError("MissingCodecommitRegion")
      ELSE Repo(<< host >>, <<>>, cc.name, url, url, original)

\* The last component of the path is the name, the rest the owner.
from_path(original, url, path) ==
  LET slash == RFind(path, "/")
  IN  IF path = <<>> THEN UrlError("MissingPath")
      ELSE IF slash = 0 THEN UrlError("Malformed")
      ELSE build_repo(original, IF url.user = <<>> THEN << "git" >> ELSE url.user,
                      Lower(url.host), Before(path, slash), After(path, slash))

from_url(original, url) ==
  IF url.host = <<>> /\ url.scheme # "file" THEN UrlError("MissingHost")
  ELSE from_path(original, url, trim_repo_path(url.path))

from_input(input, user, completeUser, aws) ==
  IF input = <<>> THEN UrlError("Empty")
  ELSE IF has_traversal(input) THEN UrlError("PathTraversal")
  ELSE IF is_codecommit_input(input) THEN finalize_codecommit(input, parse_codecommit(input), aws)
  ELSE IF normalize_to_parseable(input) = <<>> THEN from_bare(input, user, completeUser)
  ELSE from_url(input, gix_parse(normalize_to_parseable(input)))

-----------------------------------------------------------------------------
\* <host>/<owner...>/<name>
rel_path(repo, bare) ==
  LET name == IF bare THEN Append(repo.name, ".git") ELSE repo.name
  IN  Squeeze(repo.host \o << "/" >> \o repo.owner \o << "/" >> \o name)

dest_path(root, repo, bare) == << root, rel_path(repo, bare) >>
=============================================================================
