----------------------------- MODULE MCListing -----------------------------
(***************************************************************************)
(* Instances of Listing: one root with every kind of directory in it, and  *)
(* several roots with every kind of command line.                          *)
(***************************************************************************)
EXTENDS Listing

MCDotted == {"github.com"}
MCCapital == {"Tool"}
MCLower == [w \in MCCapital |-> "tool"]

Dir(git) == [kind |-> "dir", typed |-> TRUE, read |-> "me", search |-> TRUE, git |-> git, target |-> <<>>]
Plain == Dir("none")
Repository == Dir("typed")
File == [Plain EXCEPT !.kind = "other"]
Link(target) == [Plain EXCEPT !.kind = "link", !.target = target]

\* The text of a list of names.
P(names) == FoldLeft(LAMBDA path, n : path \o << "/" >> \o n, <<>>, names)
R == << "r" >>
A == << "a" >>
B == << "b" >>

ListAll == [unique |-> FALSE, full_path |-> FALSE, exact |-> FALSE, query |-> <<>>]

\* r/a/b/c, and r/l, a link to one of them; r/a and r/a/b of every kind.
ModeOf(n, m) == [n EXCEPT !.read = IF m \in {"rx", "r"} THEN "me" ELSE "no", !.search = m \in {"rx", "x"}]
Modes == {"rx", "r", "x", ""}
L == << "l" >>
Git(name) == Append(name, ".git")
Gone == << "gone" >>

Ways == [typed : BOOLEAN, a : {A}, am : Modes, ag : {"none", "typed", "link", "untyped", "dangling"},
         b : {B}, bm : Modes, bg : {"none", "typed", "link"}, l : {L}, to : {B, A, Gone}]
        \cup [typed : {TRUE}, a : {A, Git(A)}, am : {"rx", "x"}, ag : {"none"},
              b : {B}, bm : Modes, bg : {"none", "typed"}, l : {L, Git(L)}, to : {B, A, Gone}]
        \cup [typed : {TRUE}, a : {A}, am : Modes, ag : {"link", "untyped"},
              b : {Git(B)}, bm : {"rx"}, bg : {"none"}, l : {L, Git(L)}, to : {A}]

TreeOf(y) ==
  LET at(n) == [n EXCEPT !.typed = y.typed]
      b == P(<< R, y.a, y.b >>)
  IN  (<< "/" >> :> Plain)
   @@ (P(<< R >>) :> Plain)
   @@ (P(<< R, y.a >>) :> ModeOf(at(Dir(y.ag)), y.am))
   @@ (b :> ModeOf(at(Dir(y.bg)), y.bm))
   @@ (b \o << "/", "c" >> :> Repository)
   @@ (P(<< R, y.a, << "f" >> >>) :> at(File))
   @@ (P(<< R, y.l >>) :> at(Link(CASE y.to = B -> b [] y.to = A -> P(<< R, y.a >>) [] OTHER -> P(<< R, Gone >>))))

Kinds ==
  [tree : {TreeOf(y) : y \in Ways}, roots : {<< P(<< R >>) >>}, args : {ListAll},
   opts : [detect : {"StatFirst", "OpenScan"}, tight : BOOLEAN, exclude : {{}, {A}, {A \o << "/" >> \o B}}]]

\* Two places for one repository name, one root inside another, a root that is the beginning of
\* another's name, a root that is a repository, and roots that are none.
One == P(<< << "one" >> >>)
OneTwo == P(<< << "one", "two" >> >>)
Inner == P(<< << "one" >>, << "in" >> >>)
Bare == P(<< << "one" >>, << "x", ".git" >> >>)
Vault == P(<< << "vault" >> >>)
Host == << "github.com" >>
Me == << "me" >>

Places ==
  (<< "/" >> :> Plain)
  @@ [p \in {One, OneTwo, Inner, P(<< << "one" >>, Host >>), P(<< << "one" >>, Host, Me >>),
             P(<< << "one", "two" >>, Host >>), P(<< << "one", "two" >>, Host, Me >>),
             P(<< << "one" >>, << "in" >>, Host >>)} |-> Plain]
  @@ [p \in {P(<< << "one" >>, Host, Me, << "Tool" >> >>), P(<< << "one", "two" >>, Host, Me, << "Tool" >> >>),
             P(<< << "one", "two" >>, << "Tool" >> >>), P(<< << "one" >>, << "in" >>, Host, << "tool" >> >>), Bare} |-> Repository]
  @@ (P(<< << "file" >> >>) :> File)
  @@ (Vault :> [Plain EXCEPT !.search = FALSE])
  @@ (Vault \o << "/", "in" >> :> Repository)
  @@ (P(<< << "closed" >> >>) :> [Repository EXCEPT !.read = "no"])
  @@ (P(<< << "others" >> >>) :> [Repository EXCEPT !.read = "other"])

Orders == {<< One, OneTwo, Inner >>, << Inner, OneTwo, One >>, << OneTwo, One, Inner >>, << Bare, One, Inner >>,
           << Inner >>, << << "/" >>, OneTwo >>, << P(<< << "gone" >> >>), P(<< << "file" >> >>), One >>,
           << Vault \o << "/", "in" >>, Inner >>,
           << P(<< << "closed" >> >>), P(<< << "others" >> >>), Inner >>}

Queries == {<<>>, << "Tool" >>, << "tool" >>, Host \o << "/", "me", "/", "Tool" >>, << "me", "/", "tool" >>}

Commands == [unique : BOOLEAN, full_path : {FALSE}, exact : BOOLEAN, query : Queries]
            \cup {[ListAll EXCEPT !.full_path = TRUE]}

Several ==
  [tree : {Places}, roots : Orders, args : Commands, opts : {[detect |-> "StatFirst", tight |-> FALSE, exclude |-> {}]}]

MCWorlds == Kinds \cup Several
=============================================================================
