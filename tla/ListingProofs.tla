--------------------------- MODULE ListingProofs ---------------------------
(***************************************************************************)
(* Proofs about Listing, for any finite trees, roots, exclusions, command  *)
(* lines and either detection strategy: what is found, what it is called   *)
(* and what the lines printed stand for.                                   *)
(*                                                                         *)
(* A walk is a frontier: the repositories found so far and the directories *)
(* still to be read, of which none lies below another or above a finding.  *)
(* Whatever is below the root is found, hidden, or below the frontier, or  *)
(* the listing says that it is short (Sighted).  Every step of a walk      *)
(* keeps that (ReadARepository, ReadADirectory, NothingIsLost), and when   *)
(* nothing is left to read it is what FindsWhatIsThere says.               *)
(***************************************************************************)
EXTENDS Listing, FiniteSetTheorems, SequenceTheorems, WellFoundedInduction, TLAPS

-----------------------------------------------------------------------------
(* Numbers, and texts token by token.                                      *)

\* The provers do not know that a literal is a STRING.
Token == STRING \cup {"/", "."}
Text == Seq(Token)

LEMMA LeastNumber ==
  ASSUME NEW S \in SUBSET Nat, S # {}
  PROVE  /\ Min(S) \in S
         /\ \A y \in S : Min(S) <= y
<1> DEFINE R == {ss \in Nat \X Nat : ss[1] < ss[2]}
<1>1. IsWellFoundedOn(R, Nat)
  BY NatLessThanWellFounded DEF OpToRel
<1> HIDE DEF R
<1>2. PICK x \in S : \A y \in S : ~(<< y, x >> \in R)
  BY <1>1, WFMin
<1>3. ASSUME NEW y \in S PROVE x <= y
  <2>1. << y, x >> \in Nat \X Nat /\ (y < x => << y, x >> \in R)
    BY DEF R
  <2> QED BY <1>2, <2>1
<1> QED BY <1>3 DEF Min

LEMMA GreatestNumber ==
  ASSUME NEW n \in Nat, NEW S \in SUBSET (1..n), S # {}
  PROVE  /\ Max(S) \in S
         /\ \A y \in S : y <= Max(S)
<1> DEFINE D == {n - y : y \in S}
<1>1. D \in SUBSET Nat /\ D # {}
  <2>1. \A y \in S : n - y \in Nat
    OBVIOUS
  <2>2. \A d \in D : d \in Nat
    BY <2>1
  <2> QED BY <2>2
<1> HIDE DEF D
<1>2. Min(D) \in D /\ \A y \in D : Min(D) <= y
  BY <1>1, LeastNumber
<1>3. PICK x \in S : Min(D) = n - x
  BY <1>2 DEF D
<1>4. \A y \in S : n - y \in D
  BY DEF D
<1>5. \A y \in S : y <= x
  BY <1>2, <1>3, <1>4
<1> QED BY <1>5 DEF Max

LEMMA FindIs ==
  ASSUME NEW s \in Text, NEW t
  PROVE  \/ Find(s, t) = 0 /\ \A i \in 1..Len(s) : s[i] # t
         \/ /\ Find(s, t) \in 1..Len(s) /\ s[Find(s, t)] = t
            /\ \A i \in 1..(Find(s, t) - 1) : s[i] # t
<1> DEFINE I == {i \in 1..Len(s) : s[i] = t}
<1>0. Len(s) \in Nat
  BY DEF Text
<1>1. Find(s, t) = IF I # {} THEN Min(I) ELSE 0
  BY DEF Find, SelectInSeq
<1>2. ASSUME I # {} PROVE Min(I) \in I /\ \A y \in I : Min(I) <= y
  <2>1. I \in SUBSET Nat
    BY <1>0
  <2> HIDE DEF I
  <2> QED BY <1>2, <2>1, LeastNumber
<1>3. CASE I = {}
  BY <1>0, <1>1, <1>3
<1>4. CASE I # {}
  <2>1. /\ Find(s, t) \in 1..Len(s) /\ s[Find(s, t)] = t
        /\ \A y \in I : Find(s, t) <= y
    BY <1>0, <1>1, <1>2, <1>4
  <2> QED BY <1>0, <2>1
<1> QED BY <1>3, <1>4

LEMMA RFindIs ==
  ASSUME NEW s \in Text, NEW t
  PROVE  \/ RFind(s, t) = 0 /\ \A i \in 1..Len(s) : s[i] # t
         \/ /\ RFind(s, t) \in 1..Len(s) /\ s[RFind(s, t)] = t
            /\ \A i \in (RFind(s, t) + 1)..Len(s) : s[i] # t
<1> DEFINE I == {i \in 1..Len(s) : s[i] = t}
<1>0. Len(s) \in Nat
  BY DEF Text
<1>1. RFind(s, t) = IF I # {} THEN Max(I) ELSE 0
  BY DEF RFind, SelectLastInSeq
<1>2. ASSUME I # {} PROVE Max(I) \in I /\ \A y \in I : y <= Max(I)
  <2>1. I \in SUBSET (1..Len(s))
    OBVIOUS
  <2> HIDE DEF I
  <2> QED BY <1>0, <1>2, <2>1, GreatestNumber
<1>3. CASE I = {}
  BY <1>0, <1>1, <1>3
<1>4. CASE I # {}
  <2>1. /\ RFind(s, t) \in 1..Len(s) /\ s[RFind(s, t)] = t
        /\ \A y \in I : y <= RFind(s, t)
    BY <1>0, <1>1, <1>2, <1>4
  <2> QED BY <1>0, <2>1
<1> QED BY <1>3, <1>4

LEMMA PrefixIs ==
  ASSUME NEW s \in Text, NEW t \in Text
  PROVE  IsPrefix(s, t) <=> Len(s) <= Len(t) /\ \A i \in 1..Len(s) : s[i] = t[i]
<1>1. ASSUME Len(s) <= Len(t), \A i \in 1..Len(s) : s[i] = t[i]
      PROVE  SubSeq(s, 1, Len(s)) = SubSeq(t, 1, Len(s))
  BY <1>1 DEF Text
<1>2. ASSUME Len(s) <= Len(t), SubSeq(s, 1, Len(s)) = SubSeq(t, 1, Len(s)), NEW i \in 1..Len(s)
      PROVE  s[i] = t[i]
  BY <1>2 DEF Text
<1> QED BY <1>1, <1>2 DEF IsPrefix

LEMMA SameText ==
  ASSUME NEW s \in Text, NEW t \in Text, Len(s) = Len(t), \A i \in 1..Len(s) : s[i] = t[i]
  PROVE  s = t
BY DEF Text

LEMMA TailIs ==
  ASSUME NEW s \in Text, NEW n \in 0..Len(s)
  PROVE  LET t == SubSeq(s, n + 1, Len(s))
         IN  t \in Text /\ Len(t) = Len(s) - n /\ \A i \in 1..Len(t) : t[i] = s[n + i]
BY DEF Text

LEMMA JoinIs ==
  ASSUME NEW s \in Text, NEW t \in Text
  PROVE  LET q == s \o << "/" >> \o t
         IN  /\ q \in Text /\ Len(q) = Len(s) + 1 + Len(t)
             /\ \A i \in 1..Len(q) : q[i] = IF i <= Len(s) THEN s[i]
                                          ELSE IF i = Len(s) + 1 THEN "/" ELSE t[i - Len(s) - 1]
<1> DEFINE u == s \o << "/" >>
           q == u \o t
<1>1. Len(s) \in Nat /\ Len(t) \in Nat
  BY DEF Text
<1>2. /\ u \in Text /\ Len(u) = Len(s) + 1
      /\ \A i \in 1..Len(u) : u[i] = IF i <= Len(s) THEN s[i] ELSE "/"
  BY DEF Text, Token
<1> HIDE DEF u
<1>3. /\ q \in Text /\ Len(q) = Len(u) + Len(t)
      /\ \A i \in 1..Len(q) : q[i] = IF i <= Len(u) THEN u[i] ELSE t[i - Len(u)]
  BY <1>2 DEF Text
<1> HIDE DEF q
<1>4. ASSUME NEW i \in 1..Len(q)
      PROVE  q[i] = IF i <= Len(s) THEN s[i] ELSE IF i = Len(s) + 1 THEN "/" ELSE t[i - Len(s) - 1]
  BY <1>1, <1>2, <1>3
<1>5. Len(q) = Len(s) + 1 + Len(t)
  BY <1>1, <1>2, <1>3
<1> QED BY <1>3, <1>4, <1>5 DEF q, u

-----------------------------------------------------------------------------
(* Paths: above and below.                                                 *)

\* What is asked of a root, there or not.
Cleaned(p) == p \in Text /\ p # <<>> /\ (p = << "/" >> \/ Last(p) # "/")

LEMMA CanonicalIsCleaned ==
  ASSUME NEW p \in Text, Canonical(p)
  PROVE  Cleaned(p) /\ Len(p) \in Nat /\ Len(p) > 0 /\ p[1] = "/"
BY DEF Cleaned, Canonical, Text

\* Below, token by token.
LEMMA BelowIs ==
  ASSUME NEW r, Cleaned(r), NEW p \in Text, Canonical(p)
  PROVE  Below(r, p) <=> \/ r = p
                         \/ r = << "/" >>
                         \/ /\ Len(r) < Len(p) /\ p[Len(r) + 1] = "/"
                            /\ \A i \in 1..Len(r) : r[i] = p[i]
<1>1. r \in Text /\ Len(r) \in Nat /\ Len(p) \in Nat /\ Len(p) > 0 /\ p[1] = "/"
  BY CanonicalIsCleaned DEF Cleaned, Text
<1>2. CASE r = << "/" >>
  <2>1. Len(r) = 1 /\ r[1] = "/"
    BY <1>2
  <2>2. IsPrefix(r, p)
    BY <1>1, <2>1, PrefixIs
  <2> QED BY <1>2, <2>2 DEF Below, Prefix
<1>3. CASE r # << "/" >>
  <2> DEFINE q == Append(r, "/")
  <2>1. /\ q \in Text /\ Len(q) = Len(r) + 1 /\ q[Len(r) + 1] = "/"
        /\ \A i \in 1..Len(r) : q[i] = r[i]
    BY <1>1 DEF Text
  <2> HIDE DEF q
  <2>2. IsPrefix(q, p) <=> Len(q) <= Len(p) /\ \A i \in 1..Len(q) : q[i] = p[i]
    BY <2>1, PrefixIs
  <2>3. IsPrefix(q, p) <=> /\ Len(r) < Len(p) /\ p[Len(r) + 1] = "/"
                           /\ \A i \in 1..Len(r) : r[i] = p[i]
    <3>1. ASSUME IsPrefix(q, p) PROVE /\ Len(r) < Len(p) /\ p[Len(r) + 1] = "/"
                                      /\ \A i \in 1..Len(r) : r[i] = p[i]
      BY <3>1, <1>1, <2>1, <2>2
    <3>2. ASSUME Len(r) < Len(p), p[Len(r) + 1] = "/", \A i \in 1..Len(r) : r[i] = p[i]
          PROVE  IsPrefix(q, p)
      BY <3>2, <1>1, <2>1, <2>2
    <3> QED BY <3>1, <3>2
  <2>4. Below(r, p) <=> p = r \/ IsPrefix(q, p)
    BY <1>3 DEF Below, Prefix, q
  <2> QED BY <1>3, <2>3, <2>4
<1> QED BY <1>2, <1>3

LEMMA ParentIs ==
  ASSUME NEW p \in Text, Canonical(p), p # << "/" >>
  PROVE  \E k \in 1..(Len(p) - 1) :
           /\ p[k] = "/" /\ \A i \in (k + 1)..Len(p) : p[i] # "/"
           /\ RFind(p, "/") = k
           /\ Parent(p) = IF k = 1 THEN << "/" >> ELSE SubSeq(p, 1, k - 1)
           /\ k > 1 => /\ Len(Parent(p)) = k - 1
                      /\ \A i \in 1..(k - 1) : Parent(p)[i] = p[i]
           /\ Parent(p) \in Text /\ Len(Parent(p)) < Len(p)
           /\ Cleaned(Parent(p))
<1> DEFINE k == RFind(p, "/")
<1>1. Len(p) \in Nat /\ Len(p) > 1 /\ p[1] = "/" /\ p[Len(p)] # "/"
  BY DEF Canonical, Text, Last
<1>2. k \in 1..Len(p) /\ p[k] = "/" /\ \A i \in (k + 1)..Len(p) : p[i] # "/"
  BY <1>1, RFindIs
<1>3. k \in 1..(Len(p) - 1)
  BY <1>1, <1>2
<1>4. Parent(p) = IF k = 1 THEN << "/" >> ELSE SubSeq(p, 1, k - 1)
  BY DEF Parent, Before
<1> HIDE DEF k
<1>5. CASE k = 1
  <2>1. Parent(p) = << "/" >> /\ Len(Parent(p)) = 1 /\ Parent(p) \in Text /\ Parent(p) # <<>>
    BY <1>4, <1>5 DEF Text, Token
  <2>2. Cleaned(Parent(p))
    BY <2>1 DEF Cleaned
  <2> QED BY <1>1, <1>2, <1>3, <1>5, <2>1, <2>2 DEF k
<1>6. CASE k # 1
  <2>1. /\ Parent(p) \in Text /\ Len(Parent(p)) = k - 1
        /\ \A i \in 1..(k - 1) : Parent(p)[i] = p[i]
    BY <1>1, <1>3, <1>4, <1>6 DEF Text
  <2>2. p[k - 1] # "/"
    BY <1>1, <1>2, <1>3, <1>6 DEF Canonical
  <2>3. Cleaned(Parent(p))
    BY <1>3, <1>6, <2>1, <2>2 DEF Cleaned, Last
  <2>4. RFind(p, "/") = k
    BY DEF k
  <2>5. Len(Parent(p)) < Len(p) /\ k > 1
    BY <1>1, <1>3, <1>6, <2>1
  <2> WITNESS k \in 1..(Len(p) - 1)
  <2> QED BY <1>2, <1>4, <2>1, <2>3, <2>4, <2>5
<1> QED BY <1>5, <1>6

LEMMA ParentIsAbove ==
  ASSUME NEW p \in Text, Canonical(p), p # << "/" >>
  PROVE  Below(Parent(p), p) /\ Parent(p) # p /\ Cleaned(Parent(p)) /\ Parent(p) \in Text
BY ParentIs, BelowIs

LEMMA RootHasNoneAbove ==
  ASSUME NEW r, Cleaned(r), NEW p \in Text, Canonical(p), Below(r, p), p = << "/" >>
  PROVE  r = p
<1>1. Len(p) = 1 /\ Len(r) \in Nat /\ Len(r) > 0
  BY DEF Cleaned, Text
<1> QED BY <1>1, BelowIs

\* Above a path means above its parent.
LEMMA AboveTheParent ==
  ASSUME NEW r, Cleaned(r), NEW p \in Text, Canonical(p), p # << "/" >>, Canonical(Parent(p)),
         Below(r, p), r # p
  PROVE  Below(r, Parent(p)) /\ Len(r) <= Len(Parent(p))
<1>1. PICK k \in 1..(Len(p) - 1) :
           /\ p[k] = "/" /\ \A i \in (k + 1)..Len(p) : p[i] # "/"
           /\ Parent(p) = IF k = 1 THEN << "/" >> ELSE SubSeq(p, 1, k - 1)
           /\ k > 1 => /\ Len(Parent(p)) = k - 1
                      /\ \A i \in 1..(k - 1) : Parent(p)[i] = p[i]
           /\ Parent(p) \in Text
  BY ParentIs
<1>2. r \in Text /\ Len(r) \in Nat /\ Len(r) > 0 /\ Len(p) \in Nat
  BY DEF Cleaned, Text
<1>3. CASE r = << "/" >>
  <2>1. Len(Parent(p)) \in Nat /\ Len(Parent(p)) > 0
    BY <1>1 DEF Text
  <2> QED BY <1>1, <1>3, <2>1, BelowIs
<1>4. CASE r # << "/" >>
  <2>1. /\ Len(r) < Len(p) /\ p[Len(r) + 1] = "/"
        /\ \A i \in 1..Len(r) : r[i] = p[i]
    BY <1>4, BelowIs
  <2>2. Len(r) + 1 <= k
    BY <1>1, <1>2, <2>1
  <2>3. CASE Len(r) + 1 = k
    <3>1. /\ Len(Parent(p)) = Len(r)
          /\ \A i \in 1..Len(r) : Parent(p)[i] = r[i]
      BY <1>1, <1>2, <2>1, <2>3
    <3>2. r = Parent(p)
      BY <1>1, <1>2, <3>1 DEF Text
    <3> QED BY <1>1, <1>2, <3>1, <3>2, BelowIs
  <2>4. CASE Len(r) + 1 < k
    <3>1. /\ Len(Parent(p)) = k - 1
          /\ \A i \in 1..Len(r) : Parent(p)[i] = r[i]
          /\ Parent(p)[Len(r) + 1] = "/"
      BY <1>1, <1>2, <2>1, <2>4
    <3>2. Len(r) < Len(Parent(p))
      BY <1>1, <1>2, <2>4, <3>1
    <3>3. Parent(p) \in Text
      BY <1>1
    <3> QED BY <3>1, <3>2, <3>3, BelowIs
  <2> QED BY <1>1, <1>2, <2>2, <2>3, <2>4
<1> QED BY <1>3, <1>4

LEMMA BelowIsTransitive ==
  ASSUME NEW r, Cleaned(r), NEW p \in Text, Canonical(p), NEW q \in Text, Canonical(q),
         Below(r, p), Below(p, q)
  PROVE  Below(r, q)
<1>1. Cleaned(p) /\ r \in Text /\ Len(r) \in Nat /\ Len(p) \in Nat /\ Len(q) \in Nat /\ Len(p) > 0
  BY CanonicalIsCleaned DEF Cleaned, Text
<1>2. CASE r = << "/" >> \/ r = p \/ p = q
  BY <1>2, BelowIs
<1>3. CASE r # << "/" >> /\ r # p /\ p # q
  <2>1. p # << "/" >>
    BY <1>3, RootHasNoneAbove
  <2>2. /\ Len(r) < Len(p) /\ p[Len(r) + 1] = "/"
        /\ \A i \in 1..Len(r) : r[i] = p[i]
    BY <1>3, BelowIs
  <2>3. Len(p) < Len(q) /\ \A i \in 1..Len(p) : p[i] = q[i]
    BY <1>1, <1>3, <2>1, BelowIs
  <2>4. /\ Len(r) < Len(q) /\ q[Len(r) + 1] = "/"
        /\ \A i \in 1..Len(r) : r[i] = q[i]
    BY <1>1, <2>2, <2>3
  <2> QED BY <2>4, BelowIs
<1> QED BY <1>2, <1>3

LEMMA BelowIsLonger ==
  ASSUME NEW r, Cleaned(r), NEW p \in Text, Canonical(p), Below(r, p), r # p
  PROVE  Len(r) \in Nat /\ Len(p) \in Nat /\ Len(r) < Len(p)
<1>1. Len(r) \in Nat /\ Len(p) \in Nat /\ Len(p) > 0 /\ p[1] = "/"
  BY CanonicalIsCleaned DEF Cleaned, Text
<1>2. CASE r = << "/" >>
  BY <1>1, <1>2 DEF Canonical
<1>3. CASE r # << "/" >>
  BY <1>1, <1>3, BelowIs
<1> QED BY <1>2, <1>3

-----------------------------------------------------------------------------
(* What the walk calls a path: its tail below the root.                    *)

RelOf(r, p) == IF p = r THEN <<>> ELSE After(p, Len(Prefix(r)))
Dot(rel) == IF rel = <<>> THEN << "." >> ELSE rel

LEMMA PrefixLength ==
  ASSUME NEW r, Cleaned(r)
  PROVE  Len(Prefix(r)) = IF r = << "/" >> THEN 1 ELSE Len(r) + 1
<1>1. CASE r = << "/" >>
  BY <1>1 DEF Prefix
<1>2. CASE r # << "/" >>
  BY <1>2 DEF Prefix, Cleaned, Text
<1> QED BY <1>1, <1>2

LEMMA RelIs ==
  ASSUME NEW r, Cleaned(r), NEW p \in Text, Canonical(p), Below(r, p), p # r
  PROVE  LET n == Len(Prefix(r)) rel == RelOf(r, p)
         IN  /\ n \in 1..(Len(p) - 1) /\ p[n] = "/"
             /\ r # << "/" >> => n = Len(r) + 1
             /\ \A i \in 1..Len(r) : r[i] = p[i]
             /\ rel \in Text /\ Len(rel) = Len(p) - n /\ Len(rel) > 0
             /\ \A i \in 1..Len(rel) : rel[i] = p[n + i]
<1> DEFINE n == Len(Prefix(r))
           rel == RelOf(r, p)
<1>1. Len(r) \in Nat /\ Len(p) \in Nat /\ Len(r) < Len(p) /\ Len(r) > 0 /\ p[1] = "/" /\ p # << "/" >>
  BY BelowIsLonger, CanonicalIsCleaned, RootHasNoneAbove DEF Cleaned, Text
<1>2. p[Len(p)] # "/"
  BY <1>1 DEF Canonical, Last
<1>3. n = IF r = << "/" >> THEN 1 ELSE Len(r) + 1
  BY PrefixLength
<1>4. rel = SubSeq(p, n + 1, Len(p))
  BY DEF RelOf, After
<1>5. /\ n \in 1..Len(p) /\ p[n] = "/"
      /\ \A i \in 1..Len(r) : r[i] = p[i]
  BY <1>1, <1>3, BelowIs
<1>6. n \in 1..(Len(p) - 1)
  BY <1>1, <1>2, <1>5
<1> HIDE DEF n, rel
<1>7. /\ rel \in Text /\ Len(rel) = Len(p) - n /\ Len(rel) > 0
      /\ \A i \in 1..Len(rel) : rel[i] = p[n + i]
  BY <1>1, <1>4, <1>6 DEF Text
<1> QED BY <1>3, <1>5, <1>6, <1>7 DEF n, rel

LEMMA RelLeadsBack ==
  ASSUME NEW r, Cleaned(r), NEW p \in Text, Canonical(p), Below(r, p)
  PROVE  /\ RelOf(r, p) \in Text /\ RelOf(r, p) # << "." >>
         /\ RelOf(r, p) = <<>> <=> p = r
         /\ push_full_path(r, Dot(RelOf(r, p))) = p
         /\ p # r => Last(RelOf(r, p)) = Last(p)
<1>1. CASE p = r
  BY <1>1 DEF RelOf, Dot, push_full_path, Text
<1>2. CASE p # r
  <2> DEFINE n == Len(Prefix(r))
             rel == RelOf(r, p)
  <2>1. /\ n \in 1..(Len(p) - 1) /\ p[n] = "/"
        /\ r # << "/" >> => n = Len(r) + 1
        /\ \A i \in 1..Len(r) : r[i] = p[i]
        /\ rel \in Text /\ Len(rel) = Len(p) - n /\ Len(rel) > 0
        /\ \A i \in 1..Len(rel) : rel[i] = p[n + i]
    BY <1>2, RelIs
  <2>2. r = << "/" >> => n = 1
    BY PrefixLength
  <2>3. Len(r) \in Nat /\ Len(p) \in Nat /\ Len(r) > 0 /\ r \in Text /\ (r # << "/" >> => r[Len(r)] # "/")
    BY DEF Cleaned, Text, Last
  <2> HIDE DEF n, rel
  <2>9. n \in Nat /\ Len(rel) \in Nat /\ Len(p) \in Nat /\ Len(p) = Len(rel) + n
    BY <2>1, <2>3
  <2>4. rel # << "." >>
    <3>1. SUFFICES ASSUME rel = << "." >> PROVE FALSE
      OBVIOUS
    <3>2. rel[1] = "."
      BY <3>1
    <3>6. Len(rel) = 1
      BY <3>1
    <3>3. n = Len(p) - 1
      BY <2>9, <3>6
    <3>5. rel[1] = p[n + 1]
      BY <2>1, <3>6
    <3>4. p[Len(p)] = "."
      BY <2>3, <2>9, <3>2, <3>3, <3>5
    <3> QED BY <2>1, <2>3, <3>3, <3>4, RootHasNoneAbove, <1>2 DEF Canonical, Last
  <2>5. push_full_path(r, rel) = p
    <3>1. CASE r = << "/" >>
      <4>1. push_full_path(r, rel) = r \o rel
        BY <2>4, <3>1 DEF push_full_path, Last
      <4>2. n = 1 /\ Len(r) = 1 /\ r[1] = "/" /\ p[1] = "/" /\ r \in Text
        BY <2>1, <2>2, <2>3, <3>1
      <4> DEFINE q == r \o rel
      <4>3. /\ q \in Text /\ Len(q) = Len(r) + Len(rel)
            /\ \A i \in 1..(Len(r) + Len(rel)) : q[i] = IF i <= Len(r) THEN r[i] ELSE rel[i - Len(r)]
        BY <2>1, <2>3, ConcatProperties DEF Text
      <4> HIDE DEF q
      <4>4. Len(q) = Len(p)
        BY <2>9, <4>2, <4>3
      <4>5. ASSUME NEW i \in 1..Len(q) PROVE q[i] = p[i]
        <5>1. CASE i = 1
          BY <2>9, <4>2, <4>3, <5>1
        <5>2. CASE i # 1
          <6>1. i - 1 \in 1..Len(rel) /\ q[i] = rel[i - 1]
            BY <2>9, <4>2, <4>3, <5>2
          <6>2. rel[i - 1] = p[1 + (i - 1)] /\ 1 + (i - 1) = i
            BY <2>1, <4>2, <6>1
          <6> QED BY <6>1, <6>2
        <5> QED BY <5>1, <5>2
      <4> QED BY <4>1, <4>3, <4>4, <4>5, SameText DEF q
    <3>2. CASE r # << "/" >>
      <4>1. push_full_path(r, rel) = r \o << "/" >> \o rel
        BY <2>3, <2>4, <3>2 DEF push_full_path, Last, join_rel
      <4> DEFINE q == r \o << "/" >> \o rel
      <4>2. /\ q \in Text /\ Len(q) = Len(r) + 1 + Len(rel)
            /\ \A i \in 1..Len(q) : q[i] = IF i <= Len(r) THEN r[i]
                                         ELSE IF i = Len(r) + 1 THEN "/" ELSE rel[i - Len(r) - 1]
        BY <2>1, <2>3, JoinIs
      <4> HIDE DEF q
      <4>3. ASSUME NEW i \in 1..Len(q) PROVE q[i] = p[i]
        <5>1. CASE i <= Len(r) + 1
          BY <2>1, <2>3, <3>2, <4>2, <5>1
        <5>2. CASE i > Len(r) + 1
          <6>1. i - n \in 1..Len(rel) /\ q[i] = rel[i - n]
            BY <2>1, <2>3, <3>2, <4>2, <5>2
          <6>2. rel[i - n] = p[n + (i - n)] /\ n + (i - n) = i
            BY <2>1, <2>3, <6>1
          <6> QED BY <6>1, <6>2
        <5> QED BY <2>3, <5>1, <5>2
      <4>4. q = p
        <5>1. Len(q) = Len(p)
          BY <2>1, <2>3, <3>2, <4>2
        <5> QED BY <4>2, <4>3, <5>1, SameText
      <4> QED BY <4>1, <4>4 DEF q
    <3> QED BY <3>1, <3>2
  <2>6. Last(rel) = Last(p)
    BY <2>1, <2>3 DEF Last
  <2>7. rel # <<>>
    BY <2>1
  <2> QED BY <1>2, <2>1, <2>4, <2>5, <2>6, <2>7 DEF rel, Dot
<1> QED BY <1>1, <1>2

LEMMA RelOfAChild ==
  ASSUME NEW r, Cleaned(r), NEW c \in Text, Canonical(c), c # << "/" >>, Canonical(Parent(c)), Below(r, Parent(c))
  PROVE  join_rel(RelOf(r, Parent(c)), Name(c)) = RelOf(r, c)
<1> DEFINE q == Parent(c)
           m == Len(Prefix(q))
           n == Len(Prefix(r))
<1>1. Below(q, c) /\ q # c /\ Cleaned(q) /\ q \in Text /\ Len(c) \in Nat /\ Len(q) \in Nat
  BY ParentIsAbove DEF Text
<1>2. Below(r, c) /\ r # c /\ Len(r) \in Nat
  <2>1. Len(r) < Len(c) /\ Len(r) \in Nat
    <3>1. CASE r = q
      BY <1>1, <3>1, BelowIsLonger
    <3>2. CASE r # q
      BY <1>1, <3>2, BelowIsLonger
    <3> QED BY <3>1, <3>2
  <2> QED BY <1>1, <2>1, BelowIsTransitive
<1>3. /\ RFind(c, "/") = m /\ m \in 1..(Len(c) - 1)
      /\ c[m] = "/" /\ m = IF q = << "/" >> THEN 1 ELSE Len(q) + 1
      /\ \A i \in 1..Len(q) : c[i] = q[i]
  <2>1. PICK k \in 1..(Len(c) - 1) :
           /\ c[k] = "/"
           /\ RFind(c, "/") = k
           /\ Parent(c) = IF k = 1 THEN << "/" >> ELSE SubSeq(c, 1, k - 1)
           /\ k > 1 => /\ Len(Parent(c)) = k - 1
                      /\ \A i \in 1..(k - 1) : Parent(c)[i] = c[i]
    BY ParentIs
  <2>2. k > 1 => q # << "/" >>
    <3>1. SUFFICES ASSUME k > 1, q = << "/" >> PROVE FALSE
      OBVIOUS
    <3>2. Len(q) = 1 /\ Len(q) = k - 1
      BY <2>1, <3>1
    <3>3. k = 2 /\ c[1] = "/" /\ c[2] = "/"
      BY <2>1, <3>2, CanonicalIsCleaned
    <3> QED BY <1>1, <2>1, <3>3 DEF Canonical
  <2>3. m = IF q = << "/" >> THEN 1 ELSE Len(q) + 1
    BY <1>1, PrefixLength
  <2> HIDE DEF q, m
  <2>4. CASE k = 1
    <3>1. q = << "/" >> /\ Len(q) = 1 /\ q[1] = "/"
      BY <2>1, <2>4 DEF q
    <3> QED BY <2>1, <2>3, <2>4, <3>1
  <2>5. CASE k > 1
    <3>1. q # << "/" >> /\ Len(q) = k - 1 /\ \A i \in 1..(k - 1) : q[i] = c[i]
      BY <2>1, <2>2, <2>5 DEF q
    <3> QED BY <1>1, <2>1, <2>3, <2>5, <3>1
  <2> QED BY <1>1, <2>4, <2>5
<1>4. Name(c) = SubSeq(c, m + 1, Len(c)) /\ RelOf(r, c) = SubSeq(c, n + 1, Len(c))
  BY <1>2, <1>3 DEF Name, After, RelOf
<1>5. CASE q = r
  BY <1>4, <1>5 DEF RelOf, join_rel
<1>6. CASE q # r
  <2> DEFINE rel == RelOf(r, q)
             whole == RelOf(r, c)
             joined == rel \o << "/" >> \o Name(c)
  <2>1. /\ n \in 1..(Len(q) - 1)
        /\ rel \in Text /\ Len(rel) = Len(q) - n /\ Len(rel) > 0
        /\ \A i \in 1..Len(rel) : rel[i] = q[n + i]
    BY <1>1, <1>6, RelIs
  <2>2. /\ whole \in Text /\ Len(whole) = Len(c) - n
        /\ \A i \in 1..Len(whole) : whole[i] = c[n + i]
    BY <1>2, RelIs
  <2>3. m = Len(q) + 1
    BY <1>1, <1>3, <1>6, RootHasNoneAbove
  <2> HIDE DEF rel, whole, q, m, n
  <2>4. /\ Name(c) \in Text /\ Len(Name(c)) = Len(c) - m
        /\ \A i \in 1..Len(Name(c)) : Name(c)[i] = c[m + i]
    <3>1. m \in 0..Len(c)
      BY <1>1, <1>3
    <3> QED BY <1>4, <3>1, TailIs
  <2>5. /\ joined \in Text /\ Len(joined) = Len(rel) + 1 + Len(Name(c))
        /\ \A i \in 1..Len(joined) : joined[i] = IF i <= Len(rel) THEN rel[i]
                                                 ELSE IF i = Len(rel) + 1 THEN "/" ELSE Name(c)[i - Len(rel) - 1]
    BY <2>1, <2>4, JoinIs
  <2> HIDE DEF joined
  <2>6. ASSUME NEW i \in 1..Len(joined) PROVE joined[i] = c[n + i]
    <3>1. CASE i <= Len(rel) + 1
      BY <1>1, <1>3, <2>1, <2>3, <2>5, <3>1
    <3>2. CASE i > Len(rel) + 1
      <4> DEFINE j == i - Len(rel) - 1
      <4>0. /\ Len(rel) \in Nat /\ Len(Name(c)) \in Nat /\ Len(q) \in Nat
            /\ m \in Nat /\ n \in Nat /\ i \in Nat
            /\ Len(rel) = Len(q) - n /\ m = Len(q) + 1
        <5>1. Len(rel) \in Nat /\ Len(Name(c)) \in Nat
          BY <2>1, <2>4 DEF Text
        <5>2. Len(q) \in Nat /\ m = Len(q) + 1 /\ i \in Nat
          BY <1>1, <2>3
        <5>3. n \in Nat /\ Len(rel) = Len(q) - n
          BY <2>1, <5>2
        <5> QED BY <5>1, <5>2, <5>3
      <4>1. j \in 1..Len(Name(c))
        BY <2>5, <3>2, <4>0
      <4>2. joined[i] = Name(c)[j]
        BY <2>5, <3>2, <4>0
      <4>3. m + j = n + i
        BY <4>0
      <4> HIDE DEF j
      <4> QED BY <2>4, <4>1, <4>2, <4>3
    <3> QED BY <2>1, <3>1, <3>2
  <2>7. joined = whole
    <3>1. Len(joined) = Len(whole)
      BY <1>1, <1>3, <2>1, <2>2, <2>3, <2>4, <2>5
    <3> QED BY <2>2, <2>5, <2>6, <3>1, SameText
  <2>8. rel # <<>>
    BY <2>1
  <2> QED BY <2>7, <2>8 DEF join_rel, joined, whole, rel, q
<1> QED BY <1>5, <1>6

-----------------------------------------------------------------------------
(* The tree.                                                               *)

Children(q) == {c \in DOMAIN tree : c # q /\ Parent(c) = q}

LEMMA PathFacts ==
  ASSUME IsTree(tree), NEW p \in DOMAIN tree
  PROVE  /\ p \in Text /\ Canonical(p) /\ Cleaned(p) /\ Len(p) \in Nat
         /\ p # << "/" >> => Parent(p) \in DOMAIN tree
<1>1. p \in Seq(STRING) /\ Canonical(p) /\ (p # << "/" >> => Parent(p) \in DOMAIN tree)
  BY DEF IsTree
<1>2. p \in Text
  <2>1. \A i \in 1..Len(p) : p[i] \in Token
    BY <1>1 DEF Token
  <2> QED BY <1>1, <2>1 DEF Text
<1> QED BY <1>1, <1>2, CanonicalIsCleaned

\* The path nearest to r among those that hold.
LEMMA Nearest ==
  ASSUME IsTree(tree), NEW C \in SUBSET DOMAIN tree, C # {}
  PROVE  \E c \in C : \A d \in C : Len(c) <= Len(d)
<1> DEFINE N == {Len(c) : c \in C}
<1>1. N \in SUBSET Nat /\ N # {}
  BY PathFacts
<1> HIDE DEF N
<1>2. Min(N) \in N /\ \A y \in N : Min(N) <= y
  BY <1>1, LeastNumber
<1> QED BY <1>2 DEF N

LEMMA AboveIsThere ==
  ASSUME IsTree(tree), NEW r, Cleaned(r), NEW p \in DOMAIN tree, Below(r, p)
  PROVE  r \in DOMAIN tree
<1> DEFINE C == {c \in DOMAIN tree : Below(r, c)}
<1>1. PICK c \in C : \A d \in C : Len(c) <= Len(d)
  BY Nearest
<1>2. SUFFICES ASSUME r # c PROVE FALSE
  BY <1>1
<1>3. c \in Text /\ Canonical(c) /\ c # << "/" >>
  BY <1>1, <1>2, PathFacts, RootHasNoneAbove
<1>4. Parent(c) \in DOMAIN tree /\ Canonical(Parent(c)) /\ Parent(c) \in Text
  BY <1>1, <1>3, PathFacts
<1>5. Below(r, Parent(c))
  BY <1>1, <1>2, <1>3, <1>4, AboveTheParent
<1>6. Len(Parent(c)) < Len(c) /\ Len(c) \in Nat /\ Len(Parent(c)) \in Nat
  BY <1>1, <1>3, <1>4, ParentIs, PathFacts
<1> QED BY <1>1, <1>4, <1>5, <1>6

LEMMA ChildIsBelow ==
  ASSUME IsTree(tree), NEW q \in DOMAIN tree, NEW c \in Children(q)
  PROVE  c \in DOMAIN tree /\ c # << "/" >> /\ c # q /\ Parent(c) = q /\ Below(q, c)
<1>1. c \in DOMAIN tree /\ c \in Text /\ Canonical(c) /\ c # q /\ Parent(c) = q
  BY PathFacts DEF Children
<1>2. ASSUME c = << "/" >> PROVE FALSE
  <2>1. Len(c) = 1 /\ c[1] = "/"
    BY <1>2
  <2>2. RFind(c, "/") = 1
    <3>1. \/ RFind(c, "/") = 0 /\ \A i \in 1..Len(c) : c[i] # "/"
          \/ RFind(c, "/") \in 1..Len(c)
      BY <1>1, RFindIs
    <3> QED BY <2>1, <3>1
  <2> QED BY <1>1, <1>2, <2>2 DEF Parent
<1> QED BY <1>1, <1>2, ParentIsAbove

LEMMA ChildOnTheWay ==
  ASSUME IsTree(tree), NEW q \in DOMAIN tree, NEW p \in DOMAIN tree, Below(q, p), q # p
  PROVE  \E c \in Children(q) : Below(c, p)
<1> DEFINE C == {c \in DOMAIN tree : Below(q, c) /\ c # q /\ Below(c, p)}
<1>0. Below(p, p)
  BY DEF Below
<1>1. PICK c \in C : \A d \in C : Len(c) <= Len(d)
  BY <1>0, Nearest
<1>2. c \in Text /\ Canonical(c) /\ c # << "/" >> /\ Cleaned(q) /\ Cleaned(c)
  BY <1>1, PathFacts, RootHasNoneAbove
<1>3. Parent(c) \in DOMAIN tree /\ Canonical(Parent(c)) /\ Parent(c) \in Text /\ Cleaned(Parent(c))
  BY <1>1, <1>2, PathFacts
<1>4. Below(q, Parent(c))
  BY <1>1, <1>2, <1>3, AboveTheParent
<1>5. Below(Parent(c), p)
  BY <1>1, <1>2, <1>3, ParentIsAbove, BelowIsTransitive, PathFacts
<1>6. Len(Parent(c)) < Len(c) /\ Len(c) \in Nat /\ Len(Parent(c)) \in Nat
  BY <1>1, <1>2, <1>3, ParentIs, PathFacts
<1>7. Parent(c) = q
  BY <1>1, <1>3, <1>4, <1>5, <1>6
<1> QED BY <1>1, <1>7 DEF Children

\* Nothing lies between a directory and its child; what is not the child itself and lies above
\* it lies above the directory.
LEMMA AboveTheChild ==
  ASSUME IsTree(tree), NEW q \in DOMAIN tree, NEW c \in Children(q), NEW p \in DOMAIN tree,
         Below(p, c), p # c
  PROVE  Below(p, q)
<1>1. c \in Text /\ Canonical(c) /\ c # << "/" >> /\ Parent(c) = q /\ Canonical(q) /\ Cleaned(p)
  BY ChildIsBelow, PathFacts
<1> QED BY <1>1, AboveTheParent

LEMMA BelowInTree ==
  ASSUME IsTree(tree), NEW p \in DOMAIN tree, NEW q \in DOMAIN tree, Below(p, q)
  PROVE  /\ \A r : Cleaned(r) /\ Below(r, p) => Below(r, q)
         /\ Below(q, p) => p = q
<1>1. ASSUME NEW r, Cleaned(r), Below(r, p) PROVE Below(r, q)
  BY <1>1, PathFacts, BelowIsTransitive
<1>2. ASSUME Below(q, p), p # q PROVE FALSE
  <2>1. Len(p) < Len(q) /\ Len(q) < Len(p) /\ Len(p) \in Nat /\ Len(q) \in Nat
    BY <1>2, PathFacts, BelowIsLonger
  <2> QED BY <2>1
<1> QED BY <1>1, <1>2

LEMMA SiblingsAreApart ==
  ASSUME IsTree(tree), NEW q \in DOMAIN tree, NEW c \in Children(q), NEW d \in Children(q), Below(c, d)
  PROVE  c = d
<1>1. SUFFICES ASSUME c # d PROVE FALSE
  OBVIOUS
<1>2. Below(c, q) /\ Below(q, c) /\ c # q /\ c \in DOMAIN tree
  BY <1>1, ChildIsBelow, AboveTheChild
<1> QED BY <1>2, BelowInTree

LEMMA EntriesAre ==
  ASSUME IsTree(tree), Cleaned(Walked), NEW q \in DOMAIN tree, Below(Walked, q)
  PROVE  /\ Abs(RelOf(Walked, q)) = q /\ Node(RelOf(Walked, q)) = tree[q]
         /\ Entries(RelOf(Walked, q)) = {RelOf(Walked, c) : c \in Children(q)}
         /\ \A c \in Children(q) : Below(Walked, c) /\ c # Walked
<1>1. ASSUME NEW p \in DOMAIN tree, Below(Walked, p) PROVE Abs(RelOf(Walked, p)) = p
  BY <1>1, RelLeadsBack, PathFacts DEF Abs, Dot
<1>2. ASSUME NEW c \in Children(q)
      PROVE  /\ Below(Walked, c) /\ c # Walked
             /\ join_rel(RelOf(Walked, q), Name(c)) = RelOf(Walked, c)
  <2>1. c \in DOMAIN tree /\ c # << "/" >> /\ c # q /\ Parent(c) = q /\ Below(q, c)
    BY ChildIsBelow
  <2>2. Below(Walked, c)
    BY <2>1, BelowInTree
  <2>3. c # Walked
    BY <2>1, BelowInTree
  <2>4. join_rel(RelOf(Walked, q), Name(c)) = RelOf(Walked, c)
    BY <2>1, PathFacts, RelOfAChild
  <2> QED BY <2>2, <2>3, <2>4
<1>3. Abs(RelOf(Walked, q)) = q
  BY <1>1
<1>4. Entries(RelOf(Walked, q)) = {join_rel(RelOf(Walked, q), Name(c)) : c \in Children(q)}
  BY <1>3 DEF Entries, Children
<1> QED BY <1>2, <1>3, <1>4 DEF Node

-----------------------------------------------------------------------------
(* The arena.                                                              *)

IsArena(a) ==
  /\ a.bytes \in Text
  /\ a.repos \in Seq([from : Nat \ {0}, to : Nat])
  /\ \A i \in DOMAIN a.repos : a.repos[i].from <= a.repos[i].to /\ a.repos[i].to <= Len(a.bytes)

\* The arena holds these texts, each once.
Lists(a, texts) == IsArena(a) /\ IsInjective(iter(a)) /\ ToSet(iter(a)) = texts

LEMMA ArenaIs ==
  ASSUME NEW a, IsArena(a)
  PROVE  /\ a.bytes \in Text /\ Len(a.bytes) \in Nat /\ Len(a.repos) \in Nat
         /\ DOMAIN a.repos = 1..Len(a.repos) /\ DOMAIN iter(a) = 1..Len(a.repos)
         /\ \A i \in 1..Len(a.repos) :
              /\ a.repos[i] \in [from : Nat \ {0}, to : Nat]
              /\ a.repos[i].from \in Nat \ {0} /\ a.repos[i].to \in Nat
              /\ a.repos[i].from <= a.repos[i].to /\ a.repos[i].to <= Len(a.bytes)
              /\ iter(a)[i] = SubSeq(a.bytes, a.repos[i].from, a.repos[i].to)
<1>1. a.bytes \in Text /\ Len(a.bytes) \in Nat
  BY DEF IsArena, Text
<1>2. a.repos \in Seq([from : Nat \ {0}, to : Nat])
  BY DEF IsArena
<1>3. Len(a.repos) \in Nat /\ DOMAIN a.repos = 1..Len(a.repos)
  BY <1>2
<1>4. ASSUME NEW i \in 1..Len(a.repos)
      PROVE  /\ a.repos[i] \in [from : Nat \ {0}, to : Nat]
             /\ a.repos[i].from <= a.repos[i].to /\ a.repos[i].to <= Len(a.bytes)
             /\ iter(a)[i] = SubSeq(a.bytes, a.repos[i].from, a.repos[i].to)
  <2>1. i \in DOMAIN a.repos
    BY <1>3
  <2> QED BY <1>2, <1>3, <2>1, ElementOfSeq DEF IsArena, iter
<1>5. DOMAIN iter(a) = 1..Len(a.repos)
  BY <1>3 DEF iter
<1> QED BY <1>1, <1>3, <1>4, <1>5

LEMMA MergeIs ==
  ASSUME NEW a, IsArena(a), NEW b, IsArena(b)
  PROVE  LET n == Len(a.repos) k == Len(b.repos) m == merge(a, b)
         IN  /\ IsArena(m) /\ n \in Nat /\ k \in Nat
             /\ DOMAIN iter(a) = 1..n /\ DOMAIN iter(b) = 1..k /\ DOMAIN iter(m) = 1..(n + k)
             /\ \A i \in 1..n : iter(m)[i] = iter(a)[i]
             /\ \A i \in 1..k : iter(m)[n + i] = iter(b)[i]
<1> DEFINE n == Len(a.repos)
           k == Len(b.repos)
           m == merge(a, b)
           shift == Len(a.bytes)
           moved == [i \in DOMAIN b.repos |-> [from |-> b.repos[i].from + shift, to |-> b.repos[i].to + shift]]
           Slot == [from : Nat \ {0}, to : Nat]
<1>0. n \in Nat /\ k \in Nat /\ shift \in Nat /\ Len(b.bytes) \in Nat
  BY ArenaIs
<1>1. /\ a.bytes \in Text /\ b.bytes \in Text /\ a.repos \in Seq(Slot)
      /\ DOMAIN b.repos = 1..k
  BY ArenaIs DEF IsArena
<1>2. moved \in Seq(Slot) /\ Len(moved) = k
      /\ \A i \in 1..k : moved[i].from = b.repos[i].from + shift /\ moved[i].to = b.repos[i].to + shift
  <2>1. ASSUME NEW i \in 1..k
        PROVE  [from |-> b.repos[i].from + shift, to |-> b.repos[i].to + shift] \in Slot
    <3>1. b.repos[i].from \in Nat \ {0} /\ b.repos[i].to \in Nat
      BY ArenaIs
    <3>2. b.repos[i].from + shift \in Nat \ {0} /\ b.repos[i].to + shift \in Nat
      BY <1>0, <3>1
    <3> QED BY <3>2
  <2> QED BY <1>1, <2>1
<1>3. m.bytes = a.bytes \o b.bytes /\ m.repos = a.repos \o moved
  BY DEF merge
<1> HIDE DEF moved, m, Slot, shift, n, k
<1>4. m.bytes \in Text /\ Len(m.bytes) = shift + Len(b.bytes)
  BY <1>1, <1>3, ConcatProperties DEF Text, shift
<1>5. /\ m.repos \in Seq(Slot) /\ Len(m.repos) = n + k
      /\ \A i \in 1..(n + k) : m.repos[i] = IF i <= n THEN a.repos[i] ELSE moved[i - n]
  <2> DEFINE joint == a.repos \o moved
  <2>1. /\ joint \in Seq(Slot) /\ Len(joint) = Len(a.repos) + Len(moved)
        /\ \A i \in 1..(Len(a.repos) + Len(moved)) :
             joint[i] = IF i <= Len(a.repos) THEN a.repos[i] ELSE moved[i - Len(a.repos)]
    BY <1>1, <1>2, ConcatProperties
  <2> HIDE DEF joint
  <2>2. m.repos = joint
    BY <1>3 DEF joint
  <2> QED BY <1>2, <2>1, <2>2 DEF n
<1>11. DOMAIN m.repos = 1..(n + k)
  BY <1>0, <1>5
<1>12. \A i \in 1..n : i \in 1..(n + k) /\ m.repos[i] = a.repos[i]
  BY <1>0, <1>5
<1>13. ASSUME NEW i \in 1..k PROVE n + i \in 1..(n + k) /\ m.repos[n + i] = moved[i]
  <2>1. n + i \in 1..(n + k) /\ ~(n + i <= n) /\ (n + i) - n = i
    BY <1>0
  <2> QED BY <1>5, <2>1
<1>6. ASSUME NEW i \in 1..n
      PROVE  iter(m)[i] = iter(a)[i] /\ m.repos[i].from <= m.repos[i].to /\ m.repos[i].to <= Len(m.bytes)
  <2>1. i \in 1..(n + k) /\ m.repos[i] = a.repos[i]
    BY <1>12
  <2>2. /\ a.repos[i].from \in 1..Len(a.bytes) /\ a.repos[i].to \in 1..Len(a.bytes)
        /\ a.repos[i].from <= a.repos[i].to /\ a.repos[i].to <= Len(m.bytes)
    <3> DEFINE from == a.repos[i].from
               to == a.repos[i].to
    <3>1. from \in Nat \ {0} /\ to \in Nat /\ from <= to /\ to <= shift
      BY ArenaIs DEF n, shift
    <3>2. shift = Len(a.bytes)
      BY DEF shift
    <3> HIDE DEF from, to
    <3>3. from \in 1..shift /\ to \in 1..shift /\ to <= Len(m.bytes)
      BY <1>0, <1>4, <3>1
    <3> QED BY <3>1, <3>2, <3>3 DEF from, to
  <2>3. /\ iter(m)[i] = SubSeq(a.bytes \o b.bytes, a.repos[i].from, a.repos[i].to)
        /\ iter(a)[i] = SubSeq(a.bytes, a.repos[i].from, a.repos[i].to)
    <3>1. iter(m)[i] = SubSeq(m.bytes, m.repos[i].from, m.repos[i].to)
      BY <1>11, <2>1 DEF iter
    <3>2. iter(a)[i] = SubSeq(a.bytes, a.repos[i].from, a.repos[i].to)
      BY ArenaIs DEF n
    <3> QED BY <1>3, <2>1, <3>1, <3>2
  <2> QED BY <1>1, <2>1, <2>2, <2>3, SubSeqOfConcat1 DEF Text
<1>7. ASSUME NEW i \in 1..k
      PROVE  /\ iter(m)[n + i] = iter(b)[i]
             /\ m.repos[n + i].from <= m.repos[n + i].to /\ m.repos[n + i].to <= Len(m.bytes)
  <2> DEFINE from == b.repos[i].from
             to == b.repos[i].to
  <2>1. n + i \in 1..(n + k) /\ m.repos[n + i] = moved[i]
    BY <1>13
  <2>2. m.repos[n + i].from = from + shift /\ m.repos[n + i].to = to + shift
    BY <1>2, <2>1
  <2>3. from \in 1..Len(b.bytes) /\ to \in 1..Len(b.bytes) /\ from <= to
    <3>1. from \in Nat \ {0} /\ to \in Nat /\ from <= to /\ to <= Len(b.bytes)
      BY ArenaIs DEF k
    <3> QED BY <1>0, <3>1
  <2>4. /\ iter(m)[n + i] = SubSeq(a.bytes \o b.bytes, from + shift, to + shift)
        /\ iter(b)[i] = SubSeq(b.bytes, from, to)
    <3>1. iter(m)[n + i] = SubSeq(m.bytes, m.repos[n + i].from, m.repos[n + i].to)
      BY <1>11, <2>1 DEF iter
    <3>2. iter(b)[i] = SubSeq(b.bytes, from, to)
      BY ArenaIs DEF k
    <3> QED BY <1>3, <2>2, <3>1, <3>2
  <2> HIDE DEF from, to
  <2>5. /\ from + shift \in (shift + 1)..(shift + Len(b.bytes)) /\ to + shift \in (shift + 1)..(shift + Len(b.bytes))
        /\ (from + shift) - shift = from /\ (to + shift) - shift = to
    BY <1>0, <2>3
  <2>6. iter(m)[n + i] = iter(b)[i]
    <3>1. /\ from + shift \in (Len(a.bytes) + 1)..(Len(a.bytes) + Len(b.bytes))
          /\ to + shift \in (Len(a.bytes) + 1)..(Len(a.bytes) + Len(b.bytes))
          /\ a.bytes \in Seq(Token) /\ b.bytes \in Seq(Token)
      BY <1>1, <2>5 DEF shift, Text
    <3>2. SubSeq(a.bytes \o b.bytes, from + shift, to + shift)
            = SubSeq(b.bytes, (from + shift) - Len(a.bytes), (to + shift) - Len(a.bytes))
      BY <3>1, SubSeqOfConcat2
    <3> QED BY <2>4, <2>5, <3>2 DEF shift
  <2> QED BY <1>0, <1>4, <2>2, <2>3, <2>6
<1>8. \A i \in 1..(n + k) : i \in 1..n \/ \E j \in 1..k : i = n + j
  <2>1. ASSUME NEW i \in 1..(n + k), i \notin 1..n PROVE i - n \in 1..k /\ i = n + (i - n)
    BY <1>0, <2>1
  <2> QED BY <2>1
<1>9. IsArena(m)
  <2>1. ASSUME NEW i \in 1..(n + k) PROVE m.repos[i].from <= m.repos[i].to /\ m.repos[i].to <= Len(m.bytes)
    BY <1>6, <1>7, <1>8
  <2> QED BY <1>4, <1>5, <1>11, <2>1 DEF IsArena, Slot
<1>10. DOMAIN iter(a) = 1..n /\ DOMAIN iter(b) = 1..k /\ DOMAIN iter(m) = 1..(n + k)
  BY <1>11, ArenaIs DEF iter, n, k
<1> QED BY <1>0, <1>6, <1>7, <1>9, <1>10 DEF m, n, k

LEMMA NothingIsListed == Lists(NoArena, {})
<1>1. NoArena.bytes = <<>> /\ NoArena.repos = <<>>
  BY DEF NoArena
<1>2. IsArena(NoArena)
  BY <1>1 DEF IsArena, Text
<1>3. DOMAIN iter(NoArena) = {}
  BY <1>1 DEF iter
<1> QED BY <1>2, <1>3 DEF Lists, IsInjective, ToSet

LEMMA MergeLists ==
  ASSUME NEW a, NEW S, Lists(a, S), NEW b, NEW T, Lists(b, T), S \cap T = {}
  PROVE  Lists(merge(a, b), S \cup T)
<1> DEFINE n == Len(a.repos)
           k == Len(b.repos)
           m == merge(a, b)
<1>1. /\ IsArena(m) /\ n \in Nat /\ k \in Nat
      /\ DOMAIN iter(a) = 1..n /\ DOMAIN iter(b) = 1..k /\ DOMAIN iter(m) = 1..(n + k)
      /\ \A i \in 1..n : iter(m)[i] = iter(a)[i]
      /\ \A i \in 1..k : iter(m)[n + i] = iter(b)[i]
  BY MergeIs DEF Lists
<1> HIDE DEF n, k, m
<1>2. ASSUME NEW i \in 1..(n + k)
      PROVE  \/ i \in 1..n /\ iter(m)[i] = iter(a)[i] /\ iter(m)[i] \in S
             \/ i - n \in 1..k /\ iter(m)[i] = iter(b)[i - n] /\ iter(m)[i] \in T
  <2>1. CASE i \in 1..n
    BY <1>1, <2>1 DEF Lists, ToSet
  <2>2. CASE i \notin 1..n
    <3>1. i - n \in 1..k /\ n + (i - n) = i
      BY <1>1, <2>2
    <3>2. iter(m)[i] = iter(b)[i - n]
      BY <1>1, <3>1
    <3> QED BY <1>1, <3>1, <3>2 DEF Lists, ToSet
  <2> QED BY <2>1, <2>2
<1>3. ASSUME NEW i \in 1..(n + k), NEW j \in 1..(n + k), iter(m)[i] = iter(m)[j] PROVE i = j
  <2>1. CASE i \in 1..n /\ j \in 1..n
    BY <1>1, <1>3, <2>1 DEF Lists, IsInjective
  <2>2. CASE i \notin 1..n /\ j \notin 1..n
    <3>1. i - n \in 1..k /\ j - n \in 1..k /\ iter(b)[i - n] = iter(b)[j - n]
      BY <1>2, <1>3, <2>2
    <3>2. i - n = j - n
      BY <1>1, <3>1 DEF Lists, IsInjective
    <3> QED BY <1>1, <3>2
  <2>3. CASE ~(i \in 1..n <=> j \in 1..n)
    <3>1. CASE i \in 1..n /\ j \notin 1..n
      BY <1>1, <1>2, <1>3, <3>1
    <3>2. CASE i \notin 1..n /\ j \in 1..n
      BY <1>1, <1>2, <1>3, <3>2
    <3> QED BY <2>3, <3>1, <3>2
  <2> QED BY <2>1, <2>2, <2>3
<1>4. ToSet(iter(m)) \subseteq S \cup T
  BY <1>1, <1>2 DEF ToSet
<1>5. ASSUME NEW x \in S \cup T PROVE x \in ToSet(iter(m))
  <2>1. CASE x \in S
    <3>1. PICK i \in 1..n : iter(a)[i] = x
      BY <1>1, <2>1 DEF Lists, ToSet
    <3>2. i \in 1..(n + k)
      BY <1>1
    <3> QED BY <1>1, <3>1, <3>2 DEF ToSet
  <2>2. CASE x \in T
    <3>1. PICK i \in 1..k : iter(b)[i] = x
      BY <1>1, <2>2 DEF Lists, ToSet
    <3>2. n + i \in 1..(n + k)
      BY <1>1
    <3> QED BY <1>1, <3>1, <3>2 DEF ToSet
  <2> QED BY <1>5, <2>1, <2>2
<1> QED BY <1>1, <1>3, <1>4, <1>5 DEF Lists, IsInjective, m

LEMMA PushLists ==
  ASSUME NEW a, NEW S, Lists(a, S), NEW p \in Text, p # <<>>, p \notin S
  PROVE  Lists(push(a, p), S \cup {p})
<1> DEFINE b == [bytes |-> p, repos |-> << [from |-> 1, to |-> Len(p)] >>]
<1>1. Len(p) \in Nat \ {0} /\ Len(b.repos) = 1 /\ b.repos[1] = [from |-> 1, to |-> Len(p)] /\ DOMAIN b.repos = {1}
  BY DEF Text
<1>2. IsArena(b)
  <2>1. b.repos \in Seq([from : Nat \ {0}, to : Nat])
    BY <1>1
  <2> QED BY <1>1, <2>1 DEF IsArena
<1>3. iter(b) = [i \in {1} |-> p]
  <2>1. SubSeq(p, 1, Len(p)) = p
    BY DEF Text
  <2> QED BY <1>1, <2>1 DEF iter
<1>4. Lists(b, {p})
  BY <1>2, <1>3 DEF Lists, IsInjective, ToSet
<1>5. merge(a, b) = push(a, p)
  <2>1. [i \in DOMAIN b.repos |-> [from |-> b.repos[i].from + Len(a.bytes), to |-> b.repos[i].to + Len(a.bytes)]]
          = << [from |-> Len(a.bytes) + 1, to |-> Len(a.bytes) + Len(p)] >>
    <3>1. Len(a.bytes) \in Nat
      BY DEF Lists, IsArena, Text
    <3> QED BY <1>1, <3>1
  <2>2. a.repos \in Seq([from : Nat \ {0}, to : Nat])
    BY DEF Lists, IsArena
  <2> DEFINE slot == [from |-> Len(a.bytes) + 1, to |-> Len(a.bytes) + Len(p)]
  <2>4. slot \in [from : Nat \ {0}, to : Nat]
    <3>1. Len(a.bytes) \in Nat
      BY DEF Lists, IsArena, Text
    <3> QED BY <1>1, <3>1
  <2>3. Append(a.repos, slot) = a.repos \o << slot >>
    BY <2>2, <2>4, AppendIsConcat
  <2> QED BY <2>1, <2>3 DEF merge, push
<1>6. Lists(merge(a, b), S \cup {p})
  <2> HIDE DEF b
  <2> QED BY <1>4, MergeLists
<1> QED BY <1>5, <1>6

-----------------------------------------------------------------------------
(* emit: a fold over a finite set is the value of a function on its        *)
(* subsets; that there is such a function is shown on a smallest set that  *)
(* has none.                                                               *)

One(S) == CHOOSE x \in S : TRUE
Grown(f, S) == IF S = {} THEN NoArena ELSE push(f[S \ {One(S)}], Dot(One(S)))
Folds(f, S) == f = [s \in SUBSET S |-> Grown(f, s)]

LEMMA EmitIsAFold ==
  ASSUME NEW S
  PROVE  emit(S) = (CHOOSE f : Folds(f, S))[S]
BY DEF emit, FoldSet, MapThenFoldSet, Folds, Grown, One, Dot

LEMMA SmallestSubset ==
  ASSUME NEW S, IsFiniteSet(S), NEW T \in SUBSET SUBSET S, T # {}
  PROVE  \E s \in T : \A t \in T : t \subseteq s => t = s
<1>1. IsWellFoundedOn(StrictSubsetOrdering(S), SUBSET S)
  BY FS_StrictSubsetOrderingWellFounded, FS_FiniteSubsetsOfFinite
<1>2. PICK s \in T : \A t \in T : ~(<< t, s >> \in StrictSubsetOrdering(S))
  BY <1>1, WFMin
<1> QED BY <1>2 DEF StrictSubsetOrdering

LEMMA OneIsInIt ==
  ASSUME NEW S, S # {}
  PROVE  One(S) \in S /\ S \ {One(S)} \subseteq S /\ S \ {One(S)} # S /\ S = (S \ {One(S)}) \cup {One(S)}
<1>1. One(S) \in S
  BY DEF One
<1> QED BY <1>1

\* Two folds agree on what they both reach.
LEMMA FoldsAgree ==
  ASSUME NEW S, IsFiniteSet(S), NEW T, T \subseteq S, NEW U, NEW R, R \subseteq T, R \subseteq U,
         NEW f, Folds(f, T), NEW g, Folds(g, U)
  PROVE  f[R] = g[R]
<1> DEFINE Differ == {s \in SUBSET (T \cap U) : f[s] # g[s]}
<1>1. SUFFICES ASSUME R \in Differ PROVE FALSE
  OBVIOUS
<1>2. Differ \in SUBSET SUBSET S
  OBVIOUS
<1> HIDE DEF Differ
<1>3. PICK s \in Differ : \A t \in Differ : t \subseteq s => t = s
  BY <1>1, <1>2, SmallestSubset
<1>4. s \in SUBSET (T \cap U) /\ f[s] # g[s] /\ s \in SUBSET T /\ s \in SUBSET U
  BY <1>3 DEF Differ
<1>5. f[s] = Grown(f, s) /\ g[s] = Grown(g, s)
  BY <1>4 DEF Folds
<1>6. s # {}
  BY <1>4, <1>5 DEF Grown
<1>7. s \ {One(s)} \in SUBSET (T \cap U) /\ s \ {One(s)} \subseteq s /\ s \ {One(s)} # s
  BY <1>4, <1>6, OneIsInIt
<1>8. f[s \ {One(s)}] = g[s \ {One(s)}]
  BY <1>3, <1>7 DEF Differ
<1> QED BY <1>4, <1>5, <1>8 DEF Grown

LEMMA FoldExists ==
  ASSUME NEW S, IsFiniteSet(S)
  PROVE  \E f : Folds(f, S)
<1> DEFINE Lacking == {s \in SUBSET S : \A f : ~Folds(f, s)}
<1>1. SUFFICES ASSUME S \in Lacking PROVE FALSE
  OBVIOUS
<1> Lacking \in SUBSET SUBSET S
  OBVIOUS
<1>2. \A s \in Lacking : s \in SUBSET S /\ \A f : ~Folds(f, s)
  OBVIOUS
<1>3. \A s \in SUBSET S : s \notin Lacking => \E f : Folds(f, s)
  OBVIOUS
<1> HIDE DEF Lacking
<1>4. PICK s \in Lacking : \A t \in Lacking : t \subseteq s => t = s
  BY <1>1, SmallestSubset
<1> DEFINE G(t) == CHOOSE f : Folds(f, t)
           Less(t) == t \ {One(t)}
           whole == [t \in SUBSET s |-> IF t = {} THEN NoArena ELSE push(G(Less(t))[Less(t)], Dot(One(t)))]
<1>5. ASSUME NEW t \in SUBSET s, t # s PROVE Folds(G(t), t)
  BY <1>2, <1>3, <1>4, <1>5
<1> HIDE DEF G
<1>6. ASSUME NEW t \in SUBSET s, t # {} PROVE whole[Less(t)] = G(Less(t))[Less(t)]
  <2> DEFINE u == Less(t)
  <2>1. u \in SUBSET s /\ u # s /\ u \in SUBSET u
    BY <1>6, OneIsInIt
  <2>2. Folds(G(u), u)
    BY <1>5, <2>1
  <2>3. G(u)[u] = Grown(G(u), u)
    BY <2>1, <2>2 DEF Folds
  <2>4. CASE u = {}
    BY <2>1, <2>3, <2>4 DEF Grown
  <2>5. CASE u # {}
    <3>1. Less(u) \in SUBSET u /\ Less(u) \in SUBSET s /\ Less(u) # s
      BY <2>1, <2>5, OneIsInIt
    <3>2. Folds(G(Less(u)), Less(u))
      BY <1>5, <3>1
    <3>3. G(Less(u))[Less(u)] = G(u)[Less(u)]
      <4>1. s \in SUBSET S
        BY <1>2
      <4>2. Less(u) \in SUBSET S /\ u \in SUBSET S /\ Less(u) \in SUBSET (Less(u) \cap u)
        BY <2>1, <3>1, <4>1
      <4> DEFINE v == Less(u)
      <4>3. v \subseteq S /\ v \subseteq v /\ v \subseteq u
        BY <4>2
      <4> HIDE DEF u, v
      <4>4. \A f, g : Folds(f, v) /\ Folds(g, u) => f[v] = g[v]
        BY <4>3, FoldsAgree
      <4> QED BY <2>2, <3>2, <4>4 DEF v
    <3>4. whole[u] = push(G(Less(u))[Less(u)], Dot(One(u)))
      BY <2>1, <2>5
    <3>5. Grown(G(u), u) = push(G(u)[Less(u)], Dot(One(u)))
      BY <2>5 DEF Grown
    <3> QED BY <2>3, <3>3, <3>4, <3>5
  <2> QED BY <2>4, <2>5
<1>7. ASSUME NEW t \in SUBSET s PROVE whole[t] = Grown(whole, t)
  <2>1. CASE t = {}
    BY <2>1 DEF Grown
  <2>2. CASE t # {}
    <3>1. whole[t] = push(G(Less(t))[Less(t)], Dot(One(t)))
      BY <2>2
    <3>2. Grown(whole, t) = push(whole[Less(t)], Dot(One(t)))
      BY <2>2 DEF Grown
    <3> QED BY <1>6, <2>2, <3>1, <3>2
  <2> QED BY <2>1, <2>2
<1>8. whole = [t \in SUBSET s |-> whole[t]]
  OBVIOUS
<1> HIDE DEF whole
<1>9. Folds(whole, s)
  BY <1>7, <1>8 DEF Folds
<1> QED BY <1>2, <1>4, <1>9

\* emit lists each of a finite set of names once.
LEMMA EmitLists ==
  ASSUME NEW S, IsFiniteSet(S), S \subseteq Text, << "." >> \notin S
  PROVE  Lists(emit(S), {Dot(rel) : rel \in S})
<1>1. PICK f : Folds(f, S)
  BY FoldExists
<1> DEFINE h == CHOOSE g : Folds(g, S)
           Wrong == {s \in SUBSET S : ~Lists(h[s], {Dot(rel) : rel \in s})}
<1>2. Folds(h, S) /\ emit(S) = h[S]
  BY <1>1, EmitIsAFold
<1> HIDE DEF h
<1>3. SUFFICES ASSUME S \in Wrong PROVE FALSE
  BY <1>2
<1>4. \A s \in Wrong : s \in SUBSET S /\ ~Lists(h[s], {Dot(rel) : rel \in s})
  OBVIOUS
<1>5. \A s \in SUBSET S : s \notin Wrong => Lists(h[s], {Dot(rel) : rel \in s})
  OBVIOUS
<1>6. Wrong \in SUBSET SUBSET S
  OBVIOUS
<1> HIDE DEF Wrong
<1>7. PICK s \in Wrong : \A t \in Wrong : t \subseteq s => t = s
  BY <1>3, <1>6, SmallestSubset
<1>8. s \in SUBSET S /\ h[s] = Grown(h, s)
  BY <1>2, <1>4 DEF Folds
<1>9. CASE s = {}
  <2>1. h[s] = NoArena /\ {Dot(rel) : rel \in s} = {}
    BY <1>8, <1>9 DEF Grown
  <2> QED BY <1>4, <2>1, NothingIsListed
<1>10. CASE s # {}
  <2> DEFINE x == One(s)
             t == s \ {x}
  <2>1. x \in s /\ t \subseteq s /\ t # s /\ s = t \cup {x} /\ t \in SUBSET S
    BY <1>8, <1>10, OneIsInIt
  <2>2. h[s] = push(h[t], Dot(x))
    BY <1>8, <1>10 DEF Grown
  <2>3. Lists(h[t], {Dot(rel) : rel \in t})
    BY <1>5, <1>7, <2>1
  <2>4. x \in Text /\ x # << "." >> /\ \A rel \in t : rel # x /\ rel # << "." >>
    BY <1>8, <2>1
  <2> HIDE DEF x, t
  <2>5. Dot(x) \in Text /\ Dot(x) # <<>>
    BY <2>4 DEF Dot, Text, Token
  <2>6. \A rel \in t : Dot(rel) # Dot(x)
    BY <2>4 DEF Dot
  <2>7. Lists(h[s], {Dot(rel) : rel \in t} \cup {Dot(x)})
    BY <2>2, <2>3, <2>5, <2>6, PushLists
  <2>8. {Dot(rel) : rel \in t} \cup {Dot(x)} = {Dot(rel) : rel \in s}
    BY <2>1
  <2> QED BY <1>4, <2>7, <2>8
<1> QED BY <1>9, <1>10

-----------------------------------------------------------------------------
(* One walk: the repositories found so far, the directories still to be    *)
(* read, and what lies between them.                                       *)

OpenDir(root, q) ==
  /\ q \in DOMAIN tree /\ tree[q].kind = "dir" /\ Below(root, q)
  /\ InSight(root, q) /\ ~EndsGit(q)

\* What was found and what is to be read do not meet.
Frontier(root, found, toRead) ==
  /\ found \subseteq There(root)
  /\ \A q \in toRead : OpenDir(root, q)
  /\ \A q \in toRead, r \in toRead : Below(q, r) => q = r
  /\ \A q \in toRead, f \in found : ~Below(q, f)

\* Whatever was not found is hidden or below a directory still to be read.
Complete(root, found, toRead) ==
  \A p \in There(root) \ found : Hidden(root, p) \/ \E q \in toRead : Below(q, p)

\* is_repo_dir, of a path.
ShowsGit(q) == tree[q].git = "typed" \/ (tree[q].git \in {"link", "untyped"} /\ tree[q].search)

LEMMA ThereIs ==
  ASSUME IsTree(tree), NEW root, Cleaned(root), NEW q, OpenDir(root, q)
  PROVE  /\ root \in DOMAIN tree /\ tree[root].kind = "dir"
         /\ \A p : p \in There(root) <=> p \in DOMAIN tree /\ Below(root, p) /\ IsRepository(p) /\ InSight(root, p)
<1>1. root \in DOMAIN tree
  BY AboveIsThere DEF OpenDir
<1>2. tree[root].kind = "dir"
  <2>1. CASE root = q
    BY <2>1 DEF OpenDir
  <2>2. CASE root # q
    <3>1. root \in Steps(root, q)
      BY <1>1, <2>2 DEF Steps, OpenDir, Below
    <3> QED BY <3>1 DEF OpenDir, InSight
  <2> QED BY <2>1, <2>2
<1> QED BY <1>1, <1>2 DEF There

\* A directory that is no repository by its name, and by its entries none, is veiled if it is one.
LEMMA NotShown ==
  ASSUME IsTree(tree), NEW root, NEW q, OpenDir(root, q), ~ShowsGit(q), IsRepository(q)
  PROVE  Veiled(q)
BY DEF OpenDir, ShowsGit, IsRepository, HasGit, Veiled

LEMMA ChildInSight ==
  ASSUME IsTree(tree), NEW root, Cleaned(root), NEW q, OpenDir(root, q), ~ShowsGit(q),
         NEW c \in Children(q), ~Excluded(root, c)
  PROVE  InSight(root, c) /\ Below(root, c) /\ c \in DOMAIN tree
<1>0. q \in DOMAIN tree /\ Below(root, q) /\ tree[q].kind = "dir" /\ InSight(root, q)
  BY DEF OpenDir
<1>1. c \in DOMAIN tree /\ Below(q, c) /\ Below(root, c)
  BY <1>0, ChildIsBelow, BelowInTree
<1>2. ASSUME NEW s \in Steps(root, c)
      PROVE  tree[s].kind = "dir" /\ ~Excluded(root, s) /\ (IsRepository(s) => Veiled(s))
  <2>1. s \in DOMAIN tree /\ Below(root, s) /\ Below(s, q)
    BY <1>0, <1>2, AboveTheChild DEF Steps
  <2>2. CASE s = q
    BY <1>0, <2>2, NotShown DEF InSight
  <2>3. CASE s # q
    <3>1. s \in Steps(root, q)
      BY <2>1, <2>3 DEF Steps
    <3> QED BY <1>0, <3>1 DEF InSight
  <2> QED BY <2>2, <2>3
<1> QED BY <1>1, <1>2 DEF InSight

\* A directory read and found to be a repository.
LEMMA ReadARepository ==
  ASSUME IsTree(tree), NEW root, Cleaned(root), NEW found, NEW toRead,
         Frontier(root, found, toRead), NEW q \in toRead, ShowsGit(q)
  PROVE  /\ Frontier(root, found \cup {q}, toRead \ {q}) /\ q \notin found
         /\ Complete(root, found, toRead) => Complete(root, found \cup {q}, toRead \ {q})
<1>1. OpenDir(root, q) /\ q \in DOMAIN tree /\ Below(q, q)
  BY DEF Frontier, OpenDir, Below
<1>2. IsRepository(q) /\ ~Veiled(q)
  BY <1>1 DEF OpenDir, ShowsGit, IsRepository, HasGit, Veiled
<1>3. q \in There(root)
  BY <1>1, <1>2, ThereIs DEF OpenDir
<1>4. q \notin found
  BY <1>1 DEF Frontier
<1>5. ASSUME NEW r \in toRead \ {q}, NEW f \in found \cup {q} PROVE ~Below(r, f)
  BY <1>5 DEF Frontier
<1>6. ASSUME Complete(root, found, toRead), NEW p \in There(root) \ (found \cup {q})
      PROVE  Hidden(root, p) \/ \E r \in toRead \ {q} : Below(r, p)
  <2>1. p \in DOMAIN tree /\ InSight(root, p) /\ p # q
    BY <1>1, ThereIs
  <2>2. ~Below(q, p)
    <3>1. SUFFICES ASSUME Below(q, p) PROVE FALSE
      OBVIOUS
    <3>2. q \in Steps(root, p)
      BY <1>1, <2>1, <3>1 DEF Steps, OpenDir
    <3> QED BY <1>2, <2>1, <3>2 DEF InSight
  <2> QED BY <1>6, <2>2 DEF Complete
<1>7. Frontier(root, found \cup {q}, toRead \ {q})
  BY <1>3, <1>5 DEF Frontier
<1> QED BY <1>4, <1>6, <1>7 DEF Complete

\* A directory read and found to be none: `seen` are the repositories among its entries, `next`
\* the directories to be read.
LEMMA ReadADirectory ==
  ASSUME IsTree(tree), NEW root, Cleaned(root), NEW found, NEW toRead,
         Frontier(root, found, toRead), NEW q \in toRead, ~ShowsGit(q),
         NEW seen, seen \subseteq Children(q), NEW next, next \subseteq Children(q), seen \cap next = {},
         \A c \in seen : IsRepository(c) /\ ~Excluded(root, c) /\ (tree[c].kind = "dir" => ~Veiled(c)),
         \A c \in next : tree[c].kind = "dir" /\ ~Excluded(root, c) /\ ~EndsGit(c)
  PROVE  Frontier(root, found \cup seen, (toRead \ {q}) \cup next) /\ found \cap seen = {}
<1>1. OpenDir(root, q) /\ q \in DOMAIN tree /\ tree[q].kind = "dir" /\ Below(root, q)
  BY DEF Frontier, OpenDir
<1>2. \A p : p \in There(root) <=> p \in DOMAIN tree /\ Below(root, p) /\ IsRepository(p) /\ InSight(root, p)
  BY <1>1, ThereIs
<1>3. ASSUME NEW r \in toRead PROVE r \in DOMAIN tree /\ (Below(r, q) => r = q) /\ (Below(q, r) => r = q)
  BY <1>3 DEF Frontier, OpenDir
<1>4. \A c \in Children(q) : c \in DOMAIN tree /\ Below(q, c) /\ c # q
  BY <1>1, ChildIsBelow
<1>5. \A c \in Children(q), r \in DOMAIN tree : Below(r, c) /\ r # c => Below(r, q)
  BY <1>1, AboveTheChild
<1>6. \A c \in Children(q), r \in DOMAIN tree : Below(c, r) => Below(q, r)
  BY <1>1, <1>4, BelowInTree, PathFacts
<1>7. \A c \in Children(q), d \in Children(q) : Below(c, d) => c = d
  BY <1>1, SiblingsAreApart
<1>8. \A f \in found : f \in DOMAIN tree /\ ~Below(q, f)
  BY <1>2 DEF Frontier
<1>9. found \cap seen = {}
  BY <1>4, <1>8
<1>10. found \cup seen \subseteq There(root)
  BY <1>1, <1>2, ChildInSight DEF Frontier
<1>11. ASSUME NEW r \in (toRead \ {q}) \cup next PROVE OpenDir(root, r)
  <2>1. CASE r \in toRead
    BY <2>1 DEF Frontier
  <2>2. CASE r \in next
    BY <1>1, <2>2, ChildInSight DEF OpenDir
  <2> QED BY <2>1, <2>2
<1>12. ASSUME NEW r \in (toRead \ {q}) \cup next, NEW t \in (toRead \ {q}) \cup next, Below(r, t)
       PROVE  r = t
  <2>1. CASE r \in toRead \ {q} /\ t \in toRead \ {q}
    BY <1>12, <2>1 DEF Frontier
  <2>2. CASE r \in toRead \ {q} /\ t \in next
    BY <1>3, <1>5, <1>12, <2>2
  <2>3. CASE r \in next /\ t \in toRead \ {q}
    BY <1>3, <1>6, <1>12, <2>3
  <2>4. CASE r \in next /\ t \in next
    BY <1>7, <1>12, <2>4
  <2> QED BY <2>1, <2>2, <2>3, <2>4
<1>13. ASSUME NEW r \in (toRead \ {q}) \cup next, NEW f \in found \cup seen, Below(r, f)
       PROVE  FALSE
  <2>1. CASE r \in toRead \ {q} /\ f \in found
    BY <1>13, <2>1 DEF Frontier
  <2>2. CASE r \in toRead \ {q} /\ f \in seen
    BY <1>3, <1>4, <1>5, <1>13, <2>2
  <2>3. CASE r \in next /\ f \in found
    BY <1>6, <1>8, <1>13, <2>3
  <2>4. CASE r \in next /\ f \in seen
    BY <1>7, <1>13, <2>4
  <2> QED BY <2>1, <2>2, <2>3, <2>4
<1> QED BY <1>9, <1>10, <1>11, <1>12, <1>13 DEF Frontier

\* If the other entries hide what is below them, nothing is lost.
LEMMA NothingIsLost ==
  ASSUME IsTree(tree), NEW root, Cleaned(root), NEW found, NEW toRead,
         Frontier(root, found, toRead), Complete(root, found, toRead), NEW q \in toRead, ~ShowsGit(q),
         NEW seen, seen \subseteq Children(q), NEW next, next \subseteq Children(q),
         \A c \in seen : IsRepository(c) /\ (tree[c].kind = "dir" => ~Veiled(c)),
         \A c \in Children(q) \ (seen \cup next) : \A p \in There(root) : Below(c, p) => Hidden(root, p)
  PROVE  Complete(root, found \cup seen, (toRead \ {q}) \cup next)
<1>1. OpenDir(root, q) /\ q \in DOMAIN tree /\ tree[q].kind = "dir" /\ Below(root, q)
  BY DEF Frontier, OpenDir
<1>2. \A p : p \in There(root) <=> p \in DOMAIN tree /\ Below(root, p) /\ IsRepository(p) /\ InSight(root, p)
  BY <1>1, ThereIs
<1>3. \A c \in Children(q) : c \in DOMAIN tree /\ Below(q, c)
  BY <1>1, ChildIsBelow
<1>4. ASSUME NEW p \in There(root) \ (found \cup seen)
      PROVE  Hidden(root, p) \/ \E r \in (toRead \ {q}) \cup next : Below(r, p)
  <2>1. p \in DOMAIN tree /\ Below(root, p) /\ IsRepository(p) /\ InSight(root, p)
    BY <1>2
  <2>2. Hidden(root, p) \/ \E r \in toRead : Below(r, p)
    BY <1>4 DEF Complete
  <2>3. CASE Below(q, p) /\ p = q
    BY <1>1, <2>1, <2>3, NotShown DEF Hidden
  <2>4. CASE Below(q, p) /\ p # q
    <3>1. PICK c \in Children(q) : Below(c, p)
      BY <1>1, <2>1, <2>4, ChildOnTheWay
    <3>2. CASE c \in seen
      <4>1. c # p /\ c \in Steps(root, p)
        <5>1. Below(root, c)
          BY <1>1, <1>3, BelowInTree
        <5> QED BY <1>3, <1>4, <3>1, <3>2, <5>1 DEF Steps
      <4> QED BY <2>1, <3>2, <4>1 DEF InSight
    <3>3. CASE c \in next
      BY <3>1, <3>3
    <3>4. CASE c \notin seen \cup next
      BY <1>4, <3>1, <3>4
    <3> QED BY <3>2, <3>3, <3>4
  <2>5. CASE ~Below(q, p)
    BY <2>2, <2>5
  <2> QED BY <2>3, <2>4, <2>5
<1> QED BY <1>4 DEF Complete

-----------------------------------------------------------------------------
(* What the walk learns of the entries of a directory.                     *)

LEMMA EntryIs ==
  ASSUME IsTree(tree), Cleaned(Walked), NEW q \in DOMAIN tree, Below(Walked, q), NEW c \in Children(q)
  PROVE  LET rel == RelOf(Walked, q)
             e == RelOf(Walked, c)
         IN  /\ e \in Entries(rel) /\ c \in DOMAIN tree
             /\ KindOf(rel, e) = IF tree[c].typed \/ tree[q].search THEN tree[c].kind ELSE "unknown"
             /\ is_excluded(e) <=> Excluded(Walked, c)
             /\ EndsGit(e) <=> EndsGit(c)
             /\ GitStats(rel, e) <=> tree[q].search /\ tree[c].search /\ HasGit(c)
             /\ LinkIsRepository(rel, e) <=>
                  /\ tree[q].search /\ Stats(tree[c].target)
                  /\ tree[tree[c].target].kind = "dir"
                  /\ EndsGit(c) \/ (tree[tree[c].target].search /\ HasGit(tree[c].target))
<1> DEFINE rel == RelOf(Walked, q)
           e == RelOf(Walked, c)
<1>1. Node(rel) = tree[q] /\ e \in Entries(rel) /\ Below(Walked, c) /\ c # Walked
  BY EntriesAre
<1>2. c \in DOMAIN tree /\ c \in Text /\ Canonical(c) /\ c # <<>>
  BY ChildIsBelow, PathFacts DEF Cleaned
<1>3. Abs(e) = c /\ Node(e) = tree[c]
  BY <1>1, <1>2, EntriesAre
<1>4. e # <<>> /\ Last(e) = Last(c)
  BY <1>1, <1>2, RelLeadsBack
<1>5. is_excluded(e) <=> Excluded(Walked, c)
  BY <1>1 DEF is_excluded, Excluded, RelOf
<1> HIDE DEF rel, e
<1>6. EndsGit(e) <=> EndsGit(c)
  BY <1>2, <1>4 DEF EndsGit
<1>7. KindOf(rel, e) = IF tree[c].typed \/ tree[q].search THEN tree[c].kind ELSE "unknown"
  BY <1>1, <1>3 DEF KindOf
<1>8. GitStats(rel, e) <=> tree[q].search /\ tree[c].search /\ HasGit(c)
  BY <1>1, <1>3 DEF GitStats, Resolves, HasGit
<1>9. LinkIsRepository(rel, e) <=>
                  /\ tree[q].search /\ Stats(tree[c].target)
                  /\ tree[tree[c].target].kind = "dir"
                  /\ EndsGit(c) \/ (tree[tree[c].target].search /\ HasGit(tree[c].target))
  BY <1>1, <1>3, <1>6 DEF LinkIsRepository, Resolves, HasGit
<1> QED BY <1>1, <1>2, <1>5, <1>6, <1>7, <1>8, <1>9 DEF rel, e

LEMMA RelsApart ==
  ASSUME IsTree(tree), NEW r, Cleaned(r), NEW p \in DOMAIN tree, Below(r, p), NEW q \in DOMAIN tree, Below(r, q)
  PROVE  /\ RelOf(r, p) = RelOf(r, q) => p = q
         /\ Dot(RelOf(r, p)) = Dot(RelOf(r, q)) => p = q
<1>1. push_full_path(r, Dot(RelOf(r, p))) = p /\ push_full_path(r, Dot(RelOf(r, q))) = q
  BY PathFacts, RelLeadsBack
<1> QED BY <1>1

\* What read_dir makes of the directory q: the repositories it shows and the directories it queues.
LooksOn(q, byPath, found, toRead) ==
  LET rel == RelOf(Walked, q)
      tried == Candidates(rel) \ byPath
  IN  \E seen \in SUBSET Children(q), next \in SUBSET Children(q) :
        /\ {RelOf(Walked, c) : c \in seen} = Shown(rel) \cup Probed(rel, tried)
        /\ {RelOf(Walked, c) : c \in next} = byPath \cup Queued(rel, tried)
        /\ found \cap seen = {}
        /\ Frontier(Walked, found \cup seen, (toRead \ {q}) \cup next)
        /\ Complete(Walked, found, toRead) /\ Dropped(rel, tried) = {} =>
             Complete(Walked, found \cup seen, (toRead \ {q}) \cup next)

\* These keep the frontier.
LEMMA LookedAt ==
  ASSUME IsTree(tree), Cleaned(Walked), NEW found, NEW toRead,
         Frontier(Walked, found, toRead), NEW q \in toRead, ~ShowsGit(q),
         NEW byPath, byPath \subseteq Candidates(RelOf(Walked, q))
  PROVE  LooksOn(q, byPath, found, toRead)
<1> DEFINE rel == RelOf(Walked, q)
           tried == Candidates(rel) \ byPath
           R(c) == RelOf(Walked, c)
           seen == {c \in Children(q) : R(c) \in Shown(rel) \cup Probed(rel, tried)}
           next == {c \in Children(q) : R(c) \in byPath \cup Queued(rel, tried)}
<1>1. q \in DOMAIN tree /\ Below(Walked, q) /\ OpenDir(Walked, q)
  BY DEF Frontier, OpenDir
<1>2. Entries(rel) = {R(c) : c \in Children(q)}
  BY <1>1, EntriesAre
<1>3. ASSUME NEW c \in Children(q)
      PROVE  /\ R(c) \in Entries(rel) /\ c \in DOMAIN tree
             /\ KindOf(rel, R(c)) = IF tree[c].typed \/ tree[q].search THEN tree[c].kind ELSE "unknown"
             /\ is_excluded(R(c)) <=> Excluded(Walked, c)
             /\ EndsGit(R(c)) <=> EndsGit(c)
             /\ GitStats(rel, R(c)) <=> tree[q].search /\ tree[c].search /\ HasGit(c)
             /\ LinkIsRepository(rel, R(c)) <=>
                  /\ tree[q].search /\ Stats(tree[c].target)
                  /\ tree[tree[c].target].kind = "dir"
                  /\ EndsGit(c) \/ (tree[tree[c].target].search /\ HasGit(tree[c].target))
  BY <1>1, EntryIs
<1>4. \A x \in Children(q) : tree[x].kind \in {"dir", "link", "other"}
  BY <1>3 DEF IsTree
<1>5. Shown(rel) \cup Probed(rel, tried) \cup byPath \cup Queued(rel, tried) \subseteq Entries(rel)
  BY DEF Shown, Probed, Queued, Candidates, Here
<1>6. /\ {R(c) : c \in seen} = Shown(rel) \cup Probed(rel, tried)
      /\ {R(c) : c \in next} = byPath \cup Queued(rel, tried)
  BY <1>2, <1>5
<1> HIDE DEF rel, R, tried
<1>7. ASSUME NEW c \in Children(q), R(c) \in Candidates(rel)
      PROVE  tree[c].kind = "dir" /\ ~Excluded(Walked, c) /\ ~EndsGit(c) /\ R(c) \notin Shown(rel)
  BY <1>3, <1>4, <1>7 DEF Candidates, Here, Shown
<1>0. \A p : Stats(p) => p \in DOMAIN tree
  BY DEF Stats
<1>8. ASSUME NEW c \in seen
      PROVE  IsRepository(c) /\ ~Excluded(Walked, c) /\ (tree[c].kind = "dir" => ~Veiled(c))
  <2>1. CASE R(c) \in Probed(rel, tried)
    <3>1. R(c) \in Candidates(rel) /\ GitStats(rel, R(c))
      BY <2>1 DEF Probed, tried
    <3> QED BY <1>3, <1>7, <3>1 DEF IsRepository, Veiled
  <2>2. CASE R(c) \in Here(rel, "dir") /\ R(c) \in Shown(rel)
    <3>1. tree[c].kind = "dir" /\ ~Excluded(Walked, c)
      BY <1>3, <1>4, <2>2 DEF Here
    <3>2. KindOf(rel, R(c)) = "dir"
      BY <2>2 DEF Here
    <3>3. EndsGit(c) \/ GitStats(rel, R(c))
      BY <1>3, <2>2, <3>2 DEF Shown, Here
    <3> QED BY <1>3, <3>1, <3>3 DEF IsRepository, Veiled
  <2>3. CASE R(c) \in Here(rel, "link") /\ LinkIsRepository(rel, R(c))
    <3>1. tree[c].kind = "link" /\ ~Excluded(Walked, c)
      BY <1>3, <1>4, <2>3 DEF Here
    <3> QED BY <1>0, <1>3, <2>3, <3>1 DEF IsRepository
  <2> QED BY <2>1, <2>2, <2>3 DEF Shown
<1>9. ASSUME NEW c \in next PROVE tree[c].kind = "dir" /\ ~Excluded(Walked, c) /\ ~EndsGit(c)
  <2>1. R(c) \in Candidates(rel)
    BY DEF Queued, tried, rel
  <2> QED BY <1>7, <2>1
<1>10. seen \cap next = {}
  <2>1. SUFFICES ASSUME NEW c \in Children(q), c \in seen, c \in next PROVE FALSE
    OBVIOUS
  <2>2. R(c) \in Candidates(rel)
    BY <2>1 DEF Queued, tried, rel
  <2>3. R(c) \in Probed(rel, tried)
    BY <1>7, <2>1, <2>2
  <2> QED BY <2>1, <2>3 DEF Probed, Queued, tried
<1>11. ASSUME Dropped(rel, tried) = {}, NEW c \in Children(q) \ (seen \cup next), NEW p \in There(Walked), Below(c, p)
       PROVE  Hidden(Walked, p)
  <2>1. p \in DOMAIN tree /\ Below(Walked, p) /\ IsRepository(p) /\ InSight(Walked, p)
    BY <1>1, ThereIs
  <2>2. c \in DOMAIN tree /\ Parent(c) = q /\ c # Walked /\ Below(Walked, c)
    BY <1>1, ChildIsBelow, EntriesAre
  <2>3. c = p \/ c \in Steps(Walked, p)
    BY <1>11, <2>2 DEF Steps
  <2>4. ~Excluded(Walked, c) /\ tree[c].kind \in {"dir", "link"} /\ (c # p => tree[c].kind = "dir")
    BY <2>1, <2>3 DEF InSight, IsRepository
  <2>5. CASE ~(tree[c].typed \/ tree[q].search)
    BY <2>2, <2>3, <2>5 DEF Hidden
  <2>6. CASE (tree[c].typed \/ tree[q].search) /\ tree[c].kind = "dir"
    <3>1. R(c) \in Here(rel, "dir")
      BY <1>3, <2>4, <2>6 DEF Here
    <3>2. R(c) \in Candidates(rel) /\ R(c) \notin byPath
      BY <1>11, <3>1 DEF Candidates
    <3>3. R(c) \in tried /\ R(c) \notin Queued(rel, tried) /\ R(c) \notin Probed(rel, tried)
      BY <1>11, <3>2 DEF tried
    <3>4. R(c) \in Dropped(rel, tried)
      BY <3>3 DEF Queued, Probed, Dropped
    <3> QED BY <1>11, <3>4
  <2>7. CASE (tree[c].typed \/ tree[q].search) /\ tree[c].kind = "link"
    <3>1. c = p
      BY <2>4, <2>7
    <3>2. R(c) \in Here(rel, "link")
      BY <1>3, <2>4, <2>7 DEF Here
    <3>3. ~LinkIsRepository(rel, R(c))
      BY <1>11, <3>2 DEF Shown
    <3>4. CASE ~tree[q].search
      BY <2>2, <2>7, <3>1, <3>4 DEF Hidden
    <3>5. CASE tree[q].search
      BY <1>3, <2>1, <2>7, <3>1, <3>3, <3>5 DEF Hidden, IsRepository
    <3> QED BY <3>4, <3>5
  <2> QED BY <2>4, <2>5, <2>6, <2>7
<1>12. seen \subseteq Children(q) /\ next \subseteq Children(q)
  OBVIOUS
<1> HIDE DEF seen, next
<1>13. \A c \in seen : IsRepository(c) /\ ~Excluded(Walked, c) /\ (tree[c].kind = "dir" => ~Veiled(c))
  BY <1>8
<1>14. \A c \in next : tree[c].kind = "dir" /\ ~Excluded(Walked, c) /\ ~EndsGit(c)
  BY <1>9
<1>15. Frontier(Walked, found \cup seen, (toRead \ {q}) \cup next) /\ found \cap seen = {}
  BY <1>10, <1>12, <1>13, <1>14, ReadADirectory
<1>16. ASSUME Complete(Walked, found, toRead), Dropped(rel, tried) = {}
       PROVE  Complete(Walked, found \cup seen, (toRead \ {q}) \cup next)
  <2>1. \A c \in Children(q) \ (seen \cup next) : \A p \in There(Walked) : Below(c, p) => Hidden(Walked, p)
    BY <1>11, <1>16
  <2> QED BY <1>12, <1>13, <1>16, <2>1, NothingIsLost
<1> QED BY <1>6, <1>12, <1>15, <1>16 DEF R, rel, tried, LooksOn

-----------------------------------------------------------------------------
(* The listing of a root and the directories of it still to be read.       *)

Slips == [arena : [bytes : Text, repos : Seq([from : Nat \ {0}, to : Nat])], incomplete : BOOLEAN]

\* The names by which a listing of root holds these paths.
NamesOf(root, paths) == {Dot(RelOf(root, p)) : p \in paths}

Sighted(root, listing, toRead) ==
  \E found \in SUBSET DOMAIN tree :
    /\ Lists(listing.arena, NamesOf(root, found))
    /\ Frontier(root, found, toRead)
    /\ ~listing.incomplete => Complete(root, found, toRead)

\* One job for each directory still to be read.
JobsFor(js, root, toRead) ==
  /\ \A j \in js : \E q \in toRead : j.rel = RelOf(root, q)
  /\ \A q \in toRead : \E j \in js : j.rel = RelOf(root, q)
  /\ \A j \in js, k \in js : j.rel = k.rel => j = k

LEMMA Merges ==
  ASSUME listings \in Seq(Slips), listings # <<>>,
         NEW rels, IsFiniteSet(rels), rels \subseteq Text, << "." >> \notin rels,
         NEW short \in BOOLEAN, Merge(rels, short),
         NEW texts, Lists(listings[Len(listings)].arena, texts), texts \cap {Dot(rel) : rel \in rels} = {}
  PROVE  LET n == Len(listings)
         IN  /\ listings' \in Seq(Slips) /\ Len(listings') = n /\ n \in Nat \ {0}
             /\ Lists(listings'[n].arena, texts \cup {Dot(rel) : rel \in rels})
             /\ listings'[n].incomplete <=> listings[n].incomplete \/ short
             /\ \A i \in 1..n : i # n => listings'[i] = listings[i]
<1> DEFINE n == Len(listings)
           old == listings[n]
           arena == merge(old.arena, emit(rels))
           new == [arena |-> arena, incomplete |-> old.incomplete \/ short]
<1>1. n \in Nat \ {0} /\ DOMAIN listings = 1..n /\ old \in Slips
  <2>1. n \in Nat /\ DOMAIN listings = 1..n /\ n # 0
    BY EmptySeq, SMT
  <2>2. n \in 1..n
    BY <2>1
  <2> QED BY <2>1, <2>2, ElementOfSeq
<1>2. Lists(emit(rels), {Dot(rel) : rel \in rels})
  BY EmitLists
<1>3. Lists(arena, texts \cup {Dot(rel) : rel \in rels})
  BY <1>2, MergeLists
<1>4. arena \in [bytes : Text, repos : Seq([from : Nat \ {0}, to : Nat])]
  <2>1. arena.bytes \in Text /\ arena.repos \in Seq([from : Nat \ {0}, to : Nat])
    BY <1>3 DEF Lists, IsArena
  <2>2. \E x, y : arena = [bytes |-> x, repos |-> y]
    BY DEF merge
  <2> HIDE DEF arena
  <2> QED BY <2>1, <2>2
<1>5. new \in Slips
  <2>1. old.incomplete \/ short \in BOOLEAN
    BY <1>1 DEF Slips
  <2> HIDE DEF arena, old
  <2> QED BY <1>4, <2>1 DEF Slips
<1>6. listings' = [listings EXCEPT ![n] = new]
  BY DEF Merge
<1> HIDE DEF new, arena, old
<1>7. /\ listings' \in Seq(Slips) /\ Len(listings') = n
      /\ listings'[n] = new /\ \A i \in 1..n : i # n => listings'[i] = listings[i]
  <2>1. n \in 1..Len(listings)
    BY <1>1
  <2> DEFINE changed == [listings EXCEPT ![n] = new]
  <2>2. /\ changed \in Seq(Slips) /\ Len(changed) = n
        /\ \A j \in 1..n : changed[j] = IF j = n THEN new ELSE listings[j]
    <3> HIDE DEF n
    <3> QED BY <1>5, <2>1, ExceptSeq DEF n
  <2>3. listings' = changed /\ n \in 1..n
    BY <1>1, <1>6
  <2> HIDE DEF changed, n
  <2> QED BY <2>2, <2>3
<1>8. new.arena = arena /\ (new.incomplete <=> old.incomplete \/ short)
  BY DEF new
<1> QED BY <1>1, <1>3, <1>7, <1>8 DEF old

\* What is merged in are directories below the root that were not found before.
LEMMA FoundMore ==
  ASSUME IsTree(tree), Cleaned(Walked), listings \in Seq(Slips), listings # <<>>,
         NEW found, found \subseteq DOMAIN tree, \A p \in found : Below(Walked, p),
         NEW seen, seen \subseteq DOMAIN tree, \A p \in seen : Below(Walked, p),
         found \cap seen = {},
         Lists(listings[Len(listings)].arena, NamesOf(Walked, found)),
         NEW rels, rels = {RelOf(Walked, p) : p \in seen},
         NEW short \in BOOLEAN, Merge(rels, short)
  PROVE  LET n == Len(listings)
         IN  /\ listings' \in Seq(Slips) /\ Len(listings') = n /\ n \in Nat \ {0}
             /\ Lists(listings'[n].arena, NamesOf(Walked, found \cup seen))
             /\ listings'[n].incomplete <=> listings[n].incomplete \/ short
             /\ \A i \in 1..n : i # n => listings'[i] = listings[i]
<1>1. IsFiniteSet(rels)
  <2>1. IsFiniteSet(seen)
    BY FS_Subset DEF IsTree
  <2> DEFINE names == [p \in seen |-> RelOf(Walked, p)]
  <2>2. names \in Surjection(seen, rels)
    BY DEF Surjection
  <2> QED BY <2>1, <2>2, FS_Surjection
<1>2. rels \subseteq Text /\ << "." >> \notin rels
  BY PathFacts, RelLeadsBack
<1>3. {Dot(rel) : rel \in rels} = NamesOf(Walked, seen)
  BY DEF NamesOf
<1>4. NamesOf(Walked, found) \cap NamesOf(Walked, seen) = {}
  <2>1. ASSUME NEW p \in found, NEW q \in seen, Dot(RelOf(Walked, p)) = Dot(RelOf(Walked, q)) PROVE FALSE
    BY <2>1, RelsApart
  <2> QED BY <2>1 DEF NamesOf
<1>5. NamesOf(Walked, found) \cup NamesOf(Walked, seen) = NamesOf(Walked, found \cup seen)
  BY DEF NamesOf
<1> QED BY <1>1, <1>2, <1>3, <1>4, <1>5, Merges

\* A directory less to read, and the ones below it that it queues.
LEMMA JobsMoveOn ==
  ASSUME IsTree(tree), NEW root, Cleaned(root), NEW toRead, NEW q \in toRead,
         \A r \in toRead : r \in DOMAIN tree /\ Below(root, r),
         \A r \in toRead, t \in toRead : Below(r, t) => r = t,
         NEW js, JobsFor(js, root, toRead), NEW j \in js, j.rel = RelOf(root, q),
         NEW next, next \subseteq Children(q),
         NEW paths, NEW open, paths \cap open = {},
         {RelOf(root, c) : c \in next} = paths \cup open
  PROVE  JobsFor((js \ {j}) \cup [rel : paths, byPath : {TRUE}] \cup [rel : open, byPath : {FALSE}],
                 root, (toRead \ {q}) \cup next)
<1> DEFINE queued == [rel : paths, byPath : {TRUE}] \cup [rel : open, byPath : {FALSE}]
           left == js \ {j}
<1>1. \A k \in queued : k.rel \in paths \cup open
  OBVIOUS
<1>2. \A x \in paths \cup open : \E k \in queued : k.rel = x
  <2>1. ASSUME NEW x \in paths PROVE \E k \in queued : k.rel = x
    <3> DEFINE k == [rel |-> x, byPath |-> TRUE]
    <3>1. k \in queued /\ k.rel = x
      OBVIOUS
    <3> QED BY <3>1
  <2>2. ASSUME NEW x \in open PROVE \E k \in queued : k.rel = x
    <3> DEFINE k == [rel |-> x, byPath |-> FALSE]
    <3>1. k \in queued /\ k.rel = x
      OBVIOUS
    <3> QED BY <3>1
  <2> QED BY <2>1, <2>2
<1>3. \A k, l \in queued : k.rel = l.rel => k = l
  <2>1. ASSUME NEW S, NEW B, \A x, y \in B : x = y,
               NEW k \in [rel : S, byPath : B], NEW l \in [rel : S, byPath : B], k.rel = l.rel
        PROVE  k = l
    BY <2>1
  <2>2. \A x, y \in {TRUE} : x = y
    OBVIOUS
  <2>3. \A x, y \in {FALSE} : x = y
    OBVIOUS
  <2>4. \A k, l \in [rel : paths, byPath : {TRUE}] : k.rel = l.rel => k = l
    <3> DEFINE B == {TRUE}
    <3>1. \A x, y \in B : x = y
      BY <2>2
    <3> HIDE DEF B
    <3>2. \A k, l \in [rel : paths, byPath : B] : k.rel = l.rel => k = l
      BY <2>1, <3>1
    <3> QED BY <3>2 DEF B
  <2>5. \A k, l \in [rel : open, byPath : {FALSE}] : k.rel = l.rel => k = l
    <3> DEFINE B == {FALSE}
    <3>1. \A x, y \in B : x = y
      BY <2>3
    <3> HIDE DEF B
    <3>2. \A k, l \in [rel : open, byPath : B] : k.rel = l.rel => k = l
      BY <2>1, <3>1
    <3> QED BY <3>2 DEF B
  <2>6. \A k \in [rel : paths, byPath : {TRUE}], l \in [rel : open, byPath : {FALSE}] : k.rel # l.rel
    <3>1. \A k \in [rel : paths, byPath : {TRUE}], l \in [rel : open, byPath : {FALSE}] :
            k.rel \in paths /\ l.rel \in open
      OBVIOUS
    <3> QED BY <3>1
  <2> QED BY <2>4, <2>5, <2>6
<1> HIDE DEF queued
<1>4. \A k \in left : \E r \in toRead \ {q} : k.rel = RelOf(root, r)
  BY DEF JobsFor
<1>5. \A r \in toRead \ {q} : \E k \in left : k.rel = RelOf(root, r)
  <2>1. ASSUME NEW r \in toRead \ {q} PROVE \E k \in left : k.rel = RelOf(root, r)
    <3>1. PICK k \in js : k.rel = RelOf(root, r)
      BY <2>1 DEF JobsFor
    <3>2. RelOf(root, r) # RelOf(root, q)
      BY <2>1, RelsApart
    <3> QED BY <3>1, <3>2
  <2> QED BY <2>1
<1>6. \A c \in next : c \in DOMAIN tree /\ Below(root, c) /\ Below(q, c) /\ c # q
  BY ChildIsBelow, BelowInTree
<1>7. ASSUME NEW k \in left, NEW l \in queued, k.rel = l.rel PROVE FALSE
  <2>1. PICK r \in toRead \ {q} : k.rel = RelOf(root, r)
    BY <1>4
  <2>2. PICK c \in next : l.rel = RelOf(root, c)
    BY <1>1
  <2>3. r = c
    BY <1>6, <1>7, <2>1, <2>2, RelsApart
  <2> QED BY <1>6, <2>3
<1>8. \A k, l \in left : k.rel = l.rel => k = l
  BY DEF JobsFor
<1>9. \A k \in queued : \E c \in next : k.rel = RelOf(root, c)
  BY <1>1
<1>10. \A c \in next : \E k \in queued : k.rel = RelOf(root, c)
  BY <1>2
<1> HIDE DEF left
<1>11. JobsFor(left \cup queued, root, (toRead \ {q}) \cup next)
  BY <1>3, <1>4, <1>5, <1>7, <1>8, <1>9, <1>10 DEF JobsFor
<1>12. left \cup queued = (js \ {j}) \cup [rel : paths, byPath : {TRUE}] \cup [rel : open, byPath : {FALSE}]
  BY DEF left, queued
<1> QED BY <1>11, <1>12

\* The listing of the root being walked was added to, and only that one.
Extends(n) ==
  /\ listings' \in Seq(Slips) /\ Len(listings') = n /\ n \in Nat \ {0}
  /\ \A i \in 1..n : i # n => listings'[i] = listings[i]

\* read_dir keeps what a walk has found and what it has yet to read together.
LEMMA DirectoryRead ==
  ASSUME IsTree(tree), Cleaned(Walked), opts.tight \in BOOLEAN,
         listings \in Seq(Slips), listings # <<>>,
         NEW toRead, NEW q \in toRead, Sighted(Walked, listings[Len(listings)], toRead),
         NEW js, JobsFor(js, Walked, toRead), NEW j \in js, j.rel = RelOf(Walked, q),
         read_dir(RelOf(Walked, q), js \ {j})
  PROVE  /\ Extends(Len(listings))
         /\ \E Q : JobsFor(jobs', Walked, Q) /\ Sighted(Walked, listings'[Len(listings)], Q)
<1> DEFINE rel == RelOf(Walked, q)
           n == Len(listings)
<1>1. PICK found \in SUBSET DOMAIN tree :
        /\ Lists(listings[n].arena, NamesOf(Walked, found))
        /\ Frontier(Walked, found, toRead)
        /\ ~listings[n].incomplete => Complete(Walked, found, toRead)
  BY DEF Sighted
<1>2. /\ \A r \in toRead : r \in DOMAIN tree /\ Below(Walked, r)
      /\ \A r \in toRead, t \in toRead : Below(r, t) => r = t
  BY <1>1 DEF Frontier, OpenDir
<1>3. q \in DOMAIN tree /\ Below(Walked, q) /\ OpenDir(Walked, q)
  BY <1>1, <1>2 DEF Frontier
<1>4. \A f \in found : f \in DOMAIN tree /\ Below(Walked, f)
  BY <1>1, <1>3, ThereIs DEF Frontier
<1>5. is_repo_dir(rel) <=> ShowsGit(q)
  BY <1>3, EntriesAre DEF is_repo_dir, ShowsGit
<1>6. CASE ShowsGit(q)
  <2>1. Merge({rel}, FALSE) /\ jobs' = js \ {j}
    BY <1>5, <1>6 DEF read_dir
  <2>2. /\ Frontier(Walked, found \cup {q}, toRead \ {q}) /\ q \notin found
        /\ Complete(Walked, found, toRead) => Complete(Walked, found \cup {q}, toRead \ {q})
    BY <1>1, <1>6, ReadARepository
  <2>3. {rel} = {RelOf(Walked, p) : p \in {q}}
    OBVIOUS
  <2>4. /\ Extends(n)
        /\ Lists(listings'[n].arena, NamesOf(Walked, found \cup {q}))
        /\ listings'[n].incomplete <=> listings[n].incomplete
    <3>1. \A p \in {q} : p \in DOMAIN tree /\ Below(Walked, p)
      BY <1>3
    <3>2. found \cap {q} = {} /\ {q} \subseteq DOMAIN tree
      BY <2>2, <1>3
    <3> HIDE DEF rel
    <3> QED BY <1>1, <1>4, <2>1, <2>3, <3>1, <3>2, FoundMore DEF Extends
  <2>5. JobsFor(jobs', Walked, toRead \ {q})
    <3>1. JobsFor((js \ {j}) \cup [rel : {}, byPath : {TRUE}] \cup [rel : {}, byPath : {FALSE}], Walked, (toRead \ {q}) \cup {})
      <4> DEFINE none == {}
      <4>1. none \subseteq Children(q) /\ none \cap none = {} /\ {RelOf(Walked, c) : c \in none} = none \cup none
        OBVIOUS
      <4> HIDE DEF none
      <4>2. JobsFor((js \ {j}) \cup [rel : none, byPath : {TRUE}] \cup [rel : none, byPath : {FALSE}],
                    Walked, (toRead \ {q}) \cup none)
        BY <1>2, <4>1, JobsMoveOn
      <4> QED BY <4>2 DEF none
    <3>2. (js \ {j}) \cup [rel : {}, byPath : {TRUE}] \cup [rel : {}, byPath : {FALSE}] = js \ {j}
      OBVIOUS
    <3>3. (toRead \ {q}) \cup {} = toRead \ {q}
      OBVIOUS
    <3> QED BY <2>1, <3>1, <3>2, <3>3
  <2>6. Sighted(Walked, listings'[n], toRead \ {q})
    <3>1. found \cup {q} \in SUBSET DOMAIN tree
      BY <1>3
    <3> QED BY <1>1, <2>2, <2>4, <3>1 DEF Sighted
  <2> QED BY <2>4, <2>5, <2>6
<1>7. CASE ~ShowsGit(q)
  <2>1. PICK byPath : /\ byPath \subseteq Candidates(rel)
                      /\ LET tried == Candidates(rel) \ byPath
                         IN  /\ Merge(Shown(rel) \cup Probed(rel, tried), Dropped(rel, tried) # {})
                             /\ jobs' = (js \ {j}) \cup [rel : byPath, byPath : {TRUE}]
                                                   \cup [rel : Queued(rel, tried), byPath : {FALSE}]
    <3>1. ASSUME opts.tight, NEW b \in SUBSET Candidates(rel) PROVE b \subseteq Candidates(rel)
      BY <3>1
    <3>2. CASE opts.tight
      BY <1>5, <1>7, <3>2 DEF read_dir
    <3>3. CASE ~opts.tight
      <4>1. {} \subseteq Candidates(rel)
        OBVIOUS
      <4> QED BY <1>5, <1>7, <3>3, <4>1 DEF read_dir
    <3> QED BY <3>2, <3>3
  <2> DEFINE tried == Candidates(rel) \ byPath
  <2>2. PICK seen \in SUBSET Children(q), next \in SUBSET Children(q) :
               /\ {RelOf(Walked, c) : c \in seen} = Shown(rel) \cup Probed(rel, tried)
               /\ {RelOf(Walked, c) : c \in next} = byPath \cup Queued(rel, tried)
               /\ found \cap seen = {}
               /\ Frontier(Walked, found \cup seen, (toRead \ {q}) \cup next)
               /\ Complete(Walked, found, toRead) /\ Dropped(rel, tried) = {} =>
                    Complete(Walked, found \cup seen, (toRead \ {q}) \cup next)
    <3>1. Frontier(Walked, found, toRead) /\ byPath \subseteq Candidates(RelOf(Walked, q))
      BY <1>1, <2>1
    <3>2. LooksOn(q, byPath, found, toRead)
      BY <1>7, <3>1, LookedAt
    <3> QED BY <3>2 DEF LooksOn
  <2>3. byPath \cap Queued(rel, tried) = {}
    BY DEF Queued
  <2>4. \A c \in seen : c \in DOMAIN tree /\ Below(Walked, c)
    BY <1>3, <2>2, ChildIsBelow, BelowInTree
  <2>5. (Dropped(rel, tried) # {}) \in BOOLEAN
    OBVIOUS
  <2>6. /\ Extends(n)
        /\ Lists(listings'[n].arena, NamesOf(Walked, found \cup seen))
        /\ listings'[n].incomplete <=> listings[n].incomplete \/ Dropped(rel, tried) # {}
    <3> DEFINE short == Dropped(rel, tried) # {}
               rels == Shown(rel) \cup Probed(rel, tried)
    <3>1. Merge(rels, short) /\ short \in BOOLEAN
      BY <2>1
    <3>2. rels = {RelOf(Walked, p) : p \in seen} /\ seen \subseteq DOMAIN tree
      BY <2>2, <2>4
    <3> HIDE DEF short, rels
    <3>2a. found \cap seen = {} /\ found \subseteq DOMAIN tree /\ Lists(listings[n].arena, NamesOf(Walked, found))
      BY <1>1, <2>2
    <3>2b. (\A p \in found : Below(Walked, p)) /\ (\A p \in seen : Below(Walked, p))
      BY <1>4, <2>4
    <3>3. /\ Extends(n)
          /\ Lists(listings'[n].arena, NamesOf(Walked, found \cup seen))
          /\ listings'[n].incomplete <=> listings[n].incomplete \/ short
      <4> DEFINE k == n
      <4>1. /\ listings' \in Seq(Slips) /\ Len(listings') = k /\ k \in Nat \ {0}
            /\ Lists(listings'[k].arena, NamesOf(Walked, found \cup seen))
            /\ listings'[k].incomplete <=> listings[k].incomplete \/ short
            /\ \A i \in 1..k : i # k => listings'[i] = listings[i]
        BY <3>1, <3>2, <3>2a, <3>2b, FoundMore
      <4> QED BY <4>1 DEF Extends
    <3> QED BY <3>3 DEF short
  <2> HIDE DEF tried
  <2>7. JobsFor(jobs', Walked, (toRead \ {q}) \cup next)
    <3>1. jobs' = (js \ {j}) \cup [rel : byPath, byPath : {TRUE}] \cup [rel : Queued(rel, tried), byPath : {FALSE}]
      BY <2>1 DEF tried
    <3> HIDE DEF rel
    <3> QED BY <1>2, <2>2, <2>3, <3>1, JobsMoveOn DEF rel
  <2>8. Sighted(Walked, listings'[n], (toRead \ {q}) \cup next)
    <3>1. found \cup seen \in SUBSET DOMAIN tree
      BY <2>4
    <3>2. ~listings'[n].incomplete => Complete(Walked, found \cup seen, (toRead \ {q}) \cup next)
      BY <1>1, <2>2, <2>6
    <3> QED BY <2>2, <2>6, <3>1, <3>2 DEF Sighted
  <2> QED BY <2>6, <2>7, <2>8
<1> QED BY <1>6, <1>7

\* A listing is judged by the tree and by what is excluded, which no step changes.
LEMMA SightFramed ==
  ASSUME UNCHANGED << tree, opts >>, NEW root, NEW listing, NEW toRead
  PROVE  Sighted(root, listing, toRead)' <=> Sighted(root, listing, toRead)
<1>1. \A r, p : Steps(r, p)' = Steps(r, p)
  BY DEF Steps
<1>2. \A p : IsRepository(p)' <=> IsRepository(p)
  BY DEF IsRepository, HasGit
<1>3. \A p : Veiled(p)' <=> Veiled(p)
  BY DEF Veiled
<1>4. \A r, p : Excluded(r, p)' <=> Excluded(r, p)
  BY DEF Excluded
<1>5. \A r, p : InSight(r, p)' <=> InSight(r, p)
  BY <1>1, <1>2, <1>3, <1>4 DEF InSight
<1>6. \A r : There(r)' = There(r)
  BY <1>2, <1>5 DEF There
<1>7. \A r, p : Hidden(r, p)' <=> Hidden(r, p)
  <2>1. \A p : Stats(p)' <=> Stats(p)
    BY DEF Stats
  <2> QED BY <1>1, <1>3, <2>1 DEF Hidden
<1>8. \A r, q : OpenDir(r, q)' <=> OpenDir(r, q)
  BY <1>5 DEF OpenDir
<1>9. \A r, F, Q : Frontier(r, F, Q)' <=> Frontier(r, F, Q)
  BY <1>6, <1>8 DEF Frontier
<1>10. \A r, F, Q : Complete(r, F, Q)' <=> Complete(r, F, Q)
  BY <1>6, <1>7 DEF Complete
<1> QED BY <1>9, <1>10 DEF Sighted

-----------------------------------------------------------------------------
(* The invariant.                                                          *)

WorldInv ==
  /\ IsTree(tree) /\ opts.tight \in BOOLEAN
  /\ roots \in Seq(Text) /\ \A i \in 1..Len(roots) : Cleaned(roots[i])

Finished == {w \in 1..Len(listings) : w < Len(listings) \/ phase \in {"root", "printed"}}

ListInv ==
  /\ WorldInv
  /\ listings \in Seq(Slips) /\ Len(listings) <= Len(roots)
  /\ phase \in {"root", "open", "pool", "printed"}
  /\ \A w \in Finished : Sighted(roots[w], listings[w], {})
  /\ phase \in {"open", "pool"} => listings # <<>>
  /\ phase = "open" => listings[Len(listings)] = NoListing
  /\ phase = "pool" => \E Q : JobsFor(jobs, Walked, Q) /\ Sighted(Walked, listings[Len(listings)], Q)
  /\ phase # "pool" => jobs = {}
  /\ phase = "printed" => /\ Len(listings) = Len(roots)
                          /\ out = Lines(filter_repos(name_repositories, args.exact, args.query), args)

LEMMA InvInit == ListInit => ListInv
<1> SUFFICES ASSUME ListInit PROVE ListInv
  OBVIOUS
<1>1. PICK w \in Worlds : tree = w.tree /\ roots = w.roots /\ opts = w.opts
  BY DEF ListInit, Init
<1>2. /\ IsTree(tree) /\ roots \in Seq(Seq(STRING)) /\ opts.tight \in BOOLEAN
      /\ \A i \in DOMAIN roots : roots[i] # <<>> /\ (roots[i] = << "/" >> \/ Last(roots[i]) # "/")
  BY <1>1, WorldsAssumption
<1>3. roots \in Seq(Text) /\ \A i \in 1..Len(roots) : Cleaned(roots[i])
  <2>1. \A i \in 1..Len(roots) : roots[i] \in Text
    <3>1. \A i \in 1..Len(roots) : roots[i] \in Seq(STRING)
      BY <1>2
    <3> QED BY <3>1 DEF Text, Token
  <2>2. roots \in Seq(Text)
    BY <1>2, <2>1
  <2> QED BY <1>2, <2>1, <2>2 DEF Cleaned
<1>4. listings = <<>> /\ jobs = {} /\ phase = "root"
  BY DEF ListInit, Init
<1>5. listings \in Seq(Slips) /\ Len(listings) = 0 /\ Finished = {}
  BY <1>4 DEF Finished
<1> QED BY <1>2, <1>3, <1>4, <1>5 DEF ListInv, WorldInv

\* A root that does not lie open leaves an empty listing that misses nothing in sight.
LEMMA NothingToSee ==
  ASSUME IsTree(tree), NEW root,
         \/ root \notin DOMAIN tree \/ tree[root].kind # "dir"
         \/ tree[root].read = "no" \/ ~Stats(root)
  PROVE  Sighted(root, NoListing, {})
<1>1. Lists(NoListing.arena, NamesOf(root, {})) /\ NoListing.incomplete = FALSE
  BY NothingIsListed DEF NoListing, NamesOf
<1>2. Frontier(root, {}, {})
  BY DEF Frontier
<1>3. Complete(root, {}, {})
  BY DEF Complete, There, Hidden
<1> QED BY <1>1, <1>2, <1>3 DEF Sighted

\* A root that lies open is itself the first directory to read.
LEMMA TheRootIsNext ==
  ASSUME IsTree(tree), NEW root, Cleaned(root), root \in DOMAIN tree, tree[root].kind = "dir"
  PROVE  /\ InSight(root, root) /\ Below(root, root)
         /\ \A p \in DOMAIN tree : p \in There(root) <=> Below(root, p) /\ IsRepository(p) /\ InSight(root, p)
         /\ ~EndsGit(root) => Frontier(root, {}, {root}) /\ Complete(root, {}, {root})
         /\ EndsGit(root) => Frontier(root, {root}, {}) /\ Complete(root, {root}, {})
<1>1. Below(root, root)
  BY DEF Below
<1>2. Steps(root, root) = {}
  BY BelowInTree DEF Steps
<1>3. InSight(root, root)
  BY <1>2 DEF InSight, Excluded
<1>4. \A p \in DOMAIN tree : p \in There(root) <=> Below(root, p) /\ IsRepository(p) /\ InSight(root, p)
  BY DEF There
<1>5. ASSUME ~EndsGit(root) PROVE Frontier(root, {}, {root}) /\ Complete(root, {}, {root})
  <2>1. OpenDir(root, root)
    BY <1>1, <1>3, <1>5 DEF OpenDir
  <2>2. \A p \in There(root) : Below(root, p)
    BY DEF There
  <2> QED BY <2>1, <2>2 DEF Frontier, Complete
<1>6. ASSUME EndsGit(root) PROVE Frontier(root, {root}, {}) /\ Complete(root, {root}, {})
  <2>1. IsRepository(root) /\ ~Veiled(root)
    BY <1>6 DEF IsRepository, Veiled
  <2>2. root \in There(root)
    BY <1>1, <1>3, <1>4, <2>1
  <2>3. ASSUME NEW p \in There(root) PROVE p = root
    <3>1. p \in DOMAIN tree /\ Below(root, p) /\ InSight(root, p)
      BY <2>3 DEF There
    <3>2. p # root => root \in Steps(root, p)
      BY <1>1, <3>1 DEF Steps
    <3> QED BY <2>1, <3>1, <3>2 DEF InSight
  <2> QED BY <2>2, <2>3 DEF Frontier, Complete
<1> QED BY <1>1, <1>3, <1>4, <1>5, <1>6

LEMMA WorldStays == WorldInv /\ UNCHANGED << tree, roots, opts >> => WorldInv'
BY DEF WorldInv

LEMMA SlipsAre ==
  ASSUME listings \in Seq(Slips), WorldInv, Len(listings) <= Len(roots)
  PROVE  /\ Len(listings) \in Nat /\ Len(roots) \in Nat
         /\ \A w \in 1..Len(listings) : Cleaned(roots[w])
         /\ listings # <<>> => Len(listings) \in 1..Len(listings) /\ Cleaned(Walked)
<1>1. Len(listings) \in Nat /\ Len(roots) \in Nat
  BY DEF WorldInv
<1>2. \A w \in 1..Len(listings) : Cleaned(roots[w])
  BY <1>1 DEF WorldInv
<1>3. listings # <<>> => Len(listings) \in 1..Len(listings)
  BY <1>1, EmptySeq, SMT
<1> QED BY <1>1, <1>2, <1>3 DEF Walked

\* The listings finished before a step are still what they were after it.
LEMMA FinishedStay ==
  ASSUME ListInv, UNCHANGED << tree, roots, opts >>,
         NEW w \in Finished, listings'[w] = listings[w]
  PROVE  Sighted(roots[w], listings[w], {})' 
<1>1. Sighted(roots[w], listings[w], {})
  BY DEF ListInv
<1>2. roots[w]' = roots[w] /\ listings[w]' = listings[w]
  OBVIOUS
<1> QED BY <1>1, <1>2, SightFramed

LEMMA NextRootKeeps ==
  ASSUME ListInv, NextRoot, UNCHANGED out
  PROVE  ListInv'
<1>1. /\ phase = "root" /\ Len(listings) < Len(roots) /\ listings' = Append(listings, NoListing)
      /\ phase' = "open" /\ UNCHANGED << tree, roots, opts, args, jobs >>
  BY DEF NextRoot
<1>2. WorldInv' /\ listings \in Seq(Slips) /\ jobs = {}
  BY <1>1, WorldStays DEF ListInv
<1>3. NoListing \in Slips
  BY NothingIsListed DEF NoListing, NoArena, Slips, Lists, IsArena
<1>4. /\ Len(listings) \in Nat /\ Len(roots) \in Nat
      /\ listings' \in Seq(Slips) /\ Len(listings') = Len(listings) + 1
      /\ listings'[Len(listings) + 1] = NoListing
      /\ \A w \in 1..Len(listings) : listings'[w] = listings[w]
  <2> HIDE DEF NoListing
  <2> QED BY <1>1, <1>2, <1>3, SlipsAre DEF ListInv
<1>5. ASSUME NEW w \in Finished' PROVE Sighted(roots[w], listings[w], {})'
  <2>1. w \in 1..Len(listings)
    BY <1>1, <1>4, <1>5 DEF Finished
  <2>2. w \in Finished
    BY <1>1, <2>1 DEF Finished
  <2> QED BY <1>1, <1>4, <2>1, <2>2, FinishedStay
<1>6. listings' # <<>> /\ listings'[Len(listings')] = NoListing /\ Len(listings') <= Len(roots')
  BY <1>1, <1>4
<1> QED BY <1>1, <1>2, <1>4, <1>5, <1>6 DEF ListInv

LEMMA PassOverKeeps ==
  ASSUME ListInv, PassOver, UNCHANGED out
  PROVE  ListInv'
<1> DEFINE n == Len(listings)
<1>1. /\ phase = "open" /\ ~root_is_walkable /\ phase' = "root"
      /\ UNCHANGED << tree, roots, opts, args, listings, jobs >>
  BY DEF PassOver
<1>2. /\ WorldInv' /\ jobs = {} /\ listings # <<>> /\ listings[n] = NoListing
      /\ listings \in Seq(Slips) /\ n <= Len(roots) /\ IsTree(tree)
  BY <1>1, WorldStays DEF ListInv, WorldInv
<1>3. n \in 1..n /\ Cleaned(Walked) /\ n \in Nat
  BY <1>2, SlipsAre DEF ListInv
<1>4. ASSUME NEW w, w = n PROVE Sighted(roots[w], listings[w], {})'
  <2>1. \/ Walked \notin DOMAIN tree \/ tree[Walked].kind # "dir"
        \/ tree[Walked].read = "no" \/ ~Stats(Walked)
    <3>1. CASE Walked \in DOMAIN tree
      <4>1. Node(<<>>) = tree[Walked]
        BY DEF Node, Abs, push_full_path
      <4> QED BY <1>1, <3>1, <4>1 DEF root_is_walkable
    <3> QED BY <3>1
  <2>2. Sighted(Walked, NoListing, {})
    BY <1>2, <2>1, NothingToSee
  <2>3. roots[w]' = Walked /\ listings[w]' = NoListing
    BY <1>1, <1>2, <1>4 DEF Walked
  <2> QED BY <1>1, <2>2, <2>3, SightFramed
<1>5. ASSUME NEW w \in Finished' PROVE Sighted(roots[w], listings[w], {})'
  <2>1. w \in 1..n
    BY <1>1, <1>5 DEF Finished
  <2>2. CASE w = n
    BY <1>4, <2>2
  <2>3. CASE w # n
    <3>1. w \in Finished
      BY <1>3, <2>1, <2>3 DEF Finished
    <3> QED BY <1>1, <3>1, FinishedStay
  <2> QED BY <2>2, <2>3
<1> QED BY <1>1, <1>2, <1>5 DEF ListInv

\* A step within the walk of a root.
LEMMA WalkStepKeeps ==
  ASSUME ListInv, UNCHANGED << tree, roots, opts, args >>,
         phase \in {"open", "pool"}, phase' = "pool", Extends(Len(listings)),
         NEW Q, JobsFor(jobs', Walked, Q), Sighted(Walked, listings'[Len(listings)], Q)
  PROVE  ListInv'
<1> DEFINE n == Len(listings)
<1>1. WorldInv' /\ listings \in Seq(Slips) /\ n <= Len(roots) /\ n \in Nat
  BY WorldStays DEF ListInv, Extends
<1>2. /\ listings' \in Seq(Slips) /\ Len(listings') = n /\ n \in Nat \ {0}
      /\ \A i \in 1..n : i # n => listings'[i] = listings[i]
  BY DEF Extends
<1>3. Walked' = Walked
  BY <1>2 DEF Walked
<1>4. ASSUME NEW w \in Finished' PROVE Sighted(roots[w], listings[w], {})'
  <2>1. w \in 1..n /\ w < n
    BY <1>2, <1>4 DEF Finished
  <2>2. w \in Finished /\ listings'[w] = listings[w]
    BY <1>2, <2>1 DEF Finished
  <2> QED BY <2>2, FinishedStay
<1>5. JobsFor(jobs, Walked, Q)'
  BY <1>3 DEF JobsFor
<1>6. Sighted(Walked, listings[Len(listings)], Q)'
  <2>1. Walked' = Walked /\ listings[Len(listings)]' = listings'[n]
    BY <1>2, <1>3
  <2> QED BY <2>1, SightFramed
<1>7. listings' # <<>>
  BY <1>2
<1> QED BY <1>1, <1>2, <1>4, <1>5, <1>6, <1>7 DEF ListInv

\* A root that cannot be read: what lies below it is lost, and told.
LEMMA ShortRootKeeps ==
  ASSUME ListInv, phase = "open", phase' = "pool", root_is_walkable, ~EndsGit(Walked),
         Merge({}, TRUE), UNCHANGED << tree, roots, opts, args, jobs, out >>
  PROVE  ListInv'
<1> DEFINE n == Len(listings)
<1>1. /\ IsTree(tree) /\ jobs' = {} /\ listings # <<>> /\ listings[n] = NoListing
      /\ listings \in Seq(Slips) /\ n <= Len(roots) /\ WorldInv
  BY DEF ListInv, WorldInv
<1>2. n \in 1..n /\ Cleaned(Walked) /\ n \in Nat
  BY <1>1, SlipsAre
<1>3. Lists(listings[n].arena, NamesOf(Walked, {}))
  <2>1. NamesOf(Walked, {}) = {} /\ NoListing.arena = NoArena
    BY DEF NamesOf, NoListing
  <2> QED BY <1>1, <2>1, NothingIsListed
<1>4. {} = {RelOf(Walked, p) : p \in {}} /\ {} \cap {} = {} /\ {} \cup {} = {} /\ {} \subseteq DOMAIN tree
  OBVIOUS
<1>5. /\ Extends(n)
      /\ Lists(listings'[n].arena, NamesOf(Walked, {}))
      /\ listings'[n].incomplete
  BY <1>1, <1>2, <1>3, <1>4, FoundMore DEF Extends
<1>6. Sighted(Walked, listings'[n], {})
  BY <1>5 DEF Sighted, Frontier
<1>7. JobsFor(jobs', Walked, {})
  BY <1>1 DEF JobsFor
<1> QED BY <1>5, <1>6, <1>7, WalkStepKeeps

LEMMA OpenRootKeeps ==
  ASSUME ListInv, OpenRoot, UNCHANGED out
  PROVE  ListInv'
<1> DEFINE n == Len(listings)
<1>1. /\ phase = "open" /\ root_is_walkable /\ phase' = "pool"
      /\ UNCHANGED << tree, roots, opts, args >>
  BY DEF OpenRoot
<1>2. /\ IsTree(tree) /\ opts.tight \in BOOLEAN /\ jobs = {} /\ listings # <<>> /\ listings[n] = NoListing
      /\ listings \in Seq(Slips) /\ n <= Len(roots) /\ WorldInv
  BY <1>1 DEF ListInv, WorldInv
<1>3. n \in 1..n /\ Cleaned(Walked) /\ n \in Nat
  BY <1>2, SlipsAre
<1>4. Walked \in DOMAIN tree /\ tree[Walked].kind = "dir" /\ Node(<<>>) = tree[Walked] /\ RelOf(Walked, Walked) = <<>>
  BY <1>1 DEF root_is_walkable, Stats, Node, Abs, push_full_path, RelOf
<1>5. /\ Below(Walked, Walked)
      /\ ~EndsGit(Walked) => Frontier(Walked, {}, {Walked}) /\ Complete(Walked, {}, {Walked})
      /\ EndsGit(Walked) => Frontier(Walked, {Walked}, {}) /\ Complete(Walked, {Walked}, {})
  BY <1>2, <1>3, <1>4, TheRootIsNext
<1>6. Lists(listings[n].arena, NamesOf(Walked, {})) /\ listings[n].incomplete = FALSE
  BY <1>2, NothingIsListed DEF NoListing, NamesOf
<1>7. CASE EndsGit(Walked)
  <2>1. Merge({<<>>}, FALSE) /\ jobs' = {}
    BY <1>1, <1>2, <1>7 DEF OpenRoot
  <2>2. {<<>>} = {RelOf(Walked, p) : p \in {Walked}} /\ {Walked} \subseteq DOMAIN tree
    BY <1>4
  <2>3. {} \cap {Walked} = {} /\ {} \cup {Walked} = {Walked} /\ {} \subseteq DOMAIN tree
    OBVIOUS
  <2>4. /\ Extends(n)
        /\ Lists(listings'[n].arena, NamesOf(Walked, {} \cup {Walked}))
        /\ listings'[n].incomplete <=> listings[n].incomplete \/ FALSE
    BY <1>2, <1>3, <1>5, <1>6, <2>1, <2>2, <2>3, FoundMore DEF Extends
  <2>5. Sighted(Walked, listings'[n], {})
    BY <1>5, <1>7, <2>2, <2>3, <2>4 DEF Sighted
  <2>6. JobsFor(jobs', Walked, {})
    BY <2>1 DEF JobsFor
  <2> QED BY <1>1, <2>4, <2>5, <2>6, WalkStepKeeps
<1>8. CASE ~EndsGit(Walked) /\ Node(<<>>).read # "me"
  <2>1. Merge({}, TRUE) /\ UNCHANGED jobs
    BY <1>1, <1>8 DEF OpenRoot
  <2> QED BY <1>1, <1>8, <2>1, ShortRootKeeps
<1>9. CASE ~EndsGit(Walked) /\ Node(<<>>).read = "me"
  <2> DEFINE job == [rel |-> <<>>, byPath |-> FALSE]
  <2>1. read_dir(<<>>, {}) /\ {job} \ {job} = {}
    BY <1>1, <1>9 DEF OpenRoot
  <2>2. JobsFor({job}, Walked, {Walked}) /\ job.rel = RelOf(Walked, Walked)
    BY <1>4 DEF JobsFor
  <2>3. Sighted(Walked, listings[n], {Walked})
    BY <1>5, <1>6, <1>9 DEF Sighted
  <2>4. read_dir(RelOf(Walked, Walked), {job} \ {job})
    BY <1>4, <2>1
  <2> HIDE DEF job
  <2>5. /\ Extends(n)
        /\ \E Q : JobsFor(jobs', Walked, Q) /\ Sighted(Walked, listings'[n], Q)
    BY <1>2, <1>3, <2>2, <2>3, <2>4, DirectoryRead
  <2> QED BY <1>1, <2>5, WalkStepKeeps
<1> QED BY <1>7, <1>8, <1>9

\* A directory that cannot be opened or read any more: what lies below it is lost, and told.
LEMMA DropKeeps ==
  ASSUME ListInv, phase = "pool", NEW job \in jobs, Merge({}, TRUE), jobs' = jobs \ {job},
         UNCHANGED << tree, roots, opts, args, phase, out >>
  PROVE  ListInv'
<1> DEFINE n == Len(listings)
<1>1. /\ IsTree(tree) /\ opts.tight \in BOOLEAN /\ listings # <<>>
      /\ listings \in Seq(Slips) /\ n <= Len(roots) /\ WorldInv
  BY DEF ListInv, WorldInv
<1>2. n \in 1..n /\ Cleaned(Walked) /\ n \in Nat
  BY <1>1, SlipsAre
<1>3. PICK Q : JobsFor(jobs, Walked, Q) /\ Sighted(Walked, listings[n], Q)
  BY DEF ListInv
<1>4. PICK q \in Q : job.rel = RelOf(Walked, q)
  BY <1>3 DEF JobsFor
<1>5. PICK found \in SUBSET DOMAIN tree :
        Lists(listings[n].arena, NamesOf(Walked, found)) /\ Frontier(Walked, found, Q)
  BY <1>3 DEF Sighted
<1>6. /\ \A r \in Q : r \in DOMAIN tree /\ Below(Walked, r)
      /\ \A r \in Q, t \in Q : Below(r, t) => r = t
      /\ OpenDir(Walked, q)
  BY <1>5 DEF Frontier, OpenDir
<1>7. \A p \in found : Below(Walked, p)
  BY <1>1, <1>2, <1>5, <1>6, ThereIs DEF Frontier
<1>8. {} = {RelOf(Walked, p) : p \in {}} /\ found \cap {} = {} /\ found \cup {} = found /\ {} \subseteq DOMAIN tree
  OBVIOUS
<1>9. /\ Extends(n)
      /\ Lists(listings'[n].arena, NamesOf(Walked, found))
      /\ listings'[n].incomplete
  BY <1>1, <1>2, <1>5, <1>7, <1>8, FoundMore DEF Extends
<1>10. Frontier(Walked, found, Q \ {q})
  BY <1>5 DEF Frontier
<1>11. Sighted(Walked, listings'[n], Q \ {q})
  BY <1>5, <1>9, <1>10 DEF Sighted
<1>12. JobsFor(jobs', Walked, Q \ {q})
  <2> DEFINE none == {}
  <2>1. none \subseteq Children(q) /\ none \cap none = {} /\ {RelOf(Walked, c) : c \in none} = none \cup none
    OBVIOUS
  <2> HIDE DEF none
  <2>2. JobsFor((jobs \ {job}) \cup [rel : none, byPath : {TRUE}] \cup [rel : none, byPath : {FALSE}],
                Walked, (Q \ {q}) \cup none)
    BY <1>1, <1>2, <1>3, <1>4, <1>6, <2>1, JobsMoveOn
  <2>3. (jobs \ {job}) \cup [rel : {}, byPath : {TRUE}] \cup [rel : {}, byPath : {FALSE}] = jobs \ {job}
    OBVIOUS
  <2>4. (Q \ {q}) \cup {} = Q \ {q}
    OBVIOUS
  <2> QED BY <2>2, <2>3, <2>4 DEF none
<1> QED BY <1>9, <1>11, <1>12, WalkStepKeeps

LEMMA RunKeeps ==
  ASSUME ListInv, NEW job \in jobs, Run(job), UNCHANGED out
  PROVE  ListInv'
<1> DEFINE n == Len(listings)
<1>1. phase = "pool" /\ phase' = "pool" /\ UNCHANGED << tree, roots, opts, args >>
  BY DEF Run
<1>2. /\ IsTree(tree) /\ opts.tight \in BOOLEAN /\ listings # <<>>
      /\ listings \in Seq(Slips) /\ n <= Len(roots) /\ WorldInv
  BY <1>1 DEF ListInv, WorldInv
<1>3. n \in 1..n /\ Cleaned(Walked) /\ n \in Nat
  BY <1>2, SlipsAre
<1>4. PICK Q : JobsFor(jobs, Walked, Q) /\ Sighted(Walked, listings[n], Q)
  BY <1>1 DEF ListInv
<1>5. PICK q \in Q : job.rel = RelOf(Walked, q)
  BY <1>4 DEF JobsFor
<1>6. CASE job.byPath /\ ~Opens(Parent(job.rel), job.rel)
  <2>1. Merge({}, TRUE) /\ jobs' = jobs \ {job} /\ UNCHANGED phase
    BY <1>1, <1>6 DEF Run
  <2> QED BY <1>1, <2>1, DropKeeps
<1>7. CASE ~(job.byPath /\ ~Opens(Parent(job.rel), job.rel))
  <2>1. read_dir(RelOf(Walked, q), jobs \ {job})
    BY <1>5, <1>7 DEF Run
  <2>2. /\ Extends(n)
        /\ \E R : JobsFor(jobs', Walked, R) /\ Sighted(Walked, listings'[n], R)
    BY <1>2, <1>3, <1>4, <1>5, <2>1, DirectoryRead
  <2> QED BY <1>1, <2>2, WalkStepKeeps
<1> QED BY <1>6, <1>7

LEMMA WalkOverKeeps ==
  ASSUME ListInv, WalkOver, UNCHANGED out
  PROVE  ListInv'
<1> DEFINE n == Len(listings)
<1>1. /\ phase = "pool" /\ phase' = "root" /\ jobs = {}
      /\ UNCHANGED << tree, roots, opts, args, listings, jobs >>
  BY DEF WalkOver
<1>2. /\ WorldInv' /\ listings # <<>> /\ listings \in Seq(Slips) /\ n <= Len(roots) /\ WorldInv
  BY <1>1, WorldStays DEF ListInv
<1>3. n \in 1..n /\ n \in Nat
  BY <1>2, SlipsAre
<1>4. Sighted(Walked, listings[n], {})
  <2>1. PICK Q : JobsFor(jobs, Walked, Q) /\ Sighted(Walked, listings[n], Q)
    BY <1>1 DEF ListInv
  <2>2. Q = {}
    BY <1>1, <2>1 DEF JobsFor
  <2> QED BY <2>1, <2>2
<1>5. ASSUME NEW w \in Finished' PROVE Sighted(roots[w], listings[w], {})'
  <2>1. w \in 1..n
    BY <1>1, <1>5 DEF Finished
  <2>2. CASE w = n
    <3>1. roots[w]' = Walked /\ listings[w]' = listings[n]
      BY <1>1, <2>2 DEF Walked
    <3> QED BY <1>1, <1>4, <3>1, SightFramed
  <2>3. CASE w # n
    <3>1. w \in Finished
      BY <1>3, <2>1, <2>3 DEF Finished
    <3> QED BY <1>1, <3>1, FinishedStay
  <2> QED BY <2>2, <2>3
<1> QED BY <1>1, <1>2, <1>5 DEF ListInv

\* Nothing but the output changes any more.
LEMMA NamesStay ==
  ASSUME UNCHANGED << roots, listings >>
  PROVE  name_repositories' = name_repositories
BY DEF name_repositories, Naming, Named

LEMMA WriteOutKeeps ==
  ASSUME ListInv, WriteOut
  PROVE  ListInv'
<1>1. /\ phase = "root" /\ Len(listings) = Len(roots) /\ phase' = "printed"
      /\ out' = Lines(filter_repos(name_repositories, args.exact, args.query), args)
      /\ UNCHANGED << tree, roots, opts, args, listings, jobs >>
  BY DEF WriteOut
<1>2. WorldInv' /\ jobs = {} /\ listings \in Seq(Slips)
  BY <1>1, WorldStays DEF ListInv
<1>3. ASSUME NEW w \in Finished' PROVE Sighted(roots[w], listings[w], {})'
  <2>1. w \in Finished
    BY <1>1, <1>3 DEF Finished
  <2> QED BY <1>1, <2>1, FinishedStay
<1>4. name_repositories' = name_repositories
  BY <1>1, NamesStay
<1>5. out' = Lines(filter_repos(name_repositories', args.exact', args.query'), args')
  BY <1>1, <1>4
<1>6. Len(listings') = Len(roots') /\ listings' \in Seq(Slips) /\ jobs' = {} /\ Len(listings') <= Len(roots')
  BY <1>1, <1>2 DEF ListInv
<1> QED BY <1>1, <1>2, <1>3, <1>5, <1>6 DEF ListInv

LEMMA StutterKeeps ==
  ASSUME ListInv, UNCHANGED vars
  PROVE  ListInv'
<1>1. UNCHANGED << tree, roots, opts, args, listings, jobs, phase, out >>
  BY DEF vars, walkVars
<1>2. WorldInv' /\ name_repositories' = name_repositories
  BY <1>1, WorldStays, NamesStay DEF ListInv
<1>3. Finished' = Finished /\ Walked' = Walked
  BY <1>1 DEF Finished, Walked
<1>4. ASSUME NEW w \in Finished' PROVE Sighted(roots[w], listings[w], {})'
  BY <1>1, <1>3, <1>4, FinishedStay
<1>5. ASSUME NEW Q, JobsFor(jobs, Walked, Q), Sighted(Walked, listings[Len(listings)], Q)
      PROVE  (JobsFor(jobs, Walked, Q) /\ Sighted(Walked, listings[Len(listings)], Q))'
  <2>1. JobsFor(jobs, Walked, Q)'
    BY <1>1, <1>3, <1>5 DEF JobsFor
  <2>2. Walked' = Walked /\ listings[Len(listings)]' = listings[Len(listings)]
    BY <1>1, <1>3
  <2> QED BY <1>1, <1>5, <2>1, <2>2, SightFramed
<1>6. (phase = "pool" => \E Q : JobsFor(jobs, Walked, Q) /\ Sighted(Walked, listings[Len(listings)], Q))'
  <2>1. ASSUME phase = "pool" PROVE (\E Q : JobsFor(jobs, Walked, Q) /\ Sighted(Walked, listings[Len(listings)], Q))'
    BY <1>5, <2>1 DEF ListInv
  <2> QED BY <1>1, <2>1
<1>7. (phase = "printed" => /\ Len(listings) = Len(roots)
                            /\ out = Lines(filter_repos(name_repositories, args.exact, args.query), args))'
  BY <1>1, <1>2 DEF ListInv
<1>8. /\ listings' \in Seq(Slips) /\ Len(listings') <= Len(roots')
      /\ phase' \in {"root", "open", "pool", "printed"}
      /\ phase' \in {"open", "pool"} => listings' # <<>>
      /\ phase' = "open" => listings'[Len(listings')] = NoListing
      /\ phase' # "pool" => jobs' = {}
  BY <1>1 DEF ListInv
<1> QED BY <1>2, <1>4, <1>6, <1>7, <1>8 DEF ListInv

LEMMA InvNext == ListInv /\ [ListNext]_vars => ListInv'
<1>1. ASSUME ListInv, NextRoot, UNCHANGED out PROVE ListInv'
  BY <1>1, NextRootKeeps
<1>2. ASSUME ListInv, PassOver, UNCHANGED out PROVE ListInv'
  BY <1>2, PassOverKeeps
<1>3. ASSUME ListInv, OpenRoot, UNCHANGED out PROVE ListInv'
  BY <1>3, OpenRootKeeps
<1>4. ASSUME ListInv, NEW job \in jobs, Run(job), UNCHANGED out PROVE ListInv'
  BY <1>4, RunKeeps
<1>5. ASSUME ListInv, WalkOver, UNCHANGED out PROVE ListInv'
  BY <1>5, WalkOverKeeps
<1>6. ASSUME ListInv, WriteOut PROVE ListInv'
  BY <1>6, WriteOutKeeps
<1>7. ASSUME ListInv, UNCHANGED vars PROVE ListInv'
  BY <1>7, StutterKeeps
<1>8. ASSUME ListInv, OpenRootFails, UNCHANGED out PROVE ListInv'
  BY <1>8, ShortRootKeeps DEF OpenRootFails
<1>9. ASSUME ListInv, NEW job \in jobs, RunFails(job), UNCHANGED out PROVE ListInv'
  BY <1>9, DropKeeps DEF RunFails
<1> QED BY <1>1, <1>2, <1>3, <1>4, <1>5, <1>6, <1>7, <1>8, <1>9 DEF ListNext, Walk

LEMMA InvHolds == ListSpec => []ListInv
BY InvInit, InvNext, PTL DEF ListSpec

-----------------------------------------------------------------------------
(* What a listing holds.                                                   *)

\* A finished listing, said of paths.
LEMMA ListingHolds ==
  ASSUME IsTree(tree), NEW root, Cleaned(root), NEW listing, Sighted(root, listing, {})
  PROVE  LET found == iter(listing.arena)
             paths == {push_full_path(root, rel) : rel \in ToSet(found)}
         IN  /\ IsInjective(found)
             /\ paths \subseteq There(root)
             /\ \A rel \in ToSet(found) : \E p \in DOMAIN tree :
                  Below(root, p) /\ rel = Dot(RelOf(root, p)) /\ push_full_path(root, rel) = p
             /\ ~listing.incomplete => \A p \in There(root) \ paths : Hidden(root, p)
<1>1. PICK F \in SUBSET DOMAIN tree :
        /\ Lists(listing.arena, NamesOf(root, F))
        /\ Frontier(root, F, {})
        /\ ~listing.incomplete => Complete(root, F, {})
  BY DEF Sighted
<1>2. \A p \in F : p \in DOMAIN tree /\ p \in There(root) /\ Below(root, p)
  BY <1>1 DEF Frontier, There
<1>3. \A p \in F : push_full_path(root, Dot(RelOf(root, p))) = p
  BY <1>2, PathFacts, RelLeadsBack
<1>4. IsInjective(iter(listing.arena)) /\ ToSet(iter(listing.arena)) = {Dot(RelOf(root, p)) : p \in F}
  BY <1>1 DEF Lists, NamesOf
<1>5. {push_full_path(root, rel) : rel \in ToSet(iter(listing.arena))} = F
  BY <1>3, <1>4
<1>6. ~listing.incomplete => \A p \in There(root) \ F : Hidden(root, p)
  BY <1>1 DEF Complete
<1> QED BY <1>2, <1>3, <1>4, <1>5, <1>6

\* When the listing is printed, each root's part of it holds the repositories of the root, each
\* once and nothing besides, and what it misses was hidden or was warned of: for any tree, roots
\* and exclusions, under either detection strategy and whatever descriptors run out
\* (sys.rs: read_dir, queue_child; mod.rs: walk_root; arena.rs: merge).
THEOREM EveryRootIsListed == ListSpec => []FindsWhatIsThere
<1>1. ListInv => FindsWhatIsThere
  <2> SUFFICES ASSUME ListInv, phase = "printed", NEW w \in DOMAIN roots
               PROVE  LET found == iter(listings[w].arena)
                          paths == {push_full_path(roots[w], rel) : rel \in ToSet(found)}
                      IN  /\ IsInjective(found)
                          /\ paths \subseteq There(roots[w])
                          /\ ~listings[w].incomplete => \A p \in There(roots[w]) \ paths : Hidden(roots[w], p)
    BY DEF FindsWhatIsThere
  <2>1. w \in 1..Len(listings) /\ w \in Finished /\ IsTree(tree) /\ Cleaned(roots[w])
    BY DEF ListInv, WorldInv, Finished
  <2>2. Sighted(roots[w], listings[w], {})
    BY <2>1 DEF ListInv
  <2> QED BY <2>1, <2>2, ListingHolds
<1> QED BY <1>1, InvHolds, PTL

-----------------------------------------------------------------------------
(* The name of a repository.                                               *)

\* root_prefix tells whether a root contains a path, and cuts off what the root accounts for.
LEMMA RootPrefixIs ==
  ASSUME NEW r, Cleaned(r), NEW p \in Text, Canonical(p)
  PROVE  /\ root_prefix(r, p) # NotUnder <=> Below(r, p)
         /\ Below(r, p) => After(p, root_prefix(r, p)) = RelOf(r, p)
<1>0. r \in Text /\ r # <<>> /\ Len(r) \in Nat /\ Len(p) \in Nat /\ Len(r) > 0 /\ (r = << "/" >> \/ Last(r) # "/")
  BY EmptySeq, SMT DEF Cleaned, Text
<1>1. IsPrefix(r, p) <=> Len(r) <= Len(p) /\ \A i \in 1..Len(r) : r[i] = p[i]
  BY <1>0, PrefixIs
<1>2. Below(r, p) <=> \/ r = p
                      \/ r = << "/" >>
                      \/ /\ Len(r) < Len(p) /\ p[Len(r) + 1] = "/"
                         /\ \A i \in 1..Len(r) : r[i] = p[i]
  BY BelowIs
<1>3. Last(r) = "/" <=> r = << "/" >>
  BY <1>0 DEF Last
<1>4. CASE ~IsPrefix(r, p)
  <2>1. root_prefix(r, p) = NotUnder
    BY <1>4 DEF root_prefix
  <2>2. r # p
    BY <1>0, <1>1, <1>4
  <2>3. r # << "/" >>
    <3>1. ASSUME r = << "/" >> PROVE FALSE
      <4>1. p[1] = "/" /\ Len(p) > 0
        BY CanonicalIsCleaned
      <4>2. Len(r) = 1 /\ r[1] = "/"
        BY <3>1
      <4> QED BY <1>0, <1>1, <1>4, <4>1, <4>2
    <3> QED BY <3>1
  <2> QED BY <1>0, <1>1, <1>2, <1>4, <2>1, <2>2, <2>3
<1>5. CASE IsPrefix(r, p) /\ Len(p) = Len(r)
  <2>1. r = p
    BY <1>0, <1>1, <1>5, SameText
  <2>2. root_prefix(r, p) = Len(p) /\ Len(p) # -1
    BY <1>0, <1>5 DEF root_prefix
  <2>3. After(p, Len(p)) = <<>>
    BY <1>0, TailIs, EmptySeq, SMT DEF After, Text
  <2> QED BY <1>2, <2>1, <2>2, <2>3 DEF RelOf, NotUnder
<1>6. CASE IsPrefix(r, p) /\ Len(p) # Len(r) /\ r = << "/" >>
  <2>1. root_prefix(r, p) = Len(r) /\ Len(r) # -1 /\ r # p
    BY <1>0, <1>3, <1>6 DEF root_prefix
  <2>2. Len(Prefix(r)) = Len(r)
    BY <1>6 DEF Prefix
  <2> QED BY <1>2, <1>6, <2>1, <2>2 DEF RelOf, NotUnder
<1>7. CASE IsPrefix(r, p) /\ Len(p) # Len(r) /\ r # << "/" >>
  <2>1. root_prefix(r, p) = IF p[Len(r) + 1] = "/" THEN Len(r) + 1 ELSE NotUnder
    BY <1>0, <1>3, <1>7 DEF root_prefix
  <2>2. Len(Prefix(r)) = Len(r) + 1 /\ r # p
    BY <1>7, PrefixLength
  <2>3. Len(r) < Len(p)
    BY <1>0, <1>1, <1>7
  <2> QED BY <1>0, <1>1, <1>2, <1>7, <2>1, <2>2, <2>3 DEF RelOf, NotUnder
<1> QED BY <1>4, <1>5, <1>6, <1>7

\* The first root that contains the path p.
FirstRoot(i, p) ==
  /\ i \in 1..Len(roots) /\ Below(roots[i], p)
  /\ \A j \in 1..Len(roots) : Below(roots[j], p) => i <= j

\* Each repository of the listing is named by the first root that contains it.
LEMMA NamesAre ==
  ASSUME ListInv, phase \in {"root", "printed"}, NEW r \in name_repositories
  PROVE  /\ r.abs \in DOMAIN tree
         /\ \E i \in 1..Len(roots) : /\ FirstRoot(i, r.abs)
                                     /\ r.rel = Dot(RelOf(roots[i], r.abs))
                                     /\ r.under_primary <=> i = 1
<1>1. PICK w \in DOMAIN listings : \E rel \in ToSet(iter(listings[w].arena)) : r = Naming(w, push_full_path(roots[w], rel))
  BY DEF name_repositories
<1>1a. PICK rel \in ToSet(iter(listings[w].arena)) : r = Naming(w, push_full_path(roots[w], rel))
  BY <1>1
<1> DEFINE p == push_full_path(roots[w], rel)
           S == {i \in 1..w : root_prefix(roots[i], p) # NotUnder}
           m == Min(S)
<1>2. /\ w \in 1..Len(listings) /\ w \in Finished /\ IsTree(tree)
      /\ w \in 1..Len(roots) /\ Len(roots) \in Nat /\ w \in Nat
      /\ \A i \in 1..Len(roots) : Cleaned(roots[i])
  BY DEF ListInv, WorldInv, Finished
<1>3. p \in DOMAIN tree /\ Below(roots[w], p)
  <2>1. Sighted(roots[w], listings[w], {})
    BY <1>2 DEF ListInv
  <2> QED BY <1>2, <2>1, ListingHolds
<1>4. r.abs = p /\ r.rel = Dot(After(p, root_prefix(roots[m], p))) /\ (r.under_primary <=> m = 1)
  BY <1>1a DEF Naming, Named, Dot
<1> HIDE DEF p
<1>5. p \in Text /\ Canonical(p)
  BY <1>2, <1>3, PathFacts
<1>6. \A i \in 1..Len(roots) : /\ root_prefix(roots[i], p) # NotUnder <=> Below(roots[i], p)
                               /\ Below(roots[i], p) => After(p, root_prefix(roots[i], p)) = RelOf(roots[i], p)
  BY <1>2, <1>5, RootPrefixIs
<1>7. S \in SUBSET Nat /\ w \in S
  BY <1>2, <1>3, <1>6
<1>8. m \in S /\ \A y \in S : m <= y
  <2> HIDE DEF S
  <2> QED BY <1>7, LeastNumber
<1>9. m \in 1..w /\ Below(roots[m], p) /\ m \in 1..Len(roots) /\ m \in Nat
  BY <1>2, <1>6, <1>8
<1>10. FirstRoot(m, p)
  <2>1. ASSUME NEW j \in 1..Len(roots), Below(roots[j], p) PROVE m <= j
    <3>1. CASE j <= w
      <4>1. j \in S
        BY <1>2, <1>6, <2>1, <3>1
      <4> QED BY <1>8, <4>1
    <3>2. CASE j > w
      BY <1>2, <1>9, <3>2
    <3> QED BY <1>2, <3>1, <3>2
  <2> QED BY <1>9, <2>1 DEF FirstRoot
<1> HIDE DEF m
<1> QED BY <1>3, <1>4, <1>6, <1>9, <1>10

\* A listed repository has one name: the tail of its path below the first of the roots that
\* contains it, however the roots lie in each other (list.rs: root_prefix, name_repositories).
THEOREM OneName == ListSpec => []OneNameEach
<1>1. ListInv => OneNameEach
  <2> SUFFICES ASSUME ListInv, phase = "printed", NEW r \in name_repositories
               PROVE  LET first == Min({i \in DOMAIN roots : \E p \in Steps(<< "/" >>, r.abs) \cup {r.abs} : p = roots[i]})
                      IN  /\ push_full_path(roots[first], r.rel) = r.abs
                          /\ r.under_primary <=> first = 1
    BY DEF OneNameEach
  <2> DEFINE T == {i \in DOMAIN roots : \E p \in Steps(<< "/" >>, r.abs) \cup {r.abs} : p = roots[i]}
  <2>1. /\ IsTree(tree) /\ DOMAIN roots = 1..Len(roots) /\ Len(roots) \in Nat
        /\ \A i \in 1..Len(roots) : Cleaned(roots[i])
    BY DEF ListInv, WorldInv
  <2>2. PICK i \in 1..Len(roots) : /\ FirstRoot(i, r.abs)
                                   /\ r.rel = Dot(RelOf(roots[i], r.abs))
                                   /\ r.under_primary <=> i = 1
    BY NamesAre
  <2>3. r.abs \in DOMAIN tree /\ r.abs \in Text /\ Canonical(r.abs)
    BY <2>1, NamesAre, PathFacts
  <2>4. \A j \in 1..Len(roots) : j \in T <=> Below(roots[j], r.abs)
    <3>1. ASSUME NEW j \in 1..Len(roots), Below(roots[j], r.abs), roots[j] # r.abs
          PROVE  roots[j] \in Steps(<< "/" >>, r.abs)
      <4>1. roots[j] \in DOMAIN tree
        BY <2>1, <2>3, <3>1, AboveIsThere
      <4>2. Below(<< "/" >>, roots[j])
        <5>1. Cleaned(<< "/" >>)
          BY DEF Cleaned, Text, Token
        <5> QED BY <2>1, <4>1, <5>1, PathFacts, BelowIs
      <4> QED BY <3>1, <4>1, <4>2 DEF Steps
    <3>2. ASSUME NEW j \in 1..Len(roots), roots[j] \in Steps(<< "/" >>, r.abs) PROVE Below(roots[j], r.abs)
      BY <3>2 DEF Steps
    <3>3. Below(r.abs, r.abs)
      BY DEF Below
    <3> QED BY <2>1, <3>1, <3>2, <3>3
  <2>5. i \in T /\ T \in SUBSET Nat /\ T \subseteq 1..Len(roots)
    BY <2>1, <2>2, <2>4 DEF FirstRoot
  <2> HIDE DEF T
  <2>6. Min(T) \in T /\ \A y \in T : Min(T) <= y
    BY <2>5, LeastNumber
  <2>7. Min(T) = i
    <3>1. Min(T) <= i /\ i <= Min(T) /\ i \in Nat /\ Min(T) \in Nat
      BY <2>2, <2>4, <2>5, <2>6 DEF FirstRoot
    <3> QED BY <3>1
  <2>8. push_full_path(roots[i], r.rel) = r.abs
    BY <2>1, <2>2, <2>3, RelLeadsBack DEF FirstRoot
  <2> QED BY <2>2, <2>7, <2>8 DEF T
<1> QED BY <1>1, InvHolds, PTL

-----------------------------------------------------------------------------
(* What the lines say of the repositories.                                 *)

\* A name is not empty and does not end in a separator.
IsName(rel) == rel \in Text /\ rel # <<>> /\ Last(rel) # "/"

LEMMA NamesAreNames ==
  ASSUME ListInv, phase \in {"root", "printed"}, NEW r \in name_repositories
  PROVE  IsName(r.rel)
<1>1. IsTree(tree) /\ \A i \in 1..Len(roots) : Cleaned(roots[i])
  BY DEF ListInv, WorldInv
<1>2. PICK i \in 1..Len(roots) : Below(roots[i], r.abs) /\ r.rel = Dot(RelOf(roots[i], r.abs))
  BY NamesAre DEF FirstRoot
<1> DEFINE p == r.abs
           root == roots[i]
           rel == RelOf(root, p)
<1>3. p \in Text /\ Canonical(p) /\ Cleaned(p) /\ Cleaned(root) /\ Below(root, p)
  BY <1>1, <1>2, NamesAre, PathFacts
<1> HIDE DEF p, root
<1>4. rel \in Text /\ (rel = <<>> <=> p = root) /\ (p # root => Last(rel) = Last(p))
  BY <1>3, RelLeadsBack
<1>5. CASE p = root
  <2>1. Dot(rel) = << "." >>
    BY <1>4, <1>5 DEF Dot
  <2>2. << "." >> \in Text /\ << "." >> # <<>> /\ Last(<< "." >>) # "/"
    BY DEF Text, Token, Last
  <2> QED BY <1>2, <2>1, <2>2 DEF IsName, p, root
<1>6. CASE p # root
  <2>1. p # << "/" >>
    BY <1>3, <1>6, RootHasNoneAbove
  <2>2. Last(p) # "/"
    BY <1>3, <2>1 DEF Cleaned
  <2>3. Dot(rel) = rel /\ IsName(rel)
    BY <1>4, <1>6, <2>2 DEF Dot, IsName
  <2> QED BY <1>2, <2>3 DEF p, root
<1> QED BY <1>5, <1>6

\* The tails of a name: the name itself, and none of them empty.
LEMMA TailsAre ==
  ASSUME NEW rel, IsName(rel)
  PROVE  /\ rel \in subpaths(rel)
         /\ \A t \in subpaths(rel) : t \in Text /\ t # <<>>
<1>1. rel \in Text /\ Len(rel) \in Nat /\ Len(rel) > 0 /\ rel[Len(rel)] # "/" /\ DOMAIN rel = 1..Len(rel)
  BY EmptySeq, SMT DEF IsName, Text, Last
<1>2. After(rel, 0) = rel
  <2>1. 0 \in 0..Len(rel)
    BY <1>1
  <2>2. After(rel, 0) \in Text /\ Len(After(rel, 0)) = Len(rel) /\ \A i \in 1..Len(rel) : After(rel, 0)[i] = rel[i]
    BY <1>1, <2>1, TailIs DEF After
  <2> QED BY <1>1, <2>2, SameText
<1>3. ASSUME NEW i \in {0} \cup {j \in DOMAIN rel : rel[j] = "/"}
      PROVE  After(rel, i) \in Text /\ After(rel, i) # <<>>
  <2>1. i \in 0..Len(rel) /\ i # Len(rel)
    <3>1. CASE i = 0
      BY <1>1, <3>1
    <3>2. CASE i \in 1..Len(rel) /\ rel[i] = "/"
      <4>1. i # Len(rel)
        <5>1. SUFFICES ASSUME i = Len(rel) PROVE rel[Len(rel)] = "/"
          BY <1>1
        <5>2. rel[i] = "/"
          BY <3>2
        <5> QED BY <5>1, <5>2
      <4>2. i \in 0..Len(rel)
        BY <1>1, <3>2
      <4> QED BY <4>1, <4>2
    <3> QED BY <1>1, <1>3, <3>1, <3>2
  <2>2. After(rel, i) \in Text /\ Len(After(rel, i)) = Len(rel) - i
    BY <1>1, <2>1, TailIs DEF After
  <2>3. Len(rel) - i > 0
    <3> DEFINE n == Len(rel)
    <3>1. n \in Nat /\ i \in 0..n /\ i # n
      BY <1>1, <2>1
    <3> HIDE DEF n
    <3>2. n - i > 0
      BY <3>1
    <3> QED BY <3>2 DEF n
  <2>4. Len(After(rel, i)) # 0
    BY <2>2, <2>3, SMT
  <2> QED BY <2>2, <2>4, EmptySeq
<1> QED BY <1>2, <1>3 DEF subpaths

LEMMA NamesAreFew ==
  ASSUME ListInv, phase = "printed"
  PROVE  IsFiniteSet(name_repositories)
<1> DEFINE Of(w) == {Naming(w, push_full_path(roots[w], rel)) : rel \in ToSet(iter(listings[w].arena))}
<1>1. ASSUME NEW w \in DOMAIN listings PROVE IsFiniteSet(Of(w))
  <2>1. w \in Finished
    BY <1>1 DEF Finished, ListInv
  <2>2. PICK F \in SUBSET DOMAIN tree : Lists(listings[w].arena, NamesOf(roots[w], F))
    BY <2>1 DEF ListInv, Sighted
  <2>3. IsFiniteSet(F)
    BY <2>2, FS_Subset DEF ListInv, WorldInv, IsTree
  <2> DEFINE name == [p \in F |-> Naming(w, push_full_path(roots[w], Dot(RelOf(roots[w], p))))]
  <2>4. Of(w) = {name[p] : p \in F}
    BY <2>2 DEF Lists, NamesOf
  <2> HIDE DEF Of
  <2>5. name \in Surjection(F, Of(w))
    BY <2>4 DEF Surjection
  <2> QED BY <2>3, <2>5, FS_Surjection
<1>2. IsFiniteSet({Of(w) : w \in DOMAIN listings})
  <2> HIDE DEF Of
  <2>1. DOMAIN listings = 1..Len(listings) /\ Len(listings) \in Nat
    BY DEF ListInv
  <2>2. IsFiniteSet(DOMAIN listings)
    BY <2>1, FS_Interval
  <2> DEFINE all == [w \in DOMAIN listings |-> Of(w)]
  <2>3. all \in Surjection(DOMAIN listings, {Of(w) : w \in DOMAIN listings})
    BY DEF Surjection
  <2> QED BY <2>2, <2>3, FS_Surjection
<1>3. name_repositories = UNION {Of(w) : w \in DOMAIN listings}
  BY DEF name_repositories
<1> HIDE DEF Of
<1> QED BY <1>1, <1>2, <1>3, FS_UNION

\* A tail that one name only has means that name.
LEMMA UniqueTailsMeanOne ==
  ASSUME NEW repos, IsFiniteSet(repos), NEW s \in repos, NEW t \in UniqueTails(repos, s.rel)
  PROVE  \A r \in repos : t \in subpaths(r.rel) => r.rel = s.rel
<1> DEFINE rels == {r.rel : r \in repos}
           S == {rel \in rels : t \in subpaths(rel)}
<1>1. IsFiniteSet(S)
  <2> DEFINE name == [r \in repos |-> r.rel]
  <2>1. name \in Surjection(repos, rels)
    BY DEF Surjection
  <2>2. IsFiniteSet(rels)
    BY <2>1, FS_Surjection
  <2> QED BY <2>2, FS_Subset
<1>2. Cardinality(S) = 1 /\ s.rel \in S
  BY DEF UniqueTails, subpath_count
<1>3. PICK x : S = {x}
  <2> HIDE DEF S
  <2> QED BY <1>1, <1>2, FS_Singleton
<1>4. ASSUME NEW r \in repos, t \in subpaths(r.rel) PROVE r.rel \in S
  BY <1>4
<1> QED BY <1>2, <1>3, <1>4

\* A name without a tail of its own is the tail of another name.
LEMMA NoTailOfItsOwn ==
  ASSUME NEW repos, NEW r \in repos, r.rel \in subpaths(r.rel), UniqueTails(repos, r.rel) = {}
  PROVE  \E s \in repos : s.rel # r.rel /\ r.rel \in subpaths(s.rel)
<1> DEFINE S == {rel \in {s.rel : s \in repos} : r.rel \in subpaths(rel)}
<1>1. SUFFICES ASSUME \A s \in repos : r.rel \in subpaths(s.rel) => s.rel = r.rel PROVE FALSE
  OBVIOUS
<1>2. S = {r.rel}
  BY <1>1
<1>3. Cardinality(S) = 1
  BY <1>2, FS_Singleton
<1> QED BY <1>3 DEF UniqueTails, subpath_count

\* The line of --unique for a repository is one of the tails that only its name has.
LEMMA ShortestIsATail ==
  ASSUME NEW U, U \subseteq Text, U # {}
  PROVE  (CHOOSE p \in U : \A q \in U : Len(p) <= Len(q)) \in U
<1> DEFINE N == {Len(p) : p \in U}
<1>1. N \in SUBSET Nat /\ N # {}
  <2>1. \A p \in U : Len(p) \in Nat
    BY DEF Text
  <2> QED BY <2>1
<1>2. Min(N) \in N /\ \A y \in N : Min(N) <= y
  <2> HIDE DEF N
  <2> QED BY <1>1, LeastNumber
<1>3. PICK p \in U : Min(N) = Len(p)
  BY <1>2
<1>4. \A q \in U : Len(p) <= Len(q)
  BY <1>2, <1>3
<1> QED BY <1>4

\* A name with a host in front finds itself.
LEMMA HostFindsItself ==
  ASSUME NEW rel, IsName(rel), Has(rel, "/"), looks_like_pattern(host_component(rel))
  PROVE  MatchesQuery(rel, split_authority_prefix(rel))
<1> DEFINE q == non_host_path(rel)
<1>1. split_authority_prefix(rel) = [host |-> host_component(rel), q |-> q]
  BY DEF split_authority_prefix, host_component
<1>2. q \in Text
  <2>1. rel \in Text /\ Len(rel) \in Nat
    BY DEF IsName, Text
  <2>2. Find(rel, "/") \in 1..Len(rel)
    BY <2>1, FindIs DEF Has
  <2>3. Find(rel, "/") \in 0..Len(rel)
    BY <2>1, <2>2
  <2> QED BY <2>1, <2>3, TailIs DEF non_host_path, After
<1> HIDE DEF q
<1>3. FoundIn(q, q)
  <2>1. Len(q) \in Nat /\ SubSeq(q, 1, Len(q)) = q
    BY <1>2 DEF Text
  <2>2. 0 \in 0..(Len(q) - Len(q)) /\ 0 + 1 = 1 /\ 0 + Len(q) = Len(q)
    BY <2>1
  <2> QED BY <2>1, <2>2 DEF FoundIn
<1>4. MatchesFolded(q, q)
  BY <1>3 DEF MatchesFolded
<1> QED BY <1>1, <1>4 DEF MatchesQuery, q

\* The lines of format_unique: for each repository kept, a tail that only its name has.
LEMMA UniqueLinesAre ==
  ASSUME NEW repos, \A r \in repos : IsName(r.rel)
  PROVE  /\ \A o \in format_unique(repos) : o[2] \in repos /\ o[1] \in UniqueTails(repos, o[2].rel)
         /\ \A r \in repos : UniqueTails(repos, r.rel) # {} /\ (repos_count(repos, r.rel) > 1 => r.under_primary) =>
                               \E o \in format_unique(repos) : o[2] = r
<1> DEFINE kept == {r \in repos : /\ repos_count(repos, r.rel) > 1 => r.under_primary
                                  /\ UniqueTails(repos, r.rel) # {}}
           shortest(r) == CHOOSE p \in UniqueTails(repos, r.rel) : \A q \in UniqueTails(repos, r.rel) : Len(p) <= Len(q)
<1>1. format_unique(repos) = {<< shortest(r), r >> : r \in kept}
  BY DEF format_unique
<1>2. ASSUME NEW r \in kept PROVE shortest(r) \in UniqueTails(repos, r.rel)
  <2> DEFINE U == UniqueTails(repos, r.rel)
  <2>1. U # {} /\ IsName(r.rel)
    BY <1>2
  <2>2. U \subseteq Text
    BY <2>1, TailsAre DEF UniqueTails
  <2> HIDE DEF U
  <2>3. (CHOOSE p \in U : \A q \in U : Len(p) <= Len(q)) \in U
    BY <2>1, <2>2, ShortestIsATail
  <2> QED BY <2>3 DEF U
<1>3. ASSUME NEW o \in format_unique(repos) PROVE o[2] \in repos /\ o[1] \in UniqueTails(repos, o[2].rel)
  <2>1. PICK r \in kept : o = << shortest(r), r >>
    BY <1>1, <1>3
  <2> HIDE DEF shortest
  <2> QED BY <1>2, <2>1
<1>4. ASSUME NEW r \in repos, UniqueTails(repos, r.rel) # {}, repos_count(repos, r.rel) > 1 => r.under_primary
      PROVE  \E o \in format_unique(repos) : o[2] = r
  <2>1. r \in kept
    BY <1>4
  <2> HIDE DEF shortest, kept
  <2>2. << shortest(r), r >> \in format_unique(repos) /\ << shortest(r), r >>[2] = r
    BY <1>1, <2>1
  <2> QED BY <2>2
<1> QED BY <1>3, <1>4

\* A line that is printed finds its repository again: given to --exact, and with a host in front
\* also as a query; a line of --unique finds no other.  A repository that --unique leaves out has
\* a name that is the tail of another's or that was met twice outside the primary root, whatever
\* the tree, the roots and the query (list.rs: format_unique, filter_repos, subpath_count).
THEOREM LinesFindTheirOwn == ListSpec => []LinesLeadBack
<1>1. ListInv => LinesLeadBack
  <2> DEFINE all == name_repositories
             exactly(l) == filter_repos(all, TRUE, l)
             F == filter_repos(all, args.exact, args.query)
  <2> SUFFICES ASSUME ListInv, phase = "printed", ~args.full_path
               PROVE  /\ \A o \in out : o[2] \in exactly(o[1])
                      /\ args.unique /\ args.query = <<>> =>
                           \A o \in out : {r.rel : r \in exactly(o[1])} = {o[2].rel}
                      /\ ~args.unique => \A o \in out : looks_like_pattern(host_component(o[1])) /\ Has(o[1], "/") =>
                                            o[2] \in filter_repos(all, FALSE, o[1])
                      /\ args.unique /\ args.query = <<>> => \A r \in all \ {o[2] : o \in out} :
                           \/ \E s \in all : s.rel # r.rel /\ r.rel \in subpaths(s.rel)
                           \/ ~r.under_primary /\ repos_count(all, r.rel) > 1
    BY DEF LinesLeadBack
  <2>1. out = Lines(F, args) /\ F \subseteq all /\ (args.query = <<>> => F = all)
    BY DEF ListInv, filter_repos
  <2>2. IsFiniteSet(all) /\ \A r \in all : IsName(r.rel)
    BY NamesAreFew, NamesAreNames
  <2> HIDE DEF F, all
  <2>3. \A r \in all : /\ r.rel \in Text /\ r.rel # <<>> /\ r.rel \in subpaths(r.rel)
                       /\ \A t \in subpaths(r.rel) : t # <<>>
    BY <2>2, TailsAre DEF IsName
  <2>4. \A l : l # <<>> => exactly(l) = {r \in all : l \in subpaths(r.rel)}
    BY DEF filter_repos
  <2>5. CASE args.unique
    <3>1. /\ \A o \in out : o[2] \in F /\ o[1] \in UniqueTails(F, o[2].rel)
          /\ \A r \in F : UniqueTails(F, r.rel) # {} /\ (repos_count(F, r.rel) > 1 => r.under_primary) =>
                            \E o \in out : o[2] = r
      <4>1. out = format_unique(F) /\ \A r \in F : IsName(r.rel)
        BY <2>1, <2>2, <2>5 DEF Lines
      <4> QED BY <4>1, UniqueLinesAre
    <3>2. ASSUME NEW o \in out
          PROVE  o[1] \in subpaths(o[2].rel) /\ o[2] \in all /\ o[1] # <<>> /\ o[2] \in exactly(o[1])
      <4>1. o[1] \in subpaths(o[2].rel) /\ o[2] \in all
        BY <2>1, <3>1, <3>2 DEF UniqueTails
      <4> QED BY <2>3, <2>4, <4>1
    <3>3. ASSUME args.query = <<>>, NEW o \in out PROVE {r.rel : r \in exactly(o[1])} = {o[2].rel}
      <4>1. o[1] \in UniqueTails(all, o[2].rel) /\ o[2] \in all
        BY <2>1, <3>1, <3>3
      <4>2. \A r \in all : o[1] \in subpaths(r.rel) => r.rel = o[2].rel
        BY <2>2, <4>1, UniqueTailsMeanOne
      <4> QED BY <2>4, <3>2, <4>2
    <3>4. ASSUME args.query = <<>>, NEW r \in all \ {o[2] : o \in out}
          PROVE  \/ \E s \in all : s.rel # r.rel /\ r.rel \in subpaths(s.rel)
                 \/ ~r.under_primary /\ repos_count(all, r.rel) > 1
      <4>1. UniqueTails(all, r.rel) = {} \/ ~(repos_count(all, r.rel) > 1 => r.under_primary)
        BY <2>1, <3>1, <3>4
      <4>2. CASE UniqueTails(all, r.rel) = {}
        BY <2>3, <4>2, NoTailOfItsOwn
      <4> QED BY <4>1, <4>2
    <3> QED BY <2>5, <3>2, <3>3, <3>4
  <2>6. CASE ~args.unique
    <3>1. ASSUME NEW o \in out PROVE o[1] = o[2].rel /\ o[2] \in all
      <4>1. out = {<< r.rel, r >> : r \in F}
        BY <2>1, <2>6 DEF Lines
      <4> QED BY <2>1, <3>1, <4>1
    <3>2. ASSUME NEW o \in out PROVE o[2] \in exactly(o[1])
      BY <2>3, <2>4, <3>1, <3>2
    <3>3. ASSUME NEW o \in out, looks_like_pattern(host_component(o[1])) /\ Has(o[1], "/")
          PROVE  o[2] \in filter_repos(all, FALSE, o[1])
      <4>1. MatchesQuery(o[2].rel, split_authority_prefix(o[1]))
        BY <2>2, <3>1, <3>3, HostFindsItself
      <4>2. o[1] # <<>>
        BY <2>3, <3>1
      <4> QED BY <3>1, <4>1, <4>2 DEF filter_repos
    <3> QED BY <2>6, <3>2, <3>3
  <2> QED BY <2>5, <2>6
<1> QED BY <1>1, InvHolds, PTL
=============================================================================
