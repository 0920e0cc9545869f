-------------------------- MODULE MatchersVisitProofs --------------------------
(***************************************************************************)
(* Matcher correctness (specification, section 8.2), for every set of      *)
(* components, every depth, every input set and every insertion order:     *)
(* once a constructor has returned, the traversal guided by visit reaches  *)
(* a file exactly when the matcher matches it.                             *)
(*                                                                         *)
(* The argument rests on BuildMatchesReference: a built index is the       *)
(* reference index of the inputs, so visit(d) of a FilesMatcher lists the  *)
(* next components of the input files' parents below d and the basenames  *)
(* of the input files in d.  A matched file is reached along its own       *)
(* ancestors; a reached file is an input, because a file is fixed by its   *)
(* parent and its basename.  For PrefixMatcher the walk stops at the       *)
(* shallowest ancestor of the file that is a prefix, found with the        *)
(* least-number principle (WFMin on the naturals).                         *)
(***************************************************************************)
EXTENDS MatchersVisit, MatchersBuildProofs, WellFoundedInduction

USE ComponentsAssumption, MaxDepthAssumption, RootFileInputAssumption

-----------------------------------------------------------------------------
(* Lemmas about paths.                                                     *)

\* A nonempty set of naturals has a least element.
LEMMA LeastElement ==
    ASSUME NEW T \in SUBSET Nat, T # {}
    PROVE  \E k \in T : \A j \in T : k <= j
<1>1. PICK x \in T : \A y \in T : ~(<< y, x >> \in OpToRel(<, Nat))
  BY NatLessThanWellFounded, WFMin
<1>2. \A y \in T : ~(y < x)
  BY <1>1, Zenon DEF OpToRel
<1>. QED
  BY <1>2

\* A path other than the root is fixed by its parent and its basename.
LEMMA SplitPathInjective ==
    ASSUME NEW f \in Seq(Components), NEW g \in Seq(Components),
           f # Root, g # Root, SplitPath(f) = SplitPath(g)
    PROVE  f = g
<1>1. Len(f) \in 1..Len(f) /\ Len(g) \in 1..Len(g)
  BY EmptySeq DEF Root
<1>2. /\ SubSeq(f, 1, Len(f) - 1) = SubSeq(g, 1, Len(g) - 1)
      /\ f[Len(f)] = g[Len(g)]
  BY DEF SplitPath
<1>3. Len(f) - 1 = Len(g) - 1
  BY <1>1, <1>2, PrefixFacts
<1>4. ASSUME NEW i \in 1..Len(f) PROVE f[i] = g[i]
  <2>1. CASE i = Len(f)
    BY <1>2, <1>3, <2>1
  <2>2. CASE i < Len(f)
    <3>1. i \in 1..(Len(f) - 1) /\ Len(f) - 1 \in 0..Len(f) /\ Len(g) - 1 \in 0..Len(g)
      BY <1>1, <2>2
    <3>2. SubSeq(f, 1, Len(f) - 1)[i] = f[i] /\ SubSeq(g, 1, Len(g) - 1)[i] = g[i]
      BY <1>3, <3>1, PrefixFacts
    <3>. QED
      BY <1>2, <3>2
  <2>. QED
    BY <2>1, <2>2
<1>. QED
  BY <1>1, <1>3, <1>4, SeqEqual

\* A built index, read back at any directory, is the reference index of
\* the inputs.
LEMMA BuiltIndex ==
    ASSUME BInv, Built, kind \in {"files", "prefix"}, NEW d \in Seq(Components)
    PROVE  /\ Entry(dirs.dirs, d) = ChildDirs(DirsOf(input), d)
           /\ Entry(dirs.files, d) = ChildFiles(FilesOf(input), d)
<1>1. Done = input /\ ~dirs.panicked
  BY DEF Built, Done
<1>2. DirsAreRef(dirs, DirsOf(input)) /\ FilesAreRef(dirs, FilesOf(input))
  BY <1>1 DEF BInv
<1>3. DirsOf(input) \in SUBSET Seq(Components)
  <2>1. input \in SUBSET PathsUpTo(MaxDepth) /\ (kind = "files" => Root \notin input)
    BY <1>1 DEF BInv, TypeOK
  <2>. QED
    BY <1>2, <2>1, RefBound
<1>4. Entry(dirs.dirs, d) = ChildDirs(DirsOf(input), d)
  <2>1. CASE d \in DOMAIN dirs.dirs
    BY <1>2, <2>1 DEF Entry, DirsAreRef
  <2>2. CASE d \notin DOMAIN dirs.dirs
    <3>1. ChildDirs(DirsOf(input), d) = {}
      BY <1>2, <1>3, <2>2, ChildDirsOutside DEF DirsAreRef
    <3>. QED
      BY <2>2, <3>1 DEF Entry
  <2>. QED
    BY <2>1, <2>2
<1>5. Entry(dirs.files, d) = ChildFiles(FilesOf(input), d)
  <2>1. CASE d \in DOMAIN dirs.files
    BY <1>2, <2>1 DEF Entry, FilesAreRef
  <2>2. CASE d \notin DOMAIN dirs.files
    BY <1>2, <2>2 DEF Entry, FilesAreRef, ChildFiles
  <2>. QED
    BY <2>1, <2>2
<1>. QED
  BY <1>4, <1>5

-----------------------------------------------------------------------------
(* The built matcher.                                                      *)

\* Matcher correctness for files of any depth: the property checked on
\* the small instance, for every file rather than those of bounded depth.
MatcherCorrect ==
    Built => \A f \in Seq(Components) \ {Root} :
                 Matches(Matcher, f) <=> WalkReaches(Matcher, f)

\* The index-backed visit of a built FilesMatcher or PrefixMatcher.
RefVisit(d) == VisitSome(ChildDirs(DirsOf(input), d), ChildFiles(FilesOf(input), d))

\* The matcher a constructor returns, for each kind.
LEMMA MatcherValue ==
    ASSUME kind \in Kinds
    PROVE  /\ kind = "files" => Matcher = [kind |-> "files", files |-> input, dirs |-> dirs]
           /\ kind = "prefix" => Matcher = [kind |-> "prefix", prefixes |-> input, dirs |-> dirs]
           /\ kind \in {"nothing", "everything"} => Matcher = [kind |-> kind]
BY DEF Matcher, Kinds

\* What visit and matches of the matcher a constructor returns answer.
LEMMA BuiltVisit ==
    ASSUME BInv, Built, NEW d \in Seq(Components)
    PROVE  /\ kind = "nothing" => Visit(Matcher, d) = VisitNothing
           /\ kind = "everything" => Visit(Matcher, d) = AllRecursively
           /\ kind = "files" => Visit(Matcher, d) = RefVisit(d)
           /\ kind = "prefix" =>
                Visit(Matcher, d) = IF PrefixMatches(input, d) THEN AllRecursively
                                    ELSE RefVisit(d)
<1>1. kind \in Kinds
  BY DEF BInv, TypeOK
<1>2. CASE kind \in {"nothing", "everything"}
  <2>1. Matcher = [kind |-> kind]
    BY <1>1, <1>2, MatcherValue
  <2>. QED
    BY <1>2, <2>1 DEF Visit
<1>3. CASE kind = "files"
  <2>. DEFINE M == [kind |-> "files", files |-> input, dirs |-> dirs]
  <2>1. Matcher = M
    BY <1>1, <1>3, MatcherValue
  <2>2. Visit(M, d) = VisitSome(GetDirs(dirs, d), GetFiles(dirs, d))
    BY DEF Visit, FilesVisit
  <2>3. GetDirs(dirs, d) = ChildDirs(DirsOf(input), d)
        /\ GetFiles(dirs, d) = ChildFiles(FilesOf(input), d)
    BY <1>3, BuiltIndex DEF GetDirs, GetFiles
  <2>. QED
    BY <1>3, <2>1, <2>2, <2>3 DEF RefVisit
<1>4. CASE kind = "prefix"
  <2>. DEFINE M == [kind |-> "prefix", prefixes |-> input, dirs |-> dirs]
  <2>1. Matcher = M
    BY <1>1, <1>4, MatcherValue
  <2>2. Visit(M, d) = IF PrefixMatches(input, d) THEN AllRecursively
                      ELSE VisitSome(GetDirs(dirs, d), GetFiles(dirs, d))
    BY DEF Visit, PrefixVisit
  <2>3. GetDirs(dirs, d) = ChildDirs(DirsOf(input), d)
        /\ GetFiles(dirs, d) = ChildFiles(FilesOf(input), d)
    BY <1>4, BuiltIndex DEF GetDirs, GetFiles
  <2>. QED
    BY <1>4, <2>1, <2>2, <2>3 DEF RefVisit
<1>. QED
  BY <1>2, <1>3, <1>4

LEMMA BuiltMatches ==
    ASSUME BInv, NEW f
    PROVE  /\ kind = "nothing" => ~Matches(Matcher, f)
           /\ kind = "everything" => Matches(Matcher, f)
           /\ kind = "files" => (Matches(Matcher, f) <=> f \in input)
           /\ kind = "prefix" => (Matches(Matcher, f) <=> PrefixMatches(input, f))
<1>1. kind \in Kinds
  BY DEF BInv, TypeOK
<1>2. CASE kind \in {"nothing", "everything"}
  <2>1. Matcher = [kind |-> kind]
    BY <1>1, <1>2, MatcherValue
  <2>. QED
    BY <1>2, <2>1 DEF Matches
<1>3. CASE kind = "files"
  <2>1. Matcher = [kind |-> "files", files |-> input, dirs |-> dirs]
    BY <1>1, <1>3, MatcherValue
  <2>. QED
    BY <1>3, <2>1 DEF Matches, FilesMatches
<1>4. CASE kind = "prefix"
  <2>1. Matcher = [kind |-> "prefix", prefixes |-> input, dirs |-> dirs]
    BY <1>1, <1>4, MatcherValue
  <2>. QED
    BY <1>4, <2>1 DEF Matches
<1>. QED
  BY <1>1, <1>2, <1>3, <1>4 DEF Kinds

\* The inputs are paths of components; when built, the root is not among
\* FilesMatcher's.
LEMMA BuiltInputs ==
    ASSUME BInv, Built
    PROVE  /\ input \in SUBSET Seq(Components)
           /\ kind = "files" => Root \notin input
<1>1. input \in SUBSET PathsUpTo(MaxDepth)
  BY DEF BInv, TypeOK
<1>2. PathsUpTo(MaxDepth) = {q \in Seq(Components) : Len(q) <= MaxDepth}
  BY PathsUpToSeq
<1>3. kind = "files" => Root \notin input
  BY DEF BInv, Built, Done
<1>. QED
  BY <1>1, <1>2, <1>3

\* The file f is listed in the visit of its parent exactly when it is a
\* file of the reference index.
LEMMA ListedFile ==
    ASSUME BInv, Built, NEW f \in Seq(Components), f # Root
    PROVE  f[Len(f)] \in ChildFiles(FilesOf(input), SubSeq(f, 1, Len(f) - 1))
             <=> f \in FilesOf(input)
<1>1. SplitPath(f) = << SubSeq(f, 1, Len(f) - 1), f[Len(f)] >>
  BY DEF SplitPath
<1>2. ASSUME NEW g \in FilesOf(input),
             SplitPath(g)[1] = SubSeq(f, 1, Len(f) - 1), SplitPath(g)[2] = f[Len(f)]
      PROVE  g = f
  <2>1. g \in Seq(Components) /\ g # Root
    BY BuiltInputs DEF FilesOf
  <2>2. SplitPath(g) = SplitPath(f)
    BY <1>1, <1>2 DEF SplitPath
  <2>. QED
    BY <2>1, <2>2, SplitPathInjective
<1>. QED
  BY <1>1, <1>2 DEF ChildFiles

-----------------------------------------------------------------------------
(* Correctness of each matcher.                                            *)

\* The walk of WalkReaches ends at the ancestor of f at depth i.
WalkAt(m, f, i) ==
    LET V(k) == Visit(m, SubSeq(f, 1, k))
    IN  /\ \A j \in 0..(i - 1) : V(j).tag = "some" /\ f[j + 1] \in V(j).dirs
        /\ \/ V(i).tag = "all"
           \/ i = Len(f) - 1 /\ V(i).tag = "some" /\ f[Len(f)] \in V(i).files

LEMMA WalkReachesDef ==
    ASSUME NEW m, NEW f
    PROVE  WalkReaches(m, f) <=> \E i \in 0..(Len(f) - 1) : WalkAt(m, f, i)
BY DEF WalkReaches, WalkAt

\* The ancestors of a path are paths of the length they are cut at.
LEMMA AncestorsOfPath ==
    ASSUME NEW f \in Seq(Components)
    PROVE  \A i \in 0..Len(f) : /\ SubSeq(f, 1, i) \in Seq(Components)
                                /\ Len(SubSeq(f, 1, i)) = i
BY PrefixFacts

\* A path strictly below the ancestor of f at depth j whose first j + 1
\* components are those of f lists f[j + 1] as a child of that ancestor.
LEMMA NextComponentListed ==
    ASSUME NEW X, NEW f \in Seq(Components), NEW k \in 0..Len(f),
           SubSeq(f, 1, k) \in X, NEW j \in 0..(k - 1)
    PROVE  f[j + 1] \in ChildDirs(X, SubSeq(f, 1, j))
<1>. DEFINE P == SubSeq(f, 1, k)
<1>1. Len(P) = k /\ \A i \in 1..k : P[i] = f[i]
  BY PrefixFacts
<1>2. SubSeq(P, 1, j) = SubSeq(f, 1, j) /\ Len(SubSeq(f, 1, j)) = j
  BY PrefixOfPrefix, PrefixFacts
<1>3. Len(SubSeq(f, 1, j)) < Len(P) /\ P[Len(SubSeq(f, 1, j)) + 1] = f[j + 1]
  BY <1>1, <1>2
<1>. QED
  BY <1>2, <1>3 DEF ChildDirs

\* A built FilesMatcher: the walk reaches exactly the input files.
LEMMA FilesCorrect ==
    ASSUME BInv, Built, kind = "files", NEW f \in Seq(Components), f # Root
    PROVE  f \in input <=> WalkReaches(Matcher, f)
<1>. DEFINE n == Len(f)
            V(i) == Visit(Matcher, SubSeq(f, 1, i))
            P == SubSeq(f, 1, n - 1)
<1>1. n \in Nat /\ n >= 1 /\ n - 1 \in 0..n
  BY EmptySeq, LenProperties DEF Root
<1>2. ASSUME NEW i \in 0..n PROVE V(i) = RefVisit(SubSeq(f, 1, i))
  <2>1. SubSeq(f, 1, i) \in Seq(Components)
    BY AncestorsOfPath
  <2>. QED
    BY <2>1, BuiltVisit
<1>3. ASSUME NEW i \in 0..n PROVE V(i).tag = "some"
  <2>1. V(i) = RefVisit(SubSeq(f, 1, i))
    BY <1>2
  <2>. QED
    BY <2>1 DEF RefVisit, VisitSome
<1>4. ASSUME f \in input PROVE WalkReaches(Matcher, f)
  <2>1. P \in DirsOf(input)
    BY <1>4 DEF DirsOf, SplitPath
  <2>2. ASSUME NEW j \in 0..(n - 2) PROVE f[j + 1] \in V(j).dirs
    <3>1. j \in 0..n /\ j \in 0..((n - 1) - 1)
      BY <1>1
    <3>2. f[j + 1] \in ChildDirs(DirsOf(input), SubSeq(f, 1, j))
      BY <1>1, <2>1, <3>1, NextComponentListed
    <3>3. V(j) = RefVisit(SubSeq(f, 1, j))
      BY <1>2, <3>1
    <3>. QED
      BY <3>2, <3>3 DEF RefVisit, VisitSome
  <2>3. f[n] \in V(n - 1).files
    <3>1. f \in FilesOf(input)
      BY <1>4 DEF FilesOf
    <3>2. f[n] \in ChildFiles(FilesOf(input), P)
      BY <3>1, ListedFile
    <3>3. V(n - 1) = RefVisit(P)
      BY <1>1, <1>2
    <3>. QED
      BY <3>2, <3>3 DEF RefVisit, VisitSome
  <2>4. WalkAt(Matcher, f, n - 1)
    BY <1>1, <1>3, <2>2, <2>3 DEF WalkAt
  <2>. QED
    BY <1>1, <2>4, WalkReachesDef
<1>5. ASSUME WalkReaches(Matcher, f) PROVE f \in input
  <2>1. PICK i \in 0..(n - 1) : WalkAt(Matcher, f, i)
    BY <1>5, WalkReachesDef
  <2>2. V(i).tag = "some"
    BY <1>1, <1>3
  <2>3. i = n - 1 /\ f[n] \in V(n - 1).files
    BY <2>1, <2>2 DEF WalkAt
  <2>4. f[n] \in ChildFiles(FilesOf(input), P)
    <3>1. V(n - 1) = RefVisit(P)
      BY <1>1, <1>2
    <3>. QED
      BY <2>3, <3>1 DEF RefVisit, VisitSome
  <2>. QED
    BY <2>4, ListedFile DEF FilesOf
<1>. QED
  BY <1>4, <1>5

\* A built PrefixMatcher: the walk reaches exactly the files below a
\* prefix.  It stops at the shallowest ancestor of the file that is a
\* prefix, where visit answers AllRecursively; above it every ancestor is
\* listed as a child, since that prefix is a directory of the index.
LEMMA PrefixCorrect ==
    ASSUME BInv, Built, kind = "prefix", NEW f \in Seq(Components), f # Root
    PROVE  PrefixMatches(input, f) <=> WalkReaches(Matcher, f)
<1>. DEFINE n == Len(f)
            A(i) == SubSeq(f, 1, i)
            V(i) == Visit(Matcher, A(i))
            P == A(n - 1)
<1>1. n \in Nat /\ n >= 1 /\ n - 1 \in 0..n
  BY EmptySeq, LenProperties DEF Root
<1>2. ASSUME NEW i \in 0..n
      PROVE  V(i) = IF PrefixMatches(input, A(i)) THEN AllRecursively ELSE RefVisit(A(i))
  <2>1. A(i) \in Seq(Components)
    BY AncestorsOfPath
  <2>. QED
    BY <2>1, BuiltVisit
<1>3. ASSUME NEW i \in 0..n, PrefixMatches(input, A(i))
      PROVE  PrefixMatches(input, f)
  <2>1. Len(A(i)) = i
    BY AncestorsOfPath
  <2>2. PICK k \in 0..i : SubSeq(A(i), 1, k) \in input
    BY <1>3, <2>1 DEF PrefixMatches
  <2>3. SubSeq(A(i), 1, k) = A(k)
    BY PrefixOfPrefix
  <2>4. k \in 0..Len(f)
    OBVIOUS
  <2>5. SubSeq(f, 1, k) \in input
    BY <2>2, <2>3
  <2>. QED
    BY <2>4, <2>5 DEF PrefixMatches
<1>4. A(n) = f
  BY FullPrefix
<1>5. ASSUME WalkReaches(Matcher, f) PROVE PrefixMatches(input, f)
  <2>1. PICK i \in 0..(n - 1) : WalkAt(Matcher, f, i)
    BY <1>5, WalkReachesDef
  <2>2. CASE V(i).tag = "all"
    <3>1. i \in 0..n
      BY <1>1
    <3>2. PrefixMatches(input, A(i))
      <4>1. V(i) = IF PrefixMatches(input, A(i)) THEN AllRecursively ELSE RefVisit(A(i))
        BY <1>2, <3>1
      <4>. QED
        BY <2>2, <4>1 DEF RefVisit, VisitSome
    <3>. QED
      BY <1>3, <3>1, <3>2
  <2>3. CASE i = n - 1 /\ V(i).tag = "some" /\ f[n] \in V(i).files
    <3>1. V(n - 1) = RefVisit(P)
      BY <1>1, <1>2, <2>3 DEF AllRecursively
    <3>2. f[n] \in ChildFiles(FilesOf(input), P)
      BY <2>3, <3>1 DEF RefVisit, VisitSome
    <3>3. f \in input
      BY <3>2, ListedFile DEF FilesOf
    <3>4. n \in 0..Len(f)
      BY <1>1
    <3>5. SubSeq(f, 1, n) \in input
      BY <1>4, <3>3
    <3>. QED
      BY <3>4, <3>5 DEF PrefixMatches
  <2>. QED
    BY <2>1, <2>2, <2>3 DEF WalkAt
<1>6. ASSUME PrefixMatches(input, f) PROVE WalkReaches(Matcher, f)
  <2>. DEFINE T == {k \in 0..n : A(k) \in input}
  <2>1. T \in SUBSET Nat /\ T # {}
    BY <1>1, <1>6 DEF PrefixMatches
  <2>2. PICK k0 \in T : \A j \in T : k0 <= j
    BY <2>1, LeastElement
  <2>3. ASSUME NEW j \in 0..(k0 - 1) PROVE ~PrefixMatches(input, A(j))
    <3>1. SUFFICES ASSUME PrefixMatches(input, A(j)) PROVE FALSE
      OBVIOUS
    <3>2. Len(A(j)) = j /\ j \in 0..n
      BY <1>1, AncestorsOfPath
    <3>3. PICK k \in 0..j : SubSeq(A(j), 1, k) \in input
      BY <3>1, <3>2 DEF PrefixMatches
    <3>4. SubSeq(A(j), 1, k) = A(k)
      BY <3>2, PrefixOfPrefix
    <3>5. k \in T
      <4>1. k \in 0..n
        BY <3>2
      <4>. QED
        BY <3>3, <3>4, <4>1
    <3>. QED
      BY <2>2, <3>5
  <2>4. ASSUME NEW j \in 0..(k0 - 1)
        PROVE  V(j).tag = "some" /\ f[j + 1] \in V(j).dirs
    <3>1. j \in 0..n
      BY <1>1
    <3>2. V(j) = RefVisit(A(j))
      BY <1>2, <2>3, <3>1
    <3>3. A(k0) \in DirsOf(input) /\ k0 \in 0..n
      BY DEF DirsOf
    <3>4. f[j + 1] \in ChildDirs(DirsOf(input), A(j))
      BY <3>3, NextComponentListed
    <3>. QED
      BY <3>2, <3>4 DEF RefVisit, VisitSome
  <2>5. CASE k0 <= n - 1
    <3>1. PrefixMatches(input, A(k0))
      <4>1. k0 \in 0..n
        OBVIOUS
      <4>2. Len(A(k0)) = k0 /\ SubSeq(A(k0), 1, k0) = A(k0)
        BY <4>1, AncestorsOfPath, PrefixOfPrefix
      <4>3. k0 \in 0..Len(A(k0))
        BY <4>1, <4>2
      <4>4. SubSeq(A(k0), 1, k0) \in input
        BY <4>2
      <4>. QED
        BY <4>3, <4>4 DEF PrefixMatches
    <3>2. V(k0).tag = "all"
      <4>1. k0 \in 0..n
        OBVIOUS
      <4>2. V(k0) = IF PrefixMatches(input, A(k0)) THEN AllRecursively ELSE RefVisit(A(k0))
        BY <1>2, <4>1
      <4>. QED
        BY <3>1, <4>2 DEF AllRecursively
    <3>3. WalkAt(Matcher, f, k0)
      BY <2>4, <3>2 DEF WalkAt
    <3>. QED
      BY <2>5, <3>3, WalkReachesDef
  <2>6. CASE k0 = n
    <3>1. V(n - 1) = RefVisit(P)
      BY <1>1, <1>2, <2>3, <2>6
    <3>2. f \in FilesOf(input)
      BY <1>4, <2>6 DEF FilesOf
    <3>3. f[n] \in ChildFiles(FilesOf(input), P)
      BY <3>2, ListedFile
    <3>4. V(n - 1).tag = "some" /\ f[n] \in V(n - 1).files
      BY <3>1, <3>3 DEF RefVisit, VisitSome
    <3>5. \A j \in 0..(n - 2) : V(j).tag = "some" /\ f[j + 1] \in V(j).dirs
      BY <2>4, <2>6
    <3>6. WalkAt(Matcher, f, n - 1)
      BY <3>4, <3>5 DEF WalkAt
    <3>. QED
      BY <1>1, <3>6, WalkReachesDef
  <2>. QED
    BY <1>1, <2>5, <2>6
<1>. QED
  BY <1>5, <1>6

\* NothingMatcher visits nothing from the root, and EverythingMatcher
\* visits everything recursively from there.
LEMMA ConstantMatchersCorrect ==
    ASSUME BInv, Built, kind \in {"nothing", "everything"},
           NEW f \in Seq(Components), f # Root
    PROVE  Matches(Matcher, f) <=> WalkReaches(Matcher, f)
<1>. DEFINE n == Len(f)
            V(i) == Visit(Matcher, SubSeq(f, 1, i))
<1>1. n \in Nat /\ n >= 1
  BY EmptySeq, LenProperties DEF Root
<1>2. ASSUME NEW i \in 0..n
      PROVE  /\ kind = "nothing" => V(i) = VisitNothing
             /\ kind = "everything" => V(i) = AllRecursively
  <2>1. SubSeq(f, 1, i) \in Seq(Components)
    BY AncestorsOfPath
  <2>. QED
    BY <2>1, BuiltVisit
<1>3. CASE kind = "nothing"
  <2>1. ~Matches(Matcher, f)
    BY <1>3, BuiltMatches
  <2>2. ASSUME NEW i \in 0..(n - 1), WalkAt(Matcher, f, i) PROVE FALSE
    <3>1. V(i) = VisitNothing
      BY <1>1, <1>2, <1>3
    <3>. QED
      BY <2>2, <3>1 DEF WalkAt, VisitNothing, VisitSome
  <2>. QED
    BY <2>1, <2>2, WalkReachesDef
<1>4. CASE kind = "everything"
  <2>1. Matches(Matcher, f)
    BY <1>4, BuiltMatches
  <2>2. V(0) = AllRecursively
    BY <1>1, <1>2, <1>4
  <2>3. WalkAt(Matcher, f, 0)
    BY <2>2 DEF WalkAt, AllRecursively
  <2>. QED
    BY <1>1, <2>1, <2>3, WalkReachesDef
<1>. QED
  BY <1>3, <1>4

\* The inductive invariant of the construction gives matcher correctness.
LEMMA BInvCorrect == BInv => MatcherCorrect
<1> SUFFICES ASSUME BInv, Built, NEW f \in Seq(Components), f # Root
             PROVE  Matches(Matcher, f) <=> WalkReaches(Matcher, f)
  BY DEF MatcherCorrect
<1>1. kind \in Kinds
  BY DEF BInv, TypeOK
<1>2. CASE kind = "files"
  BY <1>2, BuiltMatches, FilesCorrect
<1>3. CASE kind = "prefix"
  BY <1>3, BuiltMatches, PrefixCorrect
<1>4. CASE kind \in {"nothing", "everything"}
  BY <1>4, ConstantMatchersCorrect
<1>. QED
  BY <1>1, <1>2, <1>3, <1>4 DEF Kinds

-----------------------------------------------------------------------------
(* Theorems.                                                               *)

\* Matcher correctness (specification, section 8.2): whatever the inputs
\* and the order the constructor's loop takes them in, the matcher it
\* returns matches a file, of any depth, exactly when the traversal guided
\* by its visit reaches that file.
THEOREM MatchersCorrect == Spec => []MatcherCorrect
BY BInvCorrect, BuildInvariant, PTL

\* The property the matchers run checks for files one level deeper than
\* the inputs holds for every number of components and every depth.
THEOREM VisitCorrect == Spec => []VisitAgreesWithMatches
<1>1. MatcherCorrect => VisitAgreesWithMatches
  <2>1. PathsUpTo(MaxDepth + 1) = {q \in Seq(Components) : Len(q) <= MaxDepth + 1}
    BY PathsUpToSeq
  <2>. QED
    BY <2>1 DEF MatcherCorrect, VisitAgreesWithMatches
<1>. QED
  BY <1>1, MatchersCorrect, PTL

=============================================================================
