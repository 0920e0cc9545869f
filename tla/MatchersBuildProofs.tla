------------------------- MODULE MatchersBuildProofs -------------------------
(***************************************************************************)
(* Proofs about the construction of a matcher (MatchersBuild), for every   *)
(* set of components, every depth and every order of the inputs.           *)
(*                                                                         *)
(* The argument: after any number of loop iterations the index is exactly *)
(* the reference index of the inputs processed so far.  Its directories   *)
(* are the ancestors-or-self of the directories entered, each with the    *)
(* next components of the entered directories below it as children, and   *)
(* its files are the basenames of the files entered, under their parents. *)
(* add_dir's early exit is what makes this hard: the walk stops at a       *)
(* directory already present, and the invariant says that such a          *)
(* directory has all of its ancestors present and linked already, since   *)
(* the set of present directories is closed under prefixes.                *)
(***************************************************************************)
EXTENDS MatchersBuild, DirsIndexProofs

USE ComponentsAssumption, MaxDepthAssumption, RootFileInputAssumption

\* The inputs the constructor loop has processed.
Done == input \ todo

\* The ancestors-or-self of a set of directories, the root included.
Ancestors(X) == UNION {{SubSeq(x, 1, k) : k \in 0..Len(x)} : x \in X}

\* The directory map of an index is the reference of the directories X.
DirsAreRef(D, X) ==
    /\ DOMAIN D.dirs = Ancestors(X)
    /\ \A a \in DOMAIN D.dirs : D.dirs[a] = ChildDirs(X, a)

\* The file map of an index is the reference of the files F.
FilesAreRef(D, F) ==
    /\ DOMAIN D.files = {SplitPath(f)[1] : f \in F}
    /\ \A d \in DOMAIN D.files : D.files[d] = ChildFiles(F, d)

\* The inductive invariant.  The index of a running constructor is the
\* reference of what it has processed: that is what makes add_dir's early
\* exit safe, and it says more than DirsClosed, which the closure theorems
\* of DirsIndexProofs give on their own.  A constructor has panicked
\* exactly when FilesMatcher has processed the root, which only a caller
\* allowed by RootFileInput passes.
BInv ==
    /\ TypeOK
    /\ IndexType(dirs, Components)
    /\ DirsClosed
    /\ ~dirs.panicked => /\ DirsAreRef(dirs, DirsOf(Done))
                         /\ FilesAreRef(dirs, FilesOf(Done))
    /\ dirs.panicked <=> kind = "files" /\ Root \in Done
    /\ kind = "files" /\ Root \in input => RootFileInput

-----------------------------------------------------------------------------
(* Lemmas about paths and their ancestors.                                 *)

\* The paths of at most n components are the sequences of components of
\* length at most n.
LEMMA PathsUpToSeq ==
    ASSUME NEW n \in Nat
    PROVE  PathsUpTo(n) = {p \in Seq(Components) : Len(p) <= n}
<1>1. ASSUME NEW p \in PathsUpTo(n) PROVE p \in Seq(Components) /\ Len(p) <= n
  <2>1. PICK k \in 0..n : p \in [1..k -> Components]
    BY <1>1 DEF PathsUpTo
  <2>2. p \in Seq(Components)
    BY <2>1, SeqDef
  <2>3. Len(p) \in Nat /\ DOMAIN p = 1..Len(p)
    BY <2>2, LenProperties
  <2>4. Len(p) = k
    BY <2>1, <2>3
  <2>. QED
    BY <2>2, <2>4
<1>2. ASSUME NEW p \in Seq(Components), Len(p) <= n PROVE p \in PathsUpTo(n)
  <2>1. Len(p) \in 0..n /\ p \in [1..Len(p) -> Components]
    BY <1>2, LenProperties
  <2>. QED
    BY <2>1 DEF PathsUpTo
<1>. QED
  BY <1>1, <1>2

\* A prefix of a prefix of s is the prefix of s of the same length.
LEMMA PrefixOfPrefix ==
    ASSUME NEW s \in Seq(Components), NEW m \in 0..Len(s), NEW k \in 0..m
    PROVE  SubSeq(SubSeq(s, 1, m), 1, k) = SubSeq(s, 1, k)
<1>1. SubSeq(s, 1, m) \in Seq(Components) /\ Len(SubSeq(s, 1, m)) = m
      /\ \A i \in 1..m : SubSeq(s, 1, m)[i] = s[i]
  BY PrefixFacts
<1>2. /\ SubSeq(SubSeq(s, 1, m), 1, k) \in Seq(Components)
      /\ Len(SubSeq(SubSeq(s, 1, m), 1, k)) = k
      /\ \A i \in 1..k : SubSeq(SubSeq(s, 1, m), 1, k)[i] = SubSeq(s, 1, m)[i]
  BY <1>1, PrefixFacts
<1>3. SubSeq(s, 1, k) \in Seq(Components) /\ Len(SubSeq(s, 1, k)) = k
      /\ \A i \in 1..k : SubSeq(s, 1, k)[i] = s[i]
  BY PrefixFacts
<1>. QED
  BY <1>1, <1>2, <1>3, SeqEqual

\* The ancestors of paths are paths, each a prefix of one of them; and a
\* prefix of an ancestor is an ancestor.
LEMMA AncestorsFacts ==
    ASSUME NEW X \in SUBSET Seq(Components)
    PROVE  /\ Ancestors(X) \in SUBSET Seq(Components)
           /\ \A a \in Ancestors(X) : \A k \in 0..Len(a) : SubSeq(a, 1, k) \in Ancestors(X)
           /\ X \subseteq Ancestors(X)
<1>1. ASSUME NEW a \in Ancestors(X)
      PROVE  /\ a \in Seq(Components)
             /\ \A k \in 0..Len(a) : SubSeq(a, 1, k) \in Ancestors(X)
  <2>1. PICK x \in X, m \in Nat : m \in 0..Len(x) /\ a = SubSeq(x, 1, m)
    BY DEF Ancestors
  <2>2. a \in Seq(Components) /\ Len(a) = m
    BY <2>1, PrefixFacts
  <2>3. ASSUME NEW k \in 0..Len(a) PROVE SubSeq(a, 1, k) \in Ancestors(X)
    <3>1. SubSeq(a, 1, k) = SubSeq(x, 1, k) /\ k \in 0..Len(x)
      BY <2>1, <2>2, PrefixOfPrefix
    <3>. QED
      BY <3>1 DEF Ancestors
  <2>. QED
    BY <2>2, <2>3
<1>2. ASSUME NEW x \in X PROVE x \in Ancestors(X)
  <2>1. SubSeq(x, 1, Len(x)) = x /\ Len(x) \in 0..Len(x)
    BY FullPrefix, LenProperties
  <2>2. x \in {SubSeq(x, 1, k) : k \in 0..Len(x)}
    BY <2>1
  <2>. QED
    BY <2>2 DEF Ancestors
<1>. QED
  BY <1>1, <1>2

-----------------------------------------------------------------------------
(* add_dir builds the reference index of its directories.                 *)

\* Entering one more directory adds at most one child to a directory a:
\* the next component of dir, when dir lies strictly below a.
LEMMA ChildDirsAdd ==
    ASSUME NEW X, NEW dir, NEW a
    PROVE  ChildDirs(X \cup {dir}, a) =
             ChildDirs(X, a) \cup
               (IF Len(a) < Len(dir) /\ SubSeq(dir, 1, Len(a)) = a
                  THEN {dir[Len(a) + 1]} ELSE {})
BY DEF ChildDirs

\* A path that is no ancestor of the directories has no child directory.
LEMMA ChildDirsOutside ==
    ASSUME NEW X \in SUBSET Seq(Components), NEW a \in Seq(Components), a \notin Ancestors(X)
    PROVE  ChildDirs(X, a) = {}
<1> SUFFICES ASSUME NEW x \in X, Len(a) < Len(x), SubSeq(x, 1, Len(a)) = a
             PROVE  FALSE
  BY DEF ChildDirs
<1>1. Len(a) \in 0..Len(x)
  BY LenProperties
<1>2. a \in {SubSeq(x, 1, k) : k \in 0..Len(x)}
  BY <1>1
<1>. QED
  BY <1>2 DEF Ancestors

\* The walk of add_dir reaches the directories of dir that were missing:
\* every ancestor of dir is present afterwards.
LEMMA WalkDomain ==
    ASSUME NEW D, NEW X \in SUBSET Seq(Components), DirsAreRef(D, X),
           NEW dir \in Seq(Components)
    PROVE  DOMAIN D.dirs \cup Walked(D, dir) = Ancestors(X \cup {dir})
<1>1. Walked(D, dir) \subseteq Ancestors(X \cup {dir})
  <2> SUFFICES ASSUME NEW k \in WalkedLengths(D, dir)
               PROVE  SubSeq(dir, 1, k) \in Ancestors(X \cup {dir})
    BY DEF Walked
  <2>1. k \in 0..Len(dir)
    BY DEF WalkedLengths
  <2>. QED
    BY <2>1 DEF Ancestors
<1>2. DOMAIN D.dirs \subseteq Ancestors(X \cup {dir})
  BY DEF DirsAreRef, Ancestors
<1>3. ASSUME NEW y \in X \cup {dir}, NEW k \in 0..Len(y)
      PROVE  SubSeq(y, 1, k) \in DOMAIN D.dirs \cup Walked(D, dir)
  <2>1. CASE y \in X
    BY <2>1 DEF DirsAreRef, Ancestors
  <2>2. CASE y = dir /\ k \in WalkedLengths(D, dir)
    BY <2>2 DEF Walked
  <2>3. CASE y = dir /\ k \notin WalkedLengths(D, dir)
    <3>0. k \in 0..Len(dir)
      BY <2>3
    <3>1. PICK j \in (k + 1)..Len(dir) : SubSeq(dir, 1, j) \in DOMAIN D.dirs
      BY <2>3, <3>0 DEF WalkedLengths
    <3>2. j \in 0..Len(dir)
      BY <3>0
    <3>3. Len(SubSeq(dir, 1, j)) = j
      BY <3>2, PrefixFacts
    <3>4. SubSeq(dir, 1, j) \in Ancestors(X)
      BY <3>1 DEF DirsAreRef
    <3>5. SubSeq(SubSeq(dir, 1, j), 1, k) = SubSeq(dir, 1, k)
      BY <3>0, <3>2, PrefixOfPrefix
    <3>6. k \in 0..Len(SubSeq(dir, 1, j))
      BY <3>0, <3>3
    <3>7. SubSeq(SubSeq(dir, 1, j), 1, k) \in Ancestors(X)
      BY <3>4, <3>6, AncestorsFacts
    <3>. QED
      BY <2>3, <3>5, <3>7 DEF DirsAreRef
  <2>. QED
    BY <2>1, <2>2, <2>3
<1>4. Ancestors(X \cup {dir}) \subseteq DOMAIN D.dirs \cup Walked(D, dir)
  <2> SUFFICES ASSUME NEW a \in Ancestors(X \cup {dir})
               PROVE  a \in DOMAIN D.dirs \cup Walked(D, dir)
    OBVIOUS
  <2>1. PICK y \in X \cup {dir}, k \in Nat : k \in 0..Len(y) /\ a = SubSeq(y, 1, k)
    BY DEF Ancestors
  <2>. QED
    BY <2>1, <1>3
<1>. QED
  BY <1>1, <1>2, <1>4

\* A directory strictly above dir that the walk did not reach gets dir's
\* next component from the index already: the walk stopped at a present
\* directory below it, which is an ancestor of an entered directory that
\* continues with that component.
LEMMA StoppedAbove ==
    ASSUME NEW D, NEW X \in SUBSET Seq(Components), DirsAreRef(D, X),
           NEW dir \in Seq(Components), NEW a \in Seq(Components),
           Len(a) < Len(dir), SubSeq(dir, 1, Len(a)) = a,
           a \notin Walked(D, dir)
    PROVE  dir[Len(a) + 1] \in ChildDirs(X, a)
<1>. DEFINE n == Len(a)
<1>1. n \in 0..Len(dir)
  BY LenProperties
<1>2. n \notin WalkedLengths(D, dir)
  BY DEF Walked
<1>3. PICK j \in (n + 1)..Len(dir) : SubSeq(dir, 1, j) \in Ancestors(X)
  BY <1>1, <1>2 DEF WalkedLengths, DirsAreRef
<1>4. PICK x \in X, i \in Nat : i \in 0..Len(x) /\ SubSeq(dir, 1, j) = SubSeq(x, 1, i)
  BY <1>3 DEF Ancestors
<1>5. i = j
  BY <1>4, PrefixFacts
<1>6. SubSeq(x, 1, n) = a
  <2>1. SubSeq(SubSeq(x, 1, j), 1, n) = SubSeq(x, 1, n)
    BY <1>4, <1>5, PrefixOfPrefix
  <2>2. SubSeq(SubSeq(dir, 1, j), 1, n) = SubSeq(dir, 1, n)
    BY PrefixOfPrefix
  <2>. QED
    BY <1>4, <1>5, <2>1, <2>2
<1>7. x[n + 1] = dir[n + 1]
  <2>1. SubSeq(x, 1, j)[n + 1] = x[n + 1]
    BY <1>4, <1>5, PrefixFacts
  <2>2. SubSeq(dir, 1, j)[n + 1] = dir[n + 1]
    BY PrefixFacts
  <2>. QED
    BY <1>4, <1>5, <2>1, <2>2
<1>8. n < Len(x)
  BY <1>4, <1>5
<1>. QED
  BY <1>6, <1>7, <1>8 DEF ChildDirs

\* add_dir on the reference index of the directories X yields the
\* reference index of X and dir, whatever the walk met, and leaves the
\* files and the panic flag alone.
LEMMA AddDirRef ==
    ASSUME NEW D, IndexType(D, Components), NEW X \in SUBSET Seq(Components),
           DirsAreRef(D, X), NEW dir \in Seq(Components)
    PROVE  /\ DirsAreRef(AddDirWalk(D, dir), X \cup {dir})
           /\ AddDirWalk(D, dir).files = D.files
           /\ AddDirWalk(D, dir).panicked = D.panicked
<1>. DEFINE W == Walked(D, dir)
            Y == X \cup {dir}
            N == [a \in DOMAIN D.dirs \cup W |-> Entry(D.dirs, a) \cup WalkChild(D, dir, a)]
            E(a) == IF Len(a) < Len(dir) /\ SubSeq(dir, 1, Len(a)) = a
                      THEN {dir[Len(a) + 1]} ELSE {}
<1>1. /\ AddDirWalk(D, dir).dirs = N
      /\ AddDirWalk(D, dir).files = D.files
      /\ AddDirWalk(D, dir).panicked = D.panicked
  BY DEF AddDirWalk, IndexType
<1>2. DOMAIN N = Ancestors(Y)
  <2>1. DOMAIN N = DOMAIN D.dirs \cup W
    OBVIOUS
  <2>2. DOMAIN D.dirs \cup Walked(D, dir) = Ancestors(X \cup {dir})
    BY WalkDomain
  <2>. QED
    BY <2>1, <2>2
<1>3. ASSUME NEW a \in DOMAIN N PROVE N[a] = ChildDirs(Y, a)
  <2>1. a \in Seq(Components)
    BY <1>2, AncestorsFacts
  <2>2. Entry(D.dirs, a) = ChildDirs(X, a)
    <3>1. CASE a \in DOMAIN D.dirs
      BY <3>1 DEF Entry, DirsAreRef
    <3>2. CASE a \notin DOMAIN D.dirs
      BY <2>1, <3>2, ChildDirsOutside DEF Entry, DirsAreRef
    <3>. QED
      BY <3>1, <3>2
  <2>3. ChildDirs(Y, a) = ChildDirs(X, a) \cup E(a)
    BY ChildDirsAdd
  <2>4. ChildDirs(X, a) \cup WalkChild(D, dir, a) = ChildDirs(X, a) \cup E(a)
    <3>1. CASE a \in W /\ Len(a) < Len(dir)
      <4>1. a = SubSeq(dir, 1, Len(a))
        BY <3>1, WalkedPaths
      <4>. QED
        BY <3>1, <4>1 DEF WalkChild
    <3>2. CASE ~(a \in W /\ Len(a) < Len(dir))
      <4>1. WalkChild(D, dir, a) = {}
        BY <3>2 DEF WalkChild
      <4>2. CASE Len(a) < Len(dir) /\ SubSeq(dir, 1, Len(a)) = a
        <5>1. dir[Len(a) + 1] \in ChildDirs(X, a)
          BY <2>1, <3>2, <4>2, StoppedAbove
        <5>. QED
          BY <4>1, <4>2, <5>1
      <4>3. CASE ~(Len(a) < Len(dir) /\ SubSeq(dir, 1, Len(a)) = a)
        BY <4>1, <4>3
      <4>. QED
        BY <4>2, <4>3
    <3>. QED
      BY <3>1, <3>2
  <2>. QED
    BY <2>2, <2>3, <2>4
<1>. QED
  BY <1>1, <1>2, <1>3 DEF DirsAreRef

-----------------------------------------------------------------------------
(* add_file records the reference of its files.                           *)

\* Entering one more file adds its basename under its parent.
LEMMA ChildFilesAdd ==
    ASSUME NEW F, NEW f, NEW d
    PROVE  ChildFiles(F \cup {f}, d) =
             ChildFiles(F, d) \cup
               (IF SplitPath(f)[1] = d THEN {SplitPath(f)[2]} ELSE {})
BY DEF ChildFiles

\* Recording a file in the reference of the files F yields the reference
\* of F and the file, and leaves the directories and the flag alone.
LEMMA RecordFileRef ==
    ASSUME NEW D, IndexType(D, Components), NEW F, FilesAreRef(D, F), NEW f
    PROVE  /\ FilesAreRef(RecordFile(D, f), F \cup {f})
           /\ RecordFile(D, f).dirs = D.dirs
           /\ RecordFile(D, f).panicked = D.panicked
<1>. DEFINE dir == SplitPath(f)[1]
            G == Put(D.files, dir, Entry(D.files, dir) \cup {SplitPath(f)[2]})
<1>1. RecordFile(D, f) = [D EXCEPT !.files = G]
  BY DEF RecordFile
<1>2. RecordFile(D, f).files = G /\ RecordFile(D, f).dirs = D.dirs
      /\ RecordFile(D, f).panicked = D.panicked
  BY <1>1 DEF IndexType
<1>3. DOMAIN G = {SplitPath(g)[1] : g \in F \cup {f}}
  BY DEF Put, FilesAreRef
<1>4. ASSUME NEW d \in DOMAIN G PROVE G[d] = ChildFiles(F \cup {f}, d)
  <2>1. CASE d = dir
    <3>1. Entry(D.files, dir) = ChildFiles(F, dir)
      <4>1. CASE dir \in DOMAIN D.files
        BY <4>1 DEF Entry, FilesAreRef
      <4>2. CASE dir \notin DOMAIN D.files
        BY <4>2 DEF Entry, FilesAreRef, ChildFiles
      <4>. QED
        BY <4>1, <4>2
    <3>2. G[d] = Entry(D.files, dir) \cup {SplitPath(f)[2]}
      BY <2>1 DEF Put
    <3>3. ChildFiles(F \cup {f}, dir) = ChildFiles(F, dir) \cup {SplitPath(f)[2]}
      BY ChildFilesAdd
    <3>. QED
      BY <2>1, <3>1, <3>2, <3>3
  <2>2. CASE d # dir
    <3>1. d \in DOMAIN D.files /\ G[d] = D.files[d]
      BY <2>2 DEF Put
    <3>2. ChildFiles(F \cup {f}, d) = ChildFiles(F, d)
      <4>1. SplitPath(f)[1] # d
        BY <2>2
      <4>2. ChildFiles(F \cup {f}, d) =
              ChildFiles(F, d) \cup
                (IF SplitPath(f)[1] = d THEN {SplitPath(f)[2]} ELSE {})
        BY ChildFilesAdd
      <4>. QED
        BY <4>1, <4>2
    <3>. QED
      BY <3>1, <3>2 DEF FilesAreRef
  <2>. QED
    BY <2>1, <2>2
<1>. QED
  BY <1>2, <1>3, <1>4 DEF FilesAreRef

-----------------------------------------------------------------------------
(* The reference of a set of inputs.                                       *)

\* One more input enters its parent (FilesMatcher), or itself and, unless
\* it is the root, its parent (PrefixMatcher); and its path as a file
\* unless it is the root.
LEMMA RefAdd ==
    ASSUME NEW S, NEW f
    PROVE  /\ kind = "files" => DirsOf(S \cup {f}) = DirsOf(S) \cup {SplitPath(f)[1]}
           /\ kind # "files" /\ f = Root => DirsOf(S \cup {f}) = DirsOf(S) \cup {f}
           /\ kind # "files" /\ f # Root =>
                DirsOf(S \cup {f}) = (DirsOf(S) \cup {f}) \cup {SplitPath(f)[1]}
           /\ f = Root => FilesOf(S \cup {f}) = FilesOf(S)
           /\ f # Root => FilesOf(S \cup {f}) = FilesOf(S) \cup {f}
BY DEF DirsOf, FilesOf

\* split() of a non-root path of at most n components gives a shorter
\* path and a component.
LEMMA ParentBound ==
    ASSUME NEW p \in Seq(Components), p # Root
    PROVE  /\ SplitPath(p)[1] \in Seq(Components)
           /\ Len(SplitPath(p)[1]) < Len(p)
           /\ SplitPath(p)[2] \in Components
<1>1. Len(p) \in Nat /\ Len(p) # 0
  BY EmptySeq, LenProperties DEF Root
<1>2. Len(p) \in 1..Len(p) /\ Len(p) - 1 \in 0..Len(p)
  BY <1>1
<1>3. SplitPath(SubSeq(p, 1, Len(p)))[1] = SubSeq(p, 1, Len(p) - 1)
  BY <1>2, SplitPrefix
<1>4. SubSeq(p, 1, Len(p) - 1) \in Seq(Components)
      /\ Len(SubSeq(p, 1, Len(p) - 1)) = Len(p) - 1
  BY <1>2, PrefixFacts
<1>5. SplitPath(p)[1] = SubSeq(p, 1, Len(p) - 1)
  BY <1>3, FullPrefix
<1>. QED
  BY <1>1, <1>4, <1>5, SplitFile

\* The index of the reference of inputs of at most MaxDepth components has
\* paths of at most MaxDepth components only.
LEMMA RefBound ==
    ASSUME NEW D, NEW S \in SUBSET PathsUpTo(MaxDepth),
           kind = "files" => Root \notin S,
           DirsAreRef(D, DirsOf(S)), FilesAreRef(D, FilesOf(S))
    PROVE  /\ DirsOf(S) \in SUBSET Seq(Components)
           /\ DOMAIN D.dirs \in SUBSET PathsUpTo(MaxDepth)
           /\ DOMAIN D.files \in SUBSET PathsUpTo(MaxDepth)
<1>1. ASSUME NEW p \in S, p # Root
      PROVE  SplitPath(p)[1] \in PathsUpTo(MaxDepth)
  <2>0. PathsUpTo(MaxDepth) = {q \in Seq(Components) : Len(q) <= MaxDepth}
    BY PathsUpToSeq
  <2>1. p \in Seq(Components) /\ Len(p) <= MaxDepth
    BY <2>0
  <2>2. SplitPath(p)[1] \in Seq(Components) /\ Len(SplitPath(p)[1]) < Len(p)
    BY <1>1, <2>1, ParentBound
  <2>3. Len(SplitPath(p)[1]) <= MaxDepth
    BY <2>1, <2>2, LenProperties
  <2>. QED
    BY <2>0, <2>2, <2>3
<1>2. DirsOf(S) \in SUBSET PathsUpTo(MaxDepth)
  BY <1>1 DEF DirsOf
<1>3. DirsOf(S) \in SUBSET Seq(Components)
  BY <1>2, PathsUpToSeq
<1>4. ASSUME NEW a \in Ancestors(DirsOf(S)) PROVE a \in PathsUpTo(MaxDepth)
  <2>1. PICK x \in DirsOf(S), k \in Nat : k \in 0..Len(x) /\ a = SubSeq(x, 1, k)
    BY DEF Ancestors
  <2>2. x \in Seq(Components) /\ Len(x) <= MaxDepth
    BY <1>2, PathsUpToSeq
  <2>3. a \in Seq(Components) /\ Len(a) = k
    BY <2>1, <2>2, PrefixFacts
  <2>4. PathsUpTo(MaxDepth) = {q \in Seq(Components) : Len(q) <= MaxDepth}
    BY PathsUpToSeq
  <2>. QED
    BY <2>1, <2>2, <2>3, <2>4
<1>5. DOMAIN D.files \in SUBSET PathsUpTo(MaxDepth)
  BY <1>1 DEF FilesAreRef, FilesOf
<1>. QED
  BY <1>3, <1>4, <1>5 DEF DirsAreRef

-----------------------------------------------------------------------------
(* The inductive invariant.                                                *)

\* The maps of an index over the components map to sets of components.
LEMMA IndexTypeValues ==
    ASSUME NEW D, IndexType(D, Components)
    PROVE  /\ \A d \in DOMAIN D.dirs : D.dirs[d] \in SUBSET Components
           /\ \A d \in DOMAIN D.files : D.files[d] \in SUBSET Components
           /\ D.panicked \in BOOLEAN
BY DEF IndexType, DirMaps

\* A constructor starts from Dirs::new() with nothing processed, on inputs
\* a caller can pass.
LEMMA InitBInv == Init => BInv
<1> SUFFICES ASSUME Init PROVE BInv
  OBVIOUS
<1>1. input \in SUBSET PathsUpTo(MaxDepth)
      /\ (kind = "files" /\ Root \in input => RootFileInput)
  BY DEF Init, InputSets, Kinds
<1>2. IndexType(dirs, Components) /\ DirsClosed
  BY EmptyDirsClosed DEF Init, DirsClosed
<1>3. /\ Done = {}
      /\ DOMAIN dirs.dirs = {} /\ DOMAIN dirs.files = {} /\ dirs.panicked = FALSE
  BY DEF Init, Done, EmptyDirs
<1>4. DirsAreRef(dirs, DirsOf(Done)) /\ FilesAreRef(dirs, FilesOf(Done))
  <2>1. DirsOf({}) = {} /\ FilesOf({}) = {} /\ Ancestors({}) = {}
    BY DEF DirsOf, FilesOf, Ancestors
  <2>. QED
    BY <1>3, <2>1 DEF DirsAreRef, FilesAreRef
<1>5. TypeOK
  BY <1>1, <1>3 DEF Init, TypeOK
<1>. QED
  BY <1>1, <1>2, <1>3, <1>4, <1>5 DEF BInv

\* One iteration of FilesMatcher::new: add_file on the root panics;
\* otherwise add_dir enters the parent and the basename is recorded.
LEMMA FilesStepBInv ==
    ASSUME BInv, FilesMatcherNewStep
    PROVE  BInv'
<1>1. PICK f \in todo : dirs' = AddFileWalk(dirs, f) /\ todo' = todo \ {f}
  BY DEF FilesMatcherNewStep
<1>2. kind = "files" /\ ~dirs.panicked /\ kind' = kind /\ input' = input
  BY DEF FilesMatcherNewStep
<1>3. /\ PathsUpTo(MaxDepth) = {q \in Seq(Components) : Len(q) <= MaxDepth}
      /\ todo \subseteq input /\ input \in SUBSET PathsUpTo(MaxDepth)
  BY PathsUpToSeq DEF BInv, TypeOK
<1>4. f \in Seq(Components) /\ Done' = Done \cup {f} /\ Done' \subseteq input
  BY <1>1, <1>2, <1>3 DEF Done
<1>5. IndexType(dirs', Components) /\ DirsClosed'
  BY <1>1, <1>4, AddFileKeepsClosed DEF BInv, DirsClosed
<1>6. /\ kind' \in Kinds /\ input' \in SUBSET PathsUpTo(MaxDepth)
      /\ todo' \in SUBSET input'
      /\ (kind' = "files" /\ Root \in input' => RootFileInput)
  BY <1>1, <1>2, <1>3 DEF BInv, TypeOK
<1>7. /\ DOMAIN dirs'.dirs \in SUBSET PathsUpTo(MaxDepth)
      /\ DOMAIN dirs'.files \in SUBSET PathsUpTo(MaxDepth)
      /\ (~dirs'.panicked => /\ DirsAreRef(dirs', DirsOf(Done)')
                              /\ FilesAreRef(dirs', FilesOf(Done)'))
      /\ (dirs'.panicked <=> kind' = "files" /\ Root \in Done')
  <2>1. CASE f = Root
    <3>1. dirs' = [dirs EXCEPT !.panicked = TRUE]
      BY <1>1, <2>1 DEF AddFileWalk
    <3>2. dirs'.dirs = dirs.dirs /\ dirs'.files = dirs.files /\ dirs'.panicked
      BY <3>1 DEF BInv, IndexType
    <3>. QED
      BY <1>2, <1>4, <2>1, <3>2 DEF BInv, TypeOK
  <2>2. CASE f # Root
    <3>. DEFINE dir == SplitPath(f)[1]
                D1 == AddDirWalk(dirs, dir)
    <3>1. dirs' = RecordFile(D1, f)
      BY <1>1, <2>2 DEF AddFileWalk
    <3>2. Root \notin Done
      BY <1>2 DEF BInv
    <3>3. dir \in Seq(Components)
      BY <1>4, <2>2, ParentBound
    <3>4. DirsAreRef(dirs, DirsOf(Done)) /\ FilesAreRef(dirs, FilesOf(Done))
      BY <1>2 DEF BInv
    <3>5. DirsOf(Done) \in SUBSET Seq(Components)
      BY <1>3, <3>2, <3>4, RefBound DEF Done
    <3>6. /\ DirsAreRef(D1, DirsOf(Done) \cup {dir})
          /\ D1.files = dirs.files /\ D1.panicked = dirs.panicked
      BY <3>3, <3>4, <3>5, AddDirRef DEF BInv
    <3>7. IndexType(D1, Components)
      BY <3>3, AddDirWalkType DEF BInv
    <3>8. FilesAreRef(D1, FilesOf(Done))
      BY <3>4, <3>6 DEF FilesAreRef
    <3>9. /\ FilesAreRef(dirs', FilesOf(Done) \cup {f})
          /\ dirs'.dirs = D1.dirs /\ dirs'.panicked = D1.panicked
      BY <3>1, <3>7, <3>8, RecordFileRef
    <3>10. DirsOf(Done)' = DirsOf(Done) \cup {dir}
           /\ FilesOf(Done)' = FilesOf(Done) \cup {f}
      <4>1. DirsOf(Done)' = DirsOf(Done \cup {f}) /\ FilesOf(Done)' = FilesOf(Done \cup {f})
        BY <1>2, <1>4 DEF DirsOf, FilesOf
      <4>. QED
        BY <1>2, <2>2, <4>1, RefAdd
    <3>11. DirsAreRef(dirs', DirsOf(Done)') /\ FilesAreRef(dirs', FilesOf(Done)')
      BY <3>6, <3>9, <3>10 DEF DirsAreRef
    <3>12. ~dirs'.panicked /\ Root \notin Done'
      BY <1>2, <1>4, <2>2, <3>2, <3>6, <3>9
    <3>13. DOMAIN dirs'.dirs \in SUBSET PathsUpTo(MaxDepth)
           /\ DOMAIN dirs'.files \in SUBSET PathsUpTo(MaxDepth)
      <4>1. Done' \in SUBSET PathsUpTo(MaxDepth)
        BY <1>3, <1>4
      <4>2. DirsOf(Done)' = DirsOf(Done') /\ FilesOf(Done)' = FilesOf(Done')
        BY <1>2 DEF DirsOf, FilesOf
      <4>. QED
        BY <1>2, <3>11, <3>12, <4>1, <4>2, RefBound
    <3>. QED
      BY <3>11, <3>12, <3>13
  <2>. QED
    BY <2>1, <2>2
<1>8. TypeOK'
  BY <1>5, <1>6, <1>7, IndexTypeValues DEF TypeOK
<1>. QED
  BY <1>5, <1>6, <1>7, <1>8 DEF BInv

\* One iteration of PrefixMatcher::new: add_dir enters the prefix, and
\* unless it is the root add_file enters its parent and records it.
LEMMA PrefixStepBInv ==
    ASSUME BInv, PrefixMatcherNewStep
    PROVE  BInv'
<1>1. PICK p \in todo : dirs' = PrefixAddWalk(dirs, p) /\ todo' = todo \ {p}
  BY DEF PrefixMatcherNewStep
<1>2. kind = "prefix" /\ ~dirs.panicked /\ kind' = kind /\ input' = input
  BY DEF PrefixMatcherNewStep
<1>3. /\ PathsUpTo(MaxDepth) = {q \in Seq(Components) : Len(q) <= MaxDepth}
      /\ todo \subseteq input /\ input \in SUBSET PathsUpTo(MaxDepth)
  BY PathsUpToSeq DEF BInv, TypeOK
<1>4. p \in Seq(Components) /\ Done' = Done \cup {p} /\ Done' \subseteq input
  BY <1>1, <1>2, <1>3 DEF Done
<1>5. IndexType(dirs', Components) /\ DirsClosed'
  BY <1>1, <1>4, PrefixAddKeepsClosed DEF BInv, DirsClosed
<1>6. /\ kind' \in Kinds /\ input' \in SUBSET PathsUpTo(MaxDepth)
      /\ todo' \in SUBSET input'
      /\ (kind' = "files" /\ Root \in input' => RootFileInput)
  BY <1>1, <1>2, <1>3 DEF BInv, TypeOK
<1>7. /\ DirsAreRef(dirs, DirsOf(Done)) /\ FilesAreRef(dirs, FilesOf(Done))
      /\ DirsOf(Done) \in SUBSET Seq(Components)
  <2>1. DirsAreRef(dirs, DirsOf(Done)) /\ FilesAreRef(dirs, FilesOf(Done))
    BY <1>2 DEF BInv
  <2>. QED
    BY <1>2, <1>3, <2>1, RefBound DEF Done
<1>8. DirsOf(Done)' = DirsOf(Done \cup {p}) /\ FilesOf(Done)' = FilesOf(Done \cup {p})
  BY <1>2, <1>4 DEF DirsOf, FilesOf
<1>9. DirsAreRef(dirs', DirsOf(Done)') /\ FilesAreRef(dirs', FilesOf(Done)')
      /\ ~dirs'.panicked
  <2>1. CASE p = Root
    <3>1. dirs' = AddDirWalk(dirs, p)
      BY <1>1, <2>1 DEF PrefixAddWalk
    <3>2. /\ DirsAreRef(dirs', DirsOf(Done) \cup {p})
          /\ dirs'.files = dirs.files /\ dirs'.panicked = dirs.panicked
      BY <1>4, <1>7, <3>1, AddDirRef DEF BInv
    <3>3. DirsOf(Done)' = DirsOf(Done) \cup {p} /\ FilesOf(Done)' = FilesOf(Done)
      BY <1>2, <1>8, <2>1, RefAdd
    <3>. QED
      BY <1>2, <1>7, <3>2, <3>3 DEF FilesAreRef
  <2>2. CASE p # Root
    <3>. DEFINE dir == SplitPath(p)[1]
                D1 == AddDirWalk(dirs, p)
                D2 == AddDirWalk(D1, dir)
    <3>1. dirs' = RecordFile(D2, p)
      BY <1>1, <2>2 DEF PrefixAddWalk, AddFileWalk
    <3>2. dir \in Seq(Components)
      BY <1>4, <2>2, ParentBound
    <3>3. /\ DirsAreRef(D1, DirsOf(Done) \cup {p})
          /\ D1.files = dirs.files /\ D1.panicked = dirs.panicked
          /\ IndexType(D1, Components)
      BY <1>4, <1>7, AddDirRef, AddDirWalkType DEF BInv
    <3>4. /\ DirsAreRef(D2, (DirsOf(Done) \cup {p}) \cup {dir})
          /\ D2.files = dirs.files /\ D2.panicked = dirs.panicked
          /\ IndexType(D2, Components)
      <4>1. DirsOf(Done) \cup {p} \in SUBSET Seq(Components)
        BY <1>4, <1>7
      <4>2. /\ DirsAreRef(D2, (DirsOf(Done) \cup {p}) \cup {dir})
            /\ D2.files = D1.files /\ D2.panicked = D1.panicked
        BY <3>2, <3>3, <4>1, AddDirRef
      <4>3. IndexType(D2, Components)
        BY <3>2, <3>3, AddDirWalkType
      <4>. QED
        BY <3>3, <4>2, <4>3
    <3>5. /\ FilesAreRef(dirs', FilesOf(Done) \cup {p})
          /\ dirs'.dirs = D2.dirs /\ dirs'.panicked = D2.panicked
      <4>1. FilesAreRef(D2, FilesOf(Done))
        BY <1>7, <3>4 DEF FilesAreRef
      <4>. QED
        BY <3>1, <3>4, <4>1, RecordFileRef
    <3>6. DirsOf(Done)' = (DirsOf(Done) \cup {p}) \cup {dir}
          /\ FilesOf(Done)' = FilesOf(Done) \cup {p}
      BY <1>2, <1>8, <2>2, RefAdd
    <3>. QED
      BY <1>2, <3>4, <3>5, <3>6 DEF DirsAreRef
  <2>. QED
    BY <2>1, <2>2
<1>10. /\ DOMAIN dirs'.dirs \in SUBSET PathsUpTo(MaxDepth)
       /\ DOMAIN dirs'.files \in SUBSET PathsUpTo(MaxDepth)
  <2>1. Done' \in SUBSET PathsUpTo(MaxDepth)
    BY <1>3, <1>4
  <2>2. DirsOf(Done)' = DirsOf(Done') /\ FilesOf(Done)' = FilesOf(Done')
    BY <1>2 DEF DirsOf, FilesOf
  <2>. QED
    BY <1>2, <1>9, <2>1, <2>2, RefBound
<1>11. TypeOK'
  BY <1>5, <1>6, <1>9, <1>10, IndexTypeValues DEF TypeOK
<1>. QED
  BY <1>2, <1>5, <1>6, <1>9, <1>11 DEF BInv

\* A step of the constructor, or a stutter, keeps the invariant.
LEMMA NextBInv == BInv /\ [Next]_vars => BInv'
<1> SUFFICES ASSUME BInv, [Next]_vars PROVE BInv'
  OBVIOUS
<1>1. CASE FilesMatcherNewStep
  BY <1>1, FilesStepBInv
<1>2. CASE PrefixMatcherNewStep
  BY <1>2, PrefixStepBInv
<1>3. CASE UNCHANGED vars
  BY <1>3 DEF BInv, TypeOK, DirsClosed, Done, DirsOf, vars
<1>. QED
  BY <1>1, <1>2, <1>3 DEF Next

\* A built matcher's index is the reference of all its inputs.
LEMMA BInvReference == BInv => DirsMatchReference
<1> SUFFICES ASSUME BInv, Built, kind \in {"files", "prefix"},
                    NEW d \in PathsUpTo(MaxDepth)
             PROVE  /\ Entry(dirs.dirs, d) = RefDirs(d)
                    /\ Entry(dirs.files, d) = RefFiles(d)
  BY DEF DirsMatchReference
<1>1. Done = input /\ ~dirs.panicked
  BY DEF Built, Done
<1>2. DirsAreRef(dirs, DirsOf(input)) /\ FilesAreRef(dirs, FilesOf(input))
  BY <1>1 DEF BInv
<1>3. DirsOf(input) \in SUBSET Seq(Components) /\ d \in Seq(Components)
  <2>1. input \in SUBSET PathsUpTo(MaxDepth) /\ (kind = "files" => Root \notin input)
    BY <1>1 DEF BInv, TypeOK
  <2>2. PathsUpTo(MaxDepth) = {q \in Seq(Components) : Len(q) <= MaxDepth}
    BY PathsUpToSeq
  <2>. QED
    BY <1>2, <2>1, <2>2, RefBound
<1>4. Entry(dirs.dirs, d) = RefDirs(d)
  <2>1. CASE d \in DOMAIN dirs.dirs
    BY <1>2, <2>1 DEF Entry, DirsAreRef, RefDirs
  <2>2. CASE d \notin DOMAIN dirs.dirs
    <3>1. ChildDirs(DirsOf(input), d) = {}
      BY <1>2, <1>3, <2>2, ChildDirsOutside DEF DirsAreRef
    <3>. QED
      BY <2>2, <3>1 DEF Entry, RefDirs
  <2>. QED
    BY <2>1, <2>2
<1>5. Entry(dirs.files, d) = RefFiles(d)
  <2>1. CASE d \in DOMAIN dirs.files
    BY <1>2, <2>1 DEF Entry, FilesAreRef, RefFiles
  <2>2. CASE d \notin DOMAIN dirs.files
    BY <1>2, <2>2 DEF Entry, FilesAreRef, RefFiles, ChildFiles
  <2>. QED
    BY <2>1, <2>2
<1>. QED
  BY <1>4, <1>5

-----------------------------------------------------------------------------
(* Theorems.                                                               *)

\* The inductive invariant holds in every state of every construction.
THEOREM BuildInvariant == Spec => []BInv
BY InitBInv, NextBInv, PTL DEF Spec

\* Type correctness of the construction: inputs, the loop's remaining
\* inputs and the Dirs index keep their types.
THEOREM BuildTypeCorrect == Spec => []TypeOK
<1>1. BInv => TypeOK
  BY DEF BInv
<1>. QED
  BY <1>1, BuildInvariant, PTL

\* The Dirs index a constructor builds stays closed (the invariant the
\* early exit of Dirs::add_dir depends on), after any number of loop
\* iterations in any order, for every set of components and every depth.
THEOREM BuildClosed == Spec => []DirsClosed
<1>1. BInv => DirsClosed
  BY DEF BInv
<1>. QED
  BY <1>1, BuildInvariant, PTL

\* FilesMatcher::new and PrefixMatcher::new, with add_dir's early exit,
\* return the reference index of their inputs whatever order the HashSet
\* or the BTreeSet yields them in, for every set of components and every
\* depth.
THEOREM BuildMatchesReference == Spec => []DirsMatchReference
BY BInvReference, BuildInvariant, PTL

\* A constructor never panics (add_file on the root) when no caller passes
\* the root path to FilesMatcher::new; PrefixMatcher::new never passes the
\* root prefix to add_file.
THEOREM BuildNeverPanics ==
    ASSUME ~RootFileInput
    PROVE  Spec => []ConstructionNeverPanics
<1>1. BInv => ConstructionNeverPanics
  BY DEF BInv, Done, ConstructionNeverPanics
<1>. QED
  BY <1>1, BuildInvariant, PTL

\* A constructor panics exactly when FilesMatcher::new has passed the root
\* path to add_file; PrefixMatcher::new never panics.
THEOREM PanicsOnlyOnRootFile ==
    Spec => [](dirs.panicked <=> kind = "files" /\ Root \in input \ todo)
<1>1. BInv => (dirs.panicked <=> kind = "files" /\ Root \in input \ todo)
  BY DEF BInv, Done
<1>. QED
  BY <1>1, BuildInvariant, PTL

=============================================================================
