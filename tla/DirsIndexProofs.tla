--------------------------- MODULE DirsIndexProofs ---------------------------
(***************************************************************************)
(* Proofs that the Dirs index of matchers.rs stays closed, for any set S   *)
(* of path components and any paths over it.                               *)
(*                                                                         *)
(* The early exit of add_dir (stop at the first directory already present) *)
(* is only correct if every present directory already has its ancestors   *)
(* linked.  The index a constructor starts from is closed, and add_dir     *)
(* (in the closed form AddDirWalk, which TLC checks against the loop in    *)
(* Matchers), add_file and the loop body of PrefixMatcher::new keep it     *)
(* closed: a directory the walk creates is either the one it stopped at,   *)
(* which was present and so linked, or has its parent on the walk, which   *)
(* received it as a child.  So the index stays closed after any sequence   *)
(* of calls, in any order.                                                 *)
(***************************************************************************)
EXTENDS DirsIndex, SequenceTheorems, TLAPS

\* The maps of an index over components S: from a set of directories to
\* sets of components.
DirMaps(S) == UNION {[P -> SUBSET S] : P \in SUBSET Seq(S)}

IndexType(D, S) == D \in [dirs : DirMaps(S), files : DirMaps(S), panicked : BOOLEAN]

-----------------------------------------------------------------------------
(* Lemmas about prefixes of a path.                                        *)

\* The prefix of length k of a path is a path of length k that agrees
\* with it on its first k components.
LEMMA PrefixFacts ==
    ASSUME NEW S, NEW s \in Seq(S), NEW k \in 0..Len(s)
    PROVE  /\ SubSeq(s, 1, k) \in Seq(S)
           /\ Len(SubSeq(s, 1, k)) = k
           /\ \A i \in 1..k : SubSeq(s, 1, k)[i] = s[i]
<1>1. \A i \in 1..k : s[i] \in S
  BY ElementOfSeq
<1>. QED
  BY <1>1, SubSeqProperties

\* A non-empty prefix is not the root, and split() of the prefix of
\* length k gives the prefix of length k - 1 and the k-th component.
LEMMA SplitPrefix ==
    ASSUME NEW S, NEW s \in Seq(S), NEW k \in 1..Len(s)
    PROVE  /\ SubSeq(s, 1, k) # Root
           /\ SplitPath(SubSeq(s, 1, k))[1] = SubSeq(s, 1, k - 1)
           /\ SplitPath(SubSeq(s, 1, k))[2] = s[k]
<1>. DEFINE p == SubSeq(s, 1, k)
<1>1. p \in Seq(S) /\ Len(p) = k /\ \A i \in 1..k : p[i] = s[i]
  BY PrefixFacts
<1>2. p # Root
  BY <1>1 DEF Root
<1>3. SubSeq(p, 1, k - 1) = SubSeq(s, 1, k - 1)
  <2>1. SubSeq(p, 1, k - 1) \in Seq(S) /\ Len(SubSeq(p, 1, k - 1)) = k - 1
        /\ \A i \in 1..k - 1 : SubSeq(p, 1, k - 1)[i] = p[i]
    BY <1>1, PrefixFacts
  <2>2. SubSeq(s, 1, k - 1) \in Seq(S) /\ Len(SubSeq(s, 1, k - 1)) = k - 1
        /\ \A i \in 1..k - 1 : SubSeq(s, 1, k - 1)[i] = s[i]
    BY PrefixFacts
  <2>. QED
    BY <1>1, <2>1, <2>2, SeqEqual
<1>. QED
  BY <1>1, <1>2, <1>3 DEF SplitPath

\* The whole path is its own prefix of full length.
LEMMA FullPrefix ==
    ASSUME NEW S, NEW s \in Seq(S)
    PROVE  SubSeq(s, 1, Len(s)) = s
BY SubSeqFull

-----------------------------------------------------------------------------
(* add_dir.                                                                *)

\* A directory the walk visits is the prefix of dir of its own length.
LEMMA WalkedPaths ==
    ASSUME NEW S, NEW D, NEW dir \in Seq(S), NEW a \in Walked(D, dir)
    PROVE  /\ a \in Seq(S)
           /\ Len(a) \in WalkedLengths(D, dir)
           /\ a = SubSeq(dir, 1, Len(a))
<1>1. PICK k \in WalkedLengths(D, dir) : a = SubSeq(dir, 1, k)
  BY DEF Walked
<1>2. k \in 0..Len(dir)
  BY DEF WalkedLengths
<1>. QED
  BY <1>1, <1>2, PrefixFacts

\* The walk always gives dir itself an entry: it visits dir first.
LEMMA WalkAddsDir ==
    ASSUME NEW S, NEW D, IndexType(D, S), NEW dir \in Seq(S)
    PROVE  dir \in DOMAIN AddDirWalk(D, dir).dirs
<1>1. Len(dir) \in WalkedLengths(D, dir)
  BY LenProperties DEF WalkedLengths
<1>2. dir \in Walked(D, dir)
  BY <1>1, FullPrefix DEF Walked
<1>. QED
  BY <1>2 DEF AddDirWalk, IndexType

\* add_dir yields an index over the same components.
LEMMA AddDirWalkType ==
    ASSUME NEW S, NEW D, IndexType(D, S), NEW dir \in Seq(S)
    PROVE  IndexType(AddDirWalk(D, dir), S)
<1>. DEFINE P == DOMAIN D.dirs \cup Walked(D, dir)
            N == [a \in P |-> Entry(D.dirs, a) \cup WalkChild(D, dir, a)]
<1>1. AddDirWalk(D, dir) = [D EXCEPT !.dirs = N]
  BY DEF AddDirWalk
<1>2. P \in SUBSET Seq(S)
  BY WalkedPaths DEF IndexType, DirMaps
<1>3. ASSUME NEW a \in P PROVE WalkChild(D, dir, a) \in SUBSET S
  <2>1. CASE a \in Walked(D, dir) /\ Len(a) < Len(dir)
    <3>1. Len(a) \in Nat
      BY <2>1, WalkedPaths, LenProperties
    <3>2. dir[Len(a) + 1] \in S
      BY <2>1, <3>1, ElementOfSeq
    <3>. QED
      BY <2>1, <3>2 DEF WalkChild
  <2>. QED
    BY <2>1 DEF WalkChild
<1>4. \A a \in P : Entry(D.dirs, a) \in SUBSET S
  BY DEF Entry, IndexType, DirMaps
<1>5. N \in [P -> SUBSET S]
  BY <1>3, <1>4
<1>6. N \in DirMaps(S)
  BY <1>2, <1>5 DEF DirMaps
<1>. QED
  BY <1>1, <1>6 DEF IndexType

\* add_dir keeps the index closed, whatever was present before: the walk
\* either stops at a present directory, linked already, or has visited
\* its parent next, which received it as the child it came from.
THEOREM AddDirKeepsClosed ==
    ASSUME NEW S, NEW D, IndexType(D, S), IndexClosed(D), NEW dir \in Seq(S)
    PROVE  IndexClosed(AddDirWalk(D, dir))
<1>. DEFINE W == Walked(D, dir)
            N == [a \in DOMAIN D.dirs \cup W |-> Entry(D.dirs, a) \cup WalkChild(D, dir, a)]
<1>1. AddDirWalk(D, dir).dirs = N /\ AddDirWalk(D, dir).files = D.files
  BY DEF AddDirWalk, IndexType
<1>2. \A a \in DOMAIN D.dirs : D.dirs[a] \subseteq N[a]
  BY DEF Entry
<1>3. ASSUME NEW d \in DOMAIN N \ {Root}
      PROVE  SplitPath(d)[1] \in DOMAIN N /\ SplitPath(d)[2] \in N[SplitPath(d)[1]]
  <2>1. CASE d \in DOMAIN D.dirs
    BY <1>2, <2>1 DEF IndexClosed
  <2>2. CASE d \notin DOMAIN D.dirs
    <3>1. d \in W
      BY <2>2
    <3>2. PICK k \in WalkedLengths(D, dir) : d = SubSeq(dir, 1, k)
      BY <3>1 DEF Walked
    <3>3. k \in 1..Len(dir)
      <4>1. k \in 0..Len(dir)
        BY DEF WalkedLengths
      <4>2. k # 0
        <5>1. SubSeq(dir, 1, 0) = << >>
          BY SubSeqEmpty
        <5>. QED
          BY <3>2, <5>1 DEF Root
      <4>. QED
        BY <4>1, <4>2
    <3>4. SplitPath(d)[1] = SubSeq(dir, 1, k - 1) /\ SplitPath(d)[2] = dir[k]
      BY <3>2, <3>3, SplitPrefix
    <3>5. k - 1 \in WalkedLengths(D, dir)
      BY <2>2, <3>2, <3>3 DEF WalkedLengths
    <3>6. SubSeq(dir, 1, k - 1) \in W
      BY <3>5 DEF Walked
    <3>7. Len(SubSeq(dir, 1, k - 1)) = k - 1
      BY <3>3, PrefixFacts
    <3>8. WalkChild(D, dir, SubSeq(dir, 1, k - 1)) = {dir[k]}
      BY <3>3, <3>6, <3>7 DEF WalkChild
    <3>. QED
      BY <3>4, <3>6, <3>8
  <2>. QED
    BY <2>1, <2>2
<1>4. DOMAIN D.files \subseteq DOMAIN N
  BY DEF IndexClosed
<1>. QED
  BY <1>1, <1>3, <1>4 DEF IndexClosed

-----------------------------------------------------------------------------
(* add_file and the constructors.                                          *)

\* split() of a non-root path gives a path over the same components and
\* one of its components.
LEMMA SplitFile ==
    ASSUME NEW S, NEW file \in Seq(S), file # Root
    PROVE  SplitPath(file)[1] \in Seq(S) /\ SplitPath(file)[2] \in S
<1>1. Len(file) \in 1..Len(file)
  BY EmptySeq DEF Root
<1>2. SplitPath(SubSeq(file, 1, Len(file)))[1] = SubSeq(file, 1, Len(file) - 1)
      /\ SplitPath(SubSeq(file, 1, Len(file)))[2] = file[Len(file)]
  BY <1>1, SplitPrefix
<1>3. SubSeq(file, 1, Len(file) - 1) \in Seq(S) /\ file[Len(file)] \in S
  BY <1>1, PrefixFacts, ElementOfSeq
<1>. QED
  BY <1>2, <1>3, FullPrefix

\* Recording a basename under a directory that is in the index keeps the
\* index closed.
LEMMA RecordFileKeepsClosed ==
    ASSUME NEW S, NEW D, IndexType(D, S), IndexClosed(D),
           NEW file \in Seq(S), file # Root,
           SplitPath(file)[1] \in DOMAIN D.dirs
    PROVE  IndexType(RecordFile(D, file), S) /\ IndexClosed(RecordFile(D, file))
<1>. DEFINE dir == SplitPath(file)[1]
            F == Put(D.files, dir, Entry(D.files, dir) \cup {SplitPath(file)[2]})
<1>1. RecordFile(D, file) = [D EXCEPT !.files = F]
  BY DEF RecordFile
<1>2. dir \in Seq(S) /\ SplitPath(file)[2] \in S
  BY SplitFile
<1>3. F \in DirMaps(S)
  <2>1. DOMAIN F = DOMAIN D.files \cup {dir}
    BY DEF Put
  <2>2. DOMAIN D.files \cup {dir} \in SUBSET Seq(S)
    BY <1>2 DEF IndexType, DirMaps
  <2>3. F \in [DOMAIN D.files \cup {dir} -> SUBSET S]
    BY <1>2 DEF Put, Entry, IndexType, DirMaps
  <2>. QED
    BY <2>2, <2>3 DEF DirMaps
<1>4. DOMAIN F \subseteq DOMAIN D.dirs
  BY DEF Put, IndexClosed
<1>. QED
  BY <1>1, <1>3, <1>4 DEF IndexType, IndexClosed

\* add_file keeps the index closed: add_dir links the parent, and only
\* then is the basename recorded under it.
THEOREM AddFileKeepsClosed ==
    ASSUME NEW S, NEW D, IndexType(D, S), IndexClosed(D), NEW file \in Seq(S)
    PROVE  /\ IndexType(AddFileWalk(D, file), S)
           /\ IndexClosed(AddFileWalk(D, file))
<1>1. CASE file = Root
  BY <1>1 DEF AddFileWalk, IndexType, IndexClosed
<1>2. CASE file # Root
  <2>. DEFINE dir == SplitPath(file)[1]
              D1 == AddDirWalk(D, dir)
  <2>1. dir \in Seq(S)
    BY <1>2, SplitFile
  <2>2. IndexType(D1, S) /\ IndexClosed(D1) /\ dir \in DOMAIN D1.dirs
    BY <2>1, AddDirWalkType, AddDirKeepsClosed, WalkAddsDir
  <2>3. AddFileWalk(D, file) = RecordFile(D1, file)
    BY <1>2 DEF AddFileWalk
  <2>. QED
    BY <1>2, <2>2, <2>3, RecordFileKeepsClosed
<1>. QED
  BY <1>1, <1>2

\* The loop body of PrefixMatcher::new keeps the index closed, for the
\* root prefix (add_dir only) and for any other (add_dir, then add_file).
THEOREM PrefixAddKeepsClosed ==
    ASSUME NEW S, NEW D, IndexType(D, S), IndexClosed(D), NEW p \in Seq(S)
    PROVE  /\ IndexType(PrefixAddWalk(D, p), S)
           /\ IndexClosed(PrefixAddWalk(D, p))
<1>1. IndexType(AddDirWalk(D, p), S) /\ IndexClosed(AddDirWalk(D, p))
  BY AddDirWalkType, AddDirKeepsClosed
<1>2. CASE p # Root
  <2>1. PrefixAddWalk(D, p) = AddFileWalk(AddDirWalk(D, p), p)
    BY <1>2 DEF PrefixAddWalk
  <2>. QED
    BY <1>1, <2>1, AddFileKeepsClosed
<1>3. CASE p = Root
  BY <1>1, <1>3 DEF PrefixAddWalk
<1>. QED
  BY <1>2, <1>3

\* Dirs::new() is a closed index.
THEOREM EmptyDirsClosed ==
    ASSUME NEW S
    PROVE  IndexType(EmptyDirs, S) /\ IndexClosed(EmptyDirs)
<1>1. << >> \in DirMaps(S)
  <2>1. << >> \in [{} -> SUBSET S] /\ {} \in SUBSET Seq(S)
    OBVIOUS
  <2>. QED
    BY <2>1 DEF DirMaps
<1>. QED
  BY <1>1 DEF EmptyDirs, IndexType, IndexClosed

=============================================================================
