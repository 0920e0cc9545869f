---------------------------- MODULE MatchersBuild ----------------------------
(***************************************************************************)
(* The construction of a FilesMatcher or a PrefixMatcher of matchers.rs.   *)
(*                                                                         *)
(* FilesMatcher::new and PrefixMatcher::new build a Dirs index by calling  *)
(* add_dir / add_file once per input path, in the iteration order of a     *)
(* HashSet (FilesMatcher) or of a BTreeSet (PrefixMatcher).  add_dir walks *)
(* from a directory towards the root and stops at the first directory that *)
(* was already present: that early exit is only correct if every present   *)
(* directory already has all of its ancestors linked, whatever the         *)
(* insertion order.                                                        *)
(*                                                                         *)
(* Init picks the kind and the input set, and each step is one iteration  *)
(* of the loop of FilesMatcher::new or PrefixMatcher::new, taking the      *)
(* inputs in any order.  The steps call add_dir in the closed form of      *)
(* DirsIndex, so that the module is free of recursion and theorems may use *)
(* it; Matchers states the loop itself and has TLC check, at every state  *)
(* this specification reaches, that the loop computes the same index.      *)
(***************************************************************************)
EXTENDS DirsIndex, FiniteSets

CONSTANTS
    Components,   \* path components (RepoPathComponent), model values or strings
    MaxDepth,     \* longest input path
    RootFileInput \* whether a caller may pass the root path to FilesMatcher::new

ASSUME ComponentsAssumption == Components # {}
ASSUME MaxDepthAssumption == MaxDepth \in Nat
ASSUME RootFileInputAssumption == RootFileInput \in BOOLEAN

\* All paths of at most n components.
PathsUpTo(n) == UNION {[1..k -> Components] : k \in 0..n}

Kinds == {"nothing", "everything", "files", "prefix"}

VARIABLES
    kind,    \* which matcher is being built
    input,   \* the set passed to the constructor
    todo,    \* inputs the constructor loop has not processed yet
    dirs     \* the Dirs index built so far

vars == << kind, input, todo, dirs >>

\* Inputs a caller can pass: a few files for FilesMatcher (the root only
\* if RootFileInput), a few prefixes, the root included, for PrefixMatcher;
\* the other two matchers take none.
InputSets(k) ==
    LET small(S) == {T \in SUBSET S : Cardinality(T) <= 3}
        files == IF RootFileInput THEN PathsUpTo(MaxDepth)
                 ELSE PathsUpTo(MaxDepth) \ {Root}
    IN  CASE k = "files"  -> small(files)
          [] k = "prefix" -> small(PathsUpTo(MaxDepth))
          [] OTHER        -> {{}}

Init ==
    /\ kind \in Kinds
    /\ input \in InputSets(kind)
    /\ todo = input
    /\ dirs = EmptyDirs

\* One iteration of `for f in &files { dirs.add_file(f) }` in FilesMatcher::new.
FilesMatcherNewStep ==
    /\ kind = "files"
    /\ ~dirs.panicked
    /\ \E f \in todo :
         /\ dirs' = AddFileWalk(dirs, f)
         /\ todo' = todo \ {f}
    /\ UNCHANGED << kind, input >>

\* One iteration of the loop of PrefixMatcher::new.
PrefixMatcherNewStep ==
    /\ kind = "prefix"
    /\ ~dirs.panicked
    /\ \E p \in todo :
         /\ dirs' = PrefixAddWalk(dirs, p)
         /\ todo' = todo \ {p}
    /\ UNCHANGED << kind, input >>

Next == FilesMatcherNewStep \/ PrefixMatcherNewStep

Spec == Init /\ [][Next]_vars

\* The constructor has returned: its loop is done and nothing panicked.
Built == todo = {} /\ ~dirs.panicked

-----------------------------------------------------------------------------
(* Properties.                                                             *)

TypeOK ==
    /\ kind \in Kinds
    /\ input \in SUBSET PathsUpTo(MaxDepth)
    /\ todo \in SUBSET input
    /\ DOMAIN dirs.dirs \in SUBSET PathsUpTo(MaxDepth)
    /\ DOMAIN dirs.files \in SUBSET PathsUpTo(MaxDepth)
    /\ \A d \in DOMAIN dirs.dirs : dirs.dirs[d] \in SUBSET Components
    /\ \A d \in DOMAIN dirs.files : dirs.files[d] \in SUBSET Components
    /\ dirs.panicked \in BOOLEAN

\* A constructor never panics (add_file, matchers.rs 204): PrefixMatcher::new
\* keeps the root prefix away from add_file, and FilesMatcher::new relies
\* on its caller never passing the root.
ConstructionNeverPanics == ~dirs.panicked

\* The invariant the early exit of Dirs::add_dir depends on: after any
\* number of add_dir/add_file calls, in any order, every directory in the
\* index other than the root has its parent in the index with itself
\* listed as a child, and every directory with files is in the index.
DirsClosed == IndexClosed(dirs)

\* Reference definition of the Dirs index a constructor must end with.
\* The directories it is built from: the parents of FilesMatcher's files;
\* every prefix of PrefixMatcher, and the parent of every non-root one.
DirsOf(S) ==
    IF kind = "files" THEN {SplitPath(f)[1] : f \in S}
    ELSE S \cup {SplitPath(p)[1] : p \in S \ {Root}}

\* The files: every input but the root.
FilesOf(S) == S \ {Root}

\* The child directories of d: the next component of every directory of X
\* strictly below d.  The files of d: the basenames of the files of F
\* whose parent is d.
ChildDirs(X, d) ==
    {x[Len(d) + 1] : x \in {x \in X : Len(d) < Len(x) /\ SubSeq(x, 1, Len(d)) = d}}

ChildFiles(F, d) == {SplitPath(f)[2] : f \in {f \in F : SplitPath(f)[1] = d}}

RefDirs(d) == ChildDirs(DirsOf(input), d)

RefFiles(d) == ChildFiles(FilesOf(input), d)

\* Whatever order the HashSet or BTreeSet yields the inputs in, the index
\* add_dir/add_file build with their early exit equals the reference.
DirsMatchReference ==
    Built /\ kind \in {"files", "prefix"} =>
        \A d \in PathsUpTo(MaxDepth) :
            /\ Entry(dirs.dirs, d) = RefDirs(d)
            /\ Entry(dirs.files, d) = RefFiles(d)

=============================================================================
