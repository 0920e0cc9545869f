------------------------------ MODULE Matchers ------------------------------
(***************************************************************************)
(* Dirs::add_dir of matchers.rs as the loop it is, and add_file and the   *)
(* loop body of PrefixMatcher::new built on it.  The module uses RECURSIVE *)
(* operators and is only model-checked: AddDirIsWalk has TLC check that   *)
(* the loop computes the closed form of DirsIndex that MatchersBuild and   *)
(* the theorems use.                                                       *)
(***************************************************************************)
EXTENDS MatchersVisit, SequencesExt

-----------------------------------------------------------------------------
(* The Dirs index (DirsIndex): Entry is entry(k).or_default() read back, *)
(* Put inserts or overwrites one key.  The flag panicked records that a    *)
(* call panicked (add_file on the root path), which aborts the constructor.*)

\* Mutant of AddDirLoop: the was_present exit taken before the child from
\* below is inserted.
RECURSIVE AddDirLoopExitFirst(_, _, _)
AddDirLoopExitFirst(D, dir, maybeChild) ==
    IF dir \in DOMAIN D.dirs THEN D
    ELSE LET D1 == [D EXCEPT !.dirs = Put(@, dir, Entry(@, dir) \cup maybeChild)]
         IN  IF dir = Root THEN D1
             ELSE AddDirLoopExitFirst(D1, SplitPath(dir)[1], {SplitPath(dir)[2]})

\* One pass of the loop of Dirs::add_dir, at directory dir, carrying the
\* child reached from below (a set of at most one component: the Option
\* maybe_child).  The child is inserted before the was_present exit; the
\* walk ends at the first directory already present or at the root.
RECURSIVE AddDirLoop(_, _, _)
AddDirLoop(D, dir, maybeChild) ==
    LET wasPresent == dir \in DOMAIN D.dirs
        D1 == [D EXCEPT !.dirs = Put(@, dir, Entry(@, dir) \cup maybeChild)]
    IN  IF wasPresent \/ dir = Root
          THEN D1
          ELSE AddDirLoop(D1, SplitPath(dir)[1], {SplitPath(dir)[2]})

\* Dirs::add_dir
AddDir(D, dir) == AddDirLoop(D, dir, {})

\* Dirs::add_file: split() of the root is None and unwrap_or_else panics;
\* otherwise add_dir on the parent, then record the basename.
AddFile(D, file) ==
    IF file = Root THEN [D EXCEPT !.panicked = TRUE]
    ELSE RecordFile(AddDir(D, SplitPath(file)[1]), file)

-----------------------------------------------------------------------------
(* The loop body of PrefixMatcher::new.                                    *)

\* Mutant of PrefixMatcherAdd: add_file called on the root prefix too.
PrefixMatcherAddNoRootGuard(D, p) == AddFile(AddDir(D, p), p)

\* The body of the loop of PrefixMatcher::new: add_dir, then add_file
\* unless the prefix is the root.
PrefixMatcherAdd(D, p) ==
    IF p # Root THEN AddFile(AddDir(D, p), p) ELSE AddDir(D, p)

-----------------------------------------------------------------------------
(* Properties.                                                             *)

\* The loop of Dirs::add_dir, with its was_present exit, computes the
\* closed form AddDirWalk (the ancestors-or-self of dir below which all
\* were absent get an entry and the child they were reached from), from
\* every index the constructors reach and for every directory; so do
\* add_file and the loop body of PrefixMatcher::new built on the loop.
\* Then every step of MatchersBuild, which calls the closed forms, is the
\* step the code takes, and the theorems of DirsIndexProofs and
\* MatchersBuildProofs are about the index the code builds.
AddDirIsWalk ==
    \A d \in PathsUpTo(MaxDepth) :
        /\ AddDir(dirs, d) = AddDirWalk(dirs, d)
        /\ AddFile(dirs, d) = AddFileWalk(dirs, d)
        /\ PrefixMatcherAdd(dirs, d) = PrefixAddWalk(dirs, d)

=============================================================================
