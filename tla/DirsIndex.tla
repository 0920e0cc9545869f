------------------------------ MODULE DirsIndex ------------------------------
(***************************************************************************)
(* The Dirs index of matchers.rs without recursion, so that theorems may   *)
(* use it.                                                                 *)
(*                                                                         *)
(* A Dirs index is a record of two maps, directory -> child directories    *)
(* and directory -> file basenames, each a function whose domain is the   *)
(* set of keys present, and the flag that add_file panicked.  The loop of *)
(* add_dir is stated in closed form: it visits dir and then its ancestors, *)
(* inserting into each the child it came from, and stops at the first one *)
(* that was already present or at the root.  So it visits exactly the     *)
(* ancestors-or-self of dir whose deeper ancestors were all absent.        *)
(* Matchers keeps the loop itself and has TLC check that both agree.       *)
(***************************************************************************)
EXTENDS Paths

\* entry(key).or_default() read back, as get_dirs and get_files do.
Entry(map, key) == IF key \in DOMAIN map THEN map[key] ELSE {}

\* Insert or overwrite one key of a map.
Put(map, key, val) ==
    [k \in DOMAIN map \cup {key} |-> IF k = key THEN val ELSE map[k]]

\* Dirs::new().
EmptyDirs == [dirs |-> << >>, files |-> << >>, panicked |-> FALSE]

\* The lengths of the ancestors-or-self of dir the loop of add_dir visits:
\* those below which every ancestor of dir was absent.
WalkedLengths(D, dir) ==
    {k \in 0..Len(dir) :
       \A j \in (k + 1)..Len(dir) : SubSeq(dir, 1, j) \notin DOMAIN D.dirs}

Walked(D, dir) == {SubSeq(dir, 1, k) : k \in WalkedLengths(D, dir)}

\* The child the loop carries into a visited directory a: the next
\* component of dir below a (none at dir itself).
WalkChild(D, dir, a) ==
    IF a \in Walked(D, dir) /\ Len(a) < Len(dir) THEN {dir[Len(a) + 1]} ELSE {}

\* Mutant of AddDirWalk: the closed form of a loop that takes the
\* was_present exit before inserting the child it came from.
AddDirWalkExitFirst(D, dir) ==
    [D EXCEPT !.dirs =
        [a \in DOMAIN D.dirs \cup Walked(D, dir) |->
           Entry(D.dirs, a) \cup
             (IF a \in DOMAIN D.dirs THEN {} ELSE WalkChild(D, dir, a))]]

\* Dirs::add_dir in closed form: every visited directory gets an entry,
\* and the child it was reached from.
AddDirWalk(D, dir) ==
    [D EXCEPT !.dirs =
        [a \in DOMAIN D.dirs \cup Walked(D, dir) |->
           Entry(D.dirs, a) \cup WalkChild(D, dir, a)]]

\* Mutant of RecordFile: the whole path recorded instead of the basename.
RecordFileWholePath(D, file) ==
    LET dir == SplitPath(file)[1]
    IN  [D EXCEPT !.files = Put(@, dir, Entry(@, dir) \cup {file})]

\* The last line of Dirs::add_file: the basename recorded under its parent.
RecordFile(D, file) ==
    LET dir == SplitPath(file)[1]
    IN  [D EXCEPT !.files = Put(@, dir, Entry(@, dir) \cup {SplitPath(file)[2]})]

\* Mutant of AddFileWalk: the basename recorded without add_dir on the
\* parent.
AddFileWalkWithoutDir(D, file) ==
    IF file = Root THEN [D EXCEPT !.panicked = TRUE] ELSE RecordFile(D, file)

\* Dirs::add_file with add_dir in closed form: split() of the root is None
\* and unwrap_or_else panics; otherwise add_dir on the parent, then record
\* the basename.
AddFileWalk(D, file) ==
    IF file = Root THEN [D EXCEPT !.panicked = TRUE]
    ELSE RecordFile(AddDirWalk(D, SplitPath(file)[1]), file)

\* Mutant of PrefixAddWalk: the prefix entered as a directory only, never
\* as a file of its parent.
PrefixAddWalkDirOnly(D, p) == AddDirWalk(D, p)

\* Mutant of PrefixAddWalk: add_file called on the root prefix too.
PrefixAddWalkNoRootGuard(D, p) == AddFileWalk(AddDirWalk(D, p), p)

\* The body of the loop of PrefixMatcher::new with add_dir in closed form:
\* add_dir, then add_file unless the prefix is the root.
PrefixAddWalk(D, p) ==
    IF p # Root THEN AddFileWalk(AddDirWalk(D, p), p) ELSE AddDirWalk(D, p)

\* The index is closed: every directory in it other than the root has its
\* parent in it with itself listed as a child, and every directory with
\* files is in it.  The early exit of add_dir relies on this.
IndexClosed(D) ==
    /\ \A d \in DOMAIN D.dirs \ {Root} :
         /\ SplitPath(d)[1] \in DOMAIN D.dirs
         /\ SplitPath(d)[2] \in D.dirs[SplitPath(d)[1]]
    /\ DOMAIN D.files \subseteq DOMAIN D.dirs

=============================================================================
