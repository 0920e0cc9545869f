---------------------------- MODULE MatchersVisit ----------------------------
(***************************************************************************)
(* The path matchers of matchers.rs: matches(file) and visit(dir) of the   *)
(* four matchers over the Dirs index that MatchersBuild constructs, and    *)
(* the traversal a caller makes with visit.  The module is free of         *)
(* recursion so that theorems may use it.                                  *)
(***************************************************************************)
EXTENDS MatchersBuild

(* Visit values.  The matchers of this file only ever build the Set        *)
(* variants of VisitDirs and VisitFiles, so a Some visit carries two sets. *)

AllRecursively == [tag |-> "all"]

VisitSome(dirSet, fileSet) == [tag |-> "some", dirs |-> dirSet, files |-> fileSet]

\* Visit::nothing(): a Some visit with two empty sets.
VisitNothing == VisitSome({}, {})

-----------------------------------------------------------------------------
(* The Dirs index read back.                                               *)

\* Dirs::get_dirs, Dirs::get_files
GetDirs(D, dir) == Entry(D.dirs, dir)
GetFiles(D, dir) == Entry(D.files, dir)

-----------------------------------------------------------------------------
(* The four matchers, as records, and the Matcher trait dispatch.          *)

NothingMatcher == [kind |-> "nothing"]
EverythingMatcher == [kind |-> "everything"]

\* FilesMatcher::matches / FilesMatcher::visit
FilesMatches(m, file) == file \in m.files
FilesVisit(m, dir) == VisitSome(GetDirs(m.dirs, dir), GetFiles(m.dirs, dir))

\* PrefixMatcher::visit: a matched directory is visited recursively,
\* anything else through the Dirs index.
PrefixVisit(m, dir) ==
    IF PrefixMatches(m.prefixes, dir)
      THEN AllRecursively
      ELSE VisitSome(GetDirs(m.dirs, dir), GetFiles(m.dirs, dir))

\* Matcher::matches and Matcher::visit for the four implementations.
Matches(m, file) ==
    CASE m.kind = "nothing"    -> FALSE
      [] m.kind = "everything" -> TRUE
      [] m.kind = "files"      -> FilesMatches(m, file)
      [] m.kind = "prefix"     -> PrefixMatches(m.prefixes, file)

Visit(m, dir) ==
    CASE m.kind = "nothing"    -> VisitNothing
      [] m.kind = "everything" -> AllRecursively
      [] m.kind = "files"      -> FilesVisit(m, dir)
      [] m.kind = "prefix"     -> PrefixVisit(m, dir)

\* The matcher the constructor returns once its loop is done.
Matcher ==
    CASE kind = "files"  -> [kind |-> "files", files |-> input, dirs |-> dirs]
      [] kind = "prefix" -> [kind |-> "prefix", prefixes |-> input, dirs |-> dirs]
      [] OTHER           -> [kind |-> kind]

-----------------------------------------------------------------------------
(* Properties.                                                             *)

\* The traversal the snapshot makes with a matcher (specification, 8.2):
\* from the root, a directory whose visit is AllRecursively admits
\* everything below it; otherwise only the listed subdirectories are
\* entered and, in the file's own directory, only the listed basenames
\* are considered.  So the walk reaches file when, for some ancestor at
\* depth i, every shallower ancestor was a Some visit listing the next
\* component as a subdirectory, and the visit at depth i is
\* AllRecursively or is that of the file's own directory listing its
\* basename.
WalkReaches(m, file) ==
    LET n == Len(file)
        V(i) == Visit(m, SubSeq(file, 1, i))
    IN  \E i \in 0..(n - 1) :
          /\ \A j \in 0..(i - 1) : V(j).tag = "some" /\ file[j + 1] \in V(j).dirs
          /\ \/ V(i).tag = "all"
             \/ i = n - 1 /\ V(i).tag = "some" /\ file[n] \in V(i).files

\* Matcher correctness (specification, section 8.2): once built, a matcher
\* matches a file exactly when the visit-guided traversal reaches it, for
\* files one level deeper than any input, so that the AllRecursively
\* shortcut below a prefix is exercised.  Pruning never hides a matched
\* file and never admits an unmatched one.
VisitAgreesWithMatches ==
    Built =>
        \A f \in PathsUpTo(MaxDepth + 1) \ {Root} :
            Matches(Matcher, f) <=> WalkReaches(Matcher, f)

=============================================================================
