------------------------------- MODULE Paths -------------------------------
(***************************************************************************)
(* Repository paths (RepoPath) and the prefix test of PrefixMatcher.       *)
(*                                                                         *)
(* A RepoPath is an ordered sequence of components; the root is the empty  *)
(* sequence.  The type itself lives in repo_path.rs, which is not part of  *)
(* this source tree, so Root and SplitPath follow the data model of the    *)
(* specification.  PrefixMatches is PrefixMatcher::matches of matchers.rs. *)
(* The module is free of recursion so that theorems may use it.            *)
(***************************************************************************)
EXTENDS Naturals, Sequences

\* RepoPath::root(): the empty sequence of components.
Root == << >>

\* RepoPath::split(): the parent directory and the basename of a non-root
\* path, as a pair.
SplitPath(p) == << SubSeq(p, 1, Len(p) - 1), p[Len(p)] >>

\* PrefixMatcher::matches: the loop over i in 0..components.len() tries
\* every ancestor-or-self of file (the root included) against the prefix
\* set and answers TRUE on the first hit.
PrefixMatches(prefixes, file) ==
    \E i \in 0..Len(file) : SubSeq(file, 1, i) \in prefixes

=============================================================================
