---------------------------- MODULE MCWorkingCopy ----------------------------
(***************************************************************************)
(* A small instance of the working-copy engine: a top-level path and a    *)
(* file in a directory, two contents.  The trees hold a submodule at a   *)
(* (added and removed by checkouts) and change d/b; the sparse patterns   *)
(* admit both paths or only d; the gitignore may ignore d/b.              *)
(***************************************************************************)
EXTENDS WorkingCopy

MCFilePaths == {<<"a">>, <<"d", "b">>}
MCBlobs == {"b1", "b2"}
MCDotGit == ".git"
MCMaxClock == 1

\* Checkout applies its diff in path order.
MCPathOrder == << <<"a">>, <<"d", "b">> >>

MCTreeA == [p \in MCFilePaths |->
               IF p = <<"a">> THEN [kind |-> "submodule", id |-> "b1"]
               ELSE [kind |-> "normal", id |-> "b1"]]
MCTreeB == [p \in MCFilePaths |->
               IF p = <<"a">> THEN Absent
               ELSE [kind |-> "normal", id |-> "b2"]]
MCTrees == {MCTreeA, MCTreeB}

\* The sparse run narrows to d and widens back; the snapshot run keeps
\* the root pattern and lets the gitignore ignore d/b.
MCPatternSets == {{Root}, {<<"d">>}}
MCRootPatterns == {{Root}}
MCIgnoreSets == {{}, {<<"d", "b">>}}
MCNoIgnores == {{}}

\* The .git instance (test_dotgit_ignored): a file inside .git next to a
\* top-level file; one tree writes a, the other would put a file under
\* .git, which check_out and reset reject.  The gitignore may ignore a.
MCDotGitPaths == {<<".git", "file">>, <<"a">>}
MCDotGitOrder == << <<".git", "file">>, <<"a">> >>
MCDotGitTrees ==
    { [p \in MCDotGitPaths |->
         IF p = <<"a">> THEN [kind |-> "normal", id |-> "b1"] ELSE Absent],
      [p \in MCDotGitPaths |->
         IF p = <<"a">> THEN Absent ELSE [kind |-> "normal", id |-> "b2"]] }
MCDotGitIgnores == {{}, {<<"a">>}}

=============================================================================
