---------------------------- MODULE MatchersTests ----------------------------
(***************************************************************************)
(* The unit tests of matchers.rs, replayed on the model.                   *)
(*                                                                         *)
(* NewFilesMatcher and NewPrefixMatcher run the constructor loops of       *)
(* Matchers to the end in one go, as a fold over the input set in the      *)
(* order CHOOSE picks (the state machine of MatchersBuild covers every    *)
(* other order).  Each Test definition is the list of assertions of one   *)
(* #[test] function; paths are sequences of strings, as                   *)
(* from_internal_string would split them on "/".  A test whose            *)
(* constructor panics fails, so each test of a constructor asserts that   *)
(* it did not.                                                             *)
(***************************************************************************)
EXTENDS Matchers

\* FilesMatcher::new(files): add_file for every file.
NewFilesMatcher(files) ==
    [kind |-> "files", files |-> files,
     dirs |-> FoldSet(LAMBDA f, D : AddFile(D, f), EmptyDirs, files)]

\* PrefixMatcher::new(prefixes): the body of its loop for every prefix.
NewPrefixMatcher(prefixes) ==
    [kind |-> "prefix", prefixes |-> prefixes,
     dirs |-> FoldSet(LAMBDA p, D : PrefixMatcherAdd(D, p), EmptyDirs, prefixes)]

-----------------------------------------------------------------------------
(* The tests of Dirs.                                                      *)

TestDirsEmpty == GetDirs(EmptyDirs, Root) = {}

TestDirsRoot == GetDirs(AddDir(EmptyDirs, Root), Root) = {}

TestDirsDir == GetDirs(AddDir(EmptyDirs, <<"dir">>), Root) = {"dir"}

TestDirsFile ==
    LET D == AddFile(EmptyDirs, <<"dir", "file">>)
    IN  /\ GetDirs(D, Root) = {"dir"}
        /\ GetFiles(D, Root) = {}

-----------------------------------------------------------------------------
(* The tests of the matchers.  The first three share their assertions.     *)

\* A matcher that matches nothing and visits nothing from the root.
MatchesNothing(m) ==
    /\ ~Matches(m, <<"file">>)
    /\ ~Matches(m, <<"dir", "file">>)
    /\ Visit(m, Root) = VisitNothing

TestNothingMatcher == MatchesNothing(NothingMatcher)

\* The constructor of m returned instead of panicking.
Returned(m) == ~m.dirs.panicked

TestFilesMatcherEmpty ==
    LET m == NewFilesMatcher({})
    IN  Returned(m) /\ MatchesNothing(m)

TestFilesMatcherNonempty ==
    LET m == NewFilesMatcher({<<"dir1", "subdir1", "file1">>,
                              <<"dir1", "subdir1", "file2">>,
                              <<"dir1", "subdir2", "file3">>,
                              <<"file4">>})
    IN  /\ Returned(m)
        /\ Visit(m, Root) = VisitSome({"dir1"}, {"file4"})
        /\ Visit(m, <<"dir1">>) = VisitSome({"subdir1", "subdir2"}, {})
        /\ Visit(m, <<"dir1", "subdir1">>) = VisitSome({}, {"file1", "file2"})
        /\ Visit(m, <<"dir1", "subdir2">>) = VisitSome({}, {"file3"})

TestPrefixMatcherEmpty ==
    LET m == NewPrefixMatcher({})
    IN  Returned(m) /\ MatchesNothing(m)

TestPrefixMatcherRoot ==
    LET m == NewPrefixMatcher({Root})
    IN  /\ Returned(m)
        /\ Matches(m, <<"file">>)
        /\ Matches(m, <<"dir", "file">>)
        /\ Visit(m, Root) = AllRecursively
        /\ Visit(m, <<"foo", "bar">>) = AllRecursively

TestPrefixMatcherSinglePrefix ==
    LET m == NewPrefixMatcher({<<"foo", "bar">>})
    IN  /\ Returned(m)
        /\ ~Matches(m, <<"foo">>)
        /\ ~Matches(m, <<"bar">>)
        /\ Matches(m, <<"foo", "bar">>)
        /\ Matches(m, <<"foo", "bar", "baz">>)
        /\ Matches(m, <<"foo", "bar", "baz", "qux">>)
        /\ ~Matches(m, <<"foo", "foo">>)
        /\ ~Matches(m, <<"bar", "foo", "bar">>)
        /\ Visit(m, Root) = VisitSome({"foo"}, {})
        /\ Visit(m, <<"foo">>) = VisitSome({"bar"}, {"bar"})
        /\ Visit(m, <<"foo", "bar">>) = AllRecursively
        /\ Visit(m, <<"foo", "bar", "baz">>) = AllRecursively
        /\ Visit(m, <<"bar">>) = VisitNothing

TestPrefixMatcherNestedPrefixes ==
    LET m == NewPrefixMatcher({<<"foo">>, <<"foo", "bar", "baz">>})
    IN  /\ Returned(m)
        /\ Matches(m, <<"foo">>)
        /\ ~Matches(m, <<"bar">>)
        /\ Matches(m, <<"foo", "bar">>)
        /\ Matches(m, <<"foo", "baz", "foo">>)
        /\ Visit(m, Root) = VisitSome({"foo"}, {"foo"})
        /\ Visit(m, <<"foo">>) = AllRecursively
        /\ Visit(m, <<"foo", "bar", "baz">>) = AllRecursively

-----------------------------------------------------------------------------
(* The test harness: `cargo test` runs the #[test] functions one at a time *)
(* or on parallel threads, in no fixed order, and reports the ones that    *)
(* failed.  The tests share no state, so a run is a sequence of them in    *)
(* any order.  The matcher construction of Matchers plays no part and its  *)
(* variables stay at Dirs::new().                                          *)

\* The outcome of every test function, by its name.
TestOutcome ==
    [test_dirs_empty                   |-> TestDirsEmpty,
     test_dirs_root                    |-> TestDirsRoot,
     test_dirs_dir                     |-> TestDirsDir,
     test_dirs_file                    |-> TestDirsFile,
     test_nothingmatcher               |-> TestNothingMatcher,
     test_filesmatcher_empty           |-> TestFilesMatcherEmpty,
     test_filesmatcher_nonempty        |-> TestFilesMatcherNonempty,
     test_prefixmatcher_empty          |-> TestPrefixMatcherEmpty,
     test_prefixmatcher_root           |-> TestPrefixMatcherRoot,
     test_prefixmatcher_single_prefix  |-> TestPrefixMatcherSinglePrefix,
     test_prefixmatcher_nested_prefixes |-> TestPrefixMatcherNestedPrefixes]

VARIABLES
    pending,  \* tests not run yet
    failed    \* tests that ran and failed

testVars == << pending, failed >>

TestsInit ==
    /\ kind = "nothing" /\ input = {} /\ todo = {} /\ dirs = EmptyDirs
    /\ pending = DOMAIN TestOutcome
    /\ failed = {}

\* One test function runs to the end and passes or fails.
RunTest ==
    /\ \E t \in pending :
         /\ pending' = pending \ {t}
         /\ failed' = IF TestOutcome[t] THEN failed ELSE failed \cup {t}
    /\ UNCHANGED vars

TestsSpec == TestsInit /\ [][RunTest]_<< vars, testVars >>

\* Every unit test of matchers.rs passes on the model: whichever tests have
\* run, in whatever order, none failed: the constructors returned, and
\* matches and visit of the model gave the answers the tests assert
\* (test_dirs_empty to test_prefixmatcher_nested_prefixes).
UnitTestsPass == failed = {}

=============================================================================
