# Formal models of the jj working copy and its matchers

This directory holds TLA+ models of the code under `src/`. It has TLC
configurations that model-check them on small instances, and TLAPS proofs
of the main invariants for every instance.

## The system

The repository holds two kinds of code:

- `src/lib/src/matchers.rs` is the only implementation file. It holds the
  path matchers, which decide which files an operation touches and which
  directories a traversal enters.
- The working-copy engine, `working_copy.rs`, is not in this tree. Its
  behaviour is fixed by the specification (`spec.md`, sections 3-5) and by
  the tests in `src/lib/tests/test_working_copy.rs` and
  `test_working_copy_sparse.rs`.
- `src/tests/test_sparse_command.rs` drives the `jj sparse` command line.
- `src/benches/diff_bench.rs` benchmarks a text diff.

The parts and how they interact:

| Part | State | Operations | Interacts with |
|---|---|---|---|
| Matchers | the Dirs index: dir -> child dirs, dir -> file basenames | `new` of FilesMatcher and PrefixMatcher, `matches`, `visit` | sparse patterns become a PrefixMatcher, which checkout, snapshot and set_sparse_patterns use |
| Tree state, in memory | current tree, file-state index, sparse patterns, own mtime | check_out, reset, write_tree (snapshot), set_sparse_patterns | the disk; the lock; tree_state |
| Tree state, persisted | the `tree_state` file | written by finish, read by load and discard | the in-memory tree state |
| Scoped mutation | the workspace lock | start_mutation, finish, discard | all tree-state operations |
| Working directory | files, their content, type and mtime | written by the engine and by the user at any time | snapshot, checkout |
| Gitignore | the set of ignored paths | edited by the user at any time | snapshot |

The hard behaviours are the following:

- **Matchers, insertion order.** `Dirs::add_dir` stops walking towards the
  root at the first directory already present. That is only correct
  whatever order the HashSet (FilesMatcher) or BTreeSet (PrefixMatcher)
  yields the inputs in.
- **The user edits concurrently.** The user edits files while a mutation
  runs.
- **Racy timestamps.** The stat shortcut trusts an index entry whose mtime
  is older than the index file's own mtime.
- **Failed and discarded mutations.** A checkout that fails or is discarded
  leaves the disk changed and the state unsaved.
- **Ignore rules must not untrack.** A tracked file that becomes ignored
  stays tracked.
- **Sparse narrowing and widening.** These must keep the index and the
  patterns consistent.

## Modules

| Module | Models | Notes |
|---|---|---|
| `Paths` | RepoPath root and split (from the spec's data model); `PrefixMatcher::matches` (matchers.rs 137-147) | free of recursion, so proofs may use it |
| `DirsIndex` | the Dirs index of matchers.rs (163-216): Entry, Put, Dirs::new, add_dir in closed form (`AddDirWalk`), and add_file and the PrefixMatcher loop body over it; `IndexClosed` | free of recursion, so proofs may use it |
| `MatchersBuild` | the construction of a matcher: the loops of `FilesMatcher::new` and `PrefixMatcher::new` (matchers.rs 92-133) over the closed forms of `DirsIndex`; `TypeOK`, `DirsClosed`, `DirsMatchReference`, `ConstructionNeverPanics` | free of recursion, so proofs may use it |
| `MatchersVisit` | the four matchers, `matches`, `visit`, get_dirs and get_files (matchers.rs 23-160, 209-215) over `MatchersBuild`, and the traversal a caller makes with `visit` in closed form; `VisitAgreesWithMatches` | free of recursion, so proofs may use it |
| `Matchers` | the add_dir loop as written, with add_file and the PrefixMatcher loop body over it; `AddDirIsWalk` | uses RECURSIVE for the loop; TLC only |
| `DirsIndexProofs` | TLAPS proofs that `Dirs::new`, add_dir, add_file and the PrefixMatcher loop body keep the index closed | extends `DirsIndex` and SequenceTheorems |
| `MatchersBuildProofs` | TLAPS proofs that every construction is well typed, keeps the index closed, ends with the reference index, and panics only on a root file | extends `MatchersBuild` and `DirsIndexProofs` |
| `MatchersVisitProofs` | TLAPS proof of matcher correctness (spec 8.2) for every input set and every file | extends `MatchersVisit`, `MatchersBuildProofs` and WellFoundedInduction |
| `MatchersTests` | the unit tests of matchers.rs (lines 223-421), replayed on the model, and a harness that runs them in any order | constructors as folds (`FoldSet`) over `AddFile` and `PrefixMatcherAdd` |
| `MCMatchers`, `MCMatchersTests` | instance: two components (model values), depth 3 | |
| `WorkingCopy` | the working-copy engine with the user, the gitignore and the clock | spec-modelled where no code exists; test lines named in the map |
| `MCWorkingCopy` | instance: paths `a` and `d/b`, two blobs, two clock ticks | |
| `TreeStateStore` | the abstract scoped mutation: a current and a saved tree state, and a lock | what spec 3 and 4.6 promise, without the disk |
| `WorkingCopyProofs` | TLAPS proofs about `WorkingCopy`: type correctness, sparse closure, ignore rules | |
| `WorkingCopyRefinement` | TLAPS proofs of the `.git` exclusion, of the saved state outside a mutation, and of the refinement of `TreeStateStore` | extends `WorkingCopyProofs` |
| `WorkingCopyRacy` | TLAPS proofs of the racy-timestamp rule: what an index entry vouches for, and `SnapshotMissesOnlyStatTickEdits` | extends `WorkingCopyProofs` |

### Matchers

The state, in `MatchersBuild`, is the construction of one matcher:

- `kind` is the kind of matcher being built.
- `input` is the set passed to `new`.
- `todo` holds the inputs the loop has not processed yet.
- `dirs` is the index built so far.

Init picks any kind and any input set of up to three paths. Each step
(`FilesMatcherNewStep`, `PrefixMatcherNewStep`) is one iteration of the
constructor loop on any remaining input, which covers every iteration order.
The steps call `add_dir` in its closed form (below), so that `MatchersBuild`
is free of recursion and the proofs can be about the steps themselves.

`AddDirLoop` is the loop of `add_dir` line by line:

1. Insert the child.
2. Test `was_present`.
3. Split the path and continue with the parent.

`DirsIndex` also states the loop in closed form, `AddDirWalk`. The loop
visits `dir` and then each ancestor in turn, as long as every deeper one was
absent. Each visited directory gets an entry and the child it was reached
from. The invariant `AddDirIsWalk` of `Matchers` has TLC check that both
agree on every index the constructors reach and every directory, and so do
`AddFile` and `PrefixMatcherAdd` built on the loop and `AddFileWalk` and
`PrefixAddWalk` built on the closed form. So at every reached state the step
the model takes is the step the code takes, and the reachable states of the
model are those of the code's loops.

`AddFile` models the panic of `add_file` on the root path (`split()` is
None) as a flag in the index, `panicked`; a constructor whose flag is set
takes no further step, as the panic unwinds it. `PrefixMatcherAdd` is the
loop body of `PrefixMatcher::new`, with its `!prefix.is_root()` guard.
`AddFileWalk` and `PrefixAddWalk` of `DirsIndex` are the same two
operations over the closed form.
FilesMatcher inputs exclude the root unless the constant `RootFileInput`
is TRUE. The runs set it FALSE: `add_file` panics on the root on purpose
("got empty filename", line 204), so a root in a FilesMatcher set is a
caller error the code itself reports, and `PanicsOnlyOnRootFile` proves
that this is the only way a constructor panics.

`MatchersVisit` holds `Matches` and `Visit`, which dispatch over the four
matchers as the trait does, and `Matcher`, the matcher a constructor
returns. `WalkReaches` is the traversal a caller makes with `visit`: from
the root it enters only the listed subdirectories, takes everything below
a directory whose visit is `AllRecursively`, and in the file's own
directory looks only at the listed basenames. It is written in closed form:
the walk reaches a file when, for some depth i, every shallower ancestor
was a Some visit listing the next component, and the visit at depth i is
`AllRecursively` or is that of the file's directory listing its basename.

`MatchersTests` builds a matcher in one go, folding the loop body over the
input set, and states each `#[test]` function as one definition whose
conjuncts are its assertions (paths as sequences of strings). A test also
asserts that its constructor returned, since a panicking test fails.
`TestsSpec` is the harness: `cargo test` runs the test functions in any
order, each to its end, and records the ones that fail (`pending`,
`failed`); the construction variables stay at `Dirs::new()`.

### WorkingCopy

The state falls into three groups:

- **The user's side:**
  - `disk` maps each path to a node (type, blob, mtime) or Absent;
  - `clock` is the current tick;
  - `ignored` is the set of ignored paths.
- **The lock:** `locked`.
- **The tree state, twice:**
  - in memory: `tree`, `fileStates`, `sparse`, `ownMtime`, and the ghost
    `statAt`, the tick at which each index entry's stat was taken;
  - persisted in tree_state: `pTree`, `pFileStates`, `pSparse`, `pStatAt`
    and `pMtime`.

Every engine operation is one atomic action, because it runs in one
thread under the lock. The user's writes and removals, gitignore edits and
clock ticks interleave between operations.

The engine's actions:

- **`CheckOut`** applies the sparse-limited diff. It writes the target
  value, or removes the node, and records the stat of each written node.
- **`CheckOutFails`** stops at the k-th path in sorted order. The paths
  before it are applied and the k-th is only removed. The mutation is then
  dropped, which discards it.
- **`Reset`** changes the tree and the index without touching the disk. A
  new entry gets the `NoMtime` placeholder, which matches no file.
- **`WriteTree`** is the snapshot:
  - a tracked file whose stat shortcut fails is re-read;
  - an untracked file that is not ignored is added;
  - a tracked file that is gone is dropped;
  - `.git` is never entered.
- **`SetSparsePatterns`** materialises the paths that enter the patterns and
  removes the paths that leave them, from the disk and from the index.
- **`ValidTarget`** rejects a checkout or reset target holding a path
  under `.git` (InvalidPath, spec 5: "rejected before any side effect"),
  so such a step is not enabled.
- **`StartMutation`, `Finish` and `Discard`** are the scoped mutation.
  Finish saves the state and records its own mtime. Discard reloads the
  persisted state and leaves the disk as it is (test_checkout_discard).

### TreeStateStore and the refinement

`TreeStateStore` has three variables: `locked`, `current` (the state
operations see) and `saved` (the tree_state file). `Start` takes the
lock, `Mutate` changes `current` to any sparse-closed state under the
lock, `Finish` saves `current`, `Discard` goes back to `saved`.
`WorkingCopy` defines the mapping `TS`:

- `current` is the record of `tree`, `fileStates` and `sparse`;
- `saved` is the record of `pTree`, `pFileStates` and `pSparse`;
- `States` is `TreeStates`, the sparse-closed records.

Own mtime and the ghost `statAt` are metadata of the file and stay out of
the abstract state. User edits, gitignore edits and ticks map to
stutters, a failed checkout to `Discard`, and check_out, reset,
write_tree and set_sparse_patterns to `Mutate`.

The model abstracts the data as follows:

- A blob id stands for the content.
- All files have the same size, the worst case for the stat comparison.
- The clock is as coarse as the timestamp resolution.

## Runs

| Run | Expect | Properties | Shows |
|---|---|---|---|
| `matchers` | pass | TypeOK, DirsClosed, AddDirIsWalk, DirsMatchReference, VisitAgreesWithMatches, ConstructionNeverPanics | see below |
| `matchers_unit_tests` | pass | UnitTestsPass | the model gives the answers the eleven unit tests of matchers.rs assert |
| `wc_sparse` | pass | TypeOK, SparseClosure, UnlockedStateSaved, ImplementsTreeStateStore | the index equals the written, matched paths of the tree (spec 8.3), in memory and persisted, under every interleaving; outside a mutation memory equals tree_state; the engine refines `TreeStateStore` |
| `wc_dotgit` | pass | DotGitNeverTracked | no path under `.git` enters the tree or the index (spec 8.6), whatever the user writes there |
| `wc_snapshot` | pass | IndexVouchesForTree, SnapshotMissesOnlyStatTickEdits, SnapshotKeepsTrackedIgnoresUntracked | what an index entry vouches for, racy safety (8.4) and ignore-does-not-untrack (8.5) |
| `wc_racy_window` | violation | SnapshotSeesEveryEdit | finding 1 |
| `wc_submodule_removal` | violation | CheckoutSparesUntracked | finding 2 |

`ConstructionNeverPanics` holds in the `matchers` run because
`PrefixMatcher::new` guards the root prefix; without that guard the root
prefix reaches `add_file` and panics. `UnitTestsPass` says that no
test has failed, whichever tests have run in whatever order: the model
agrees with the code's own tests, so the other properties are about a
model that passes them.

The `matchers` run checks every input set of up to three paths and every
insertion order. In each case the index has every ancestor linked
(DirsClosed) and equals a reference definition (DirsMatchReference).
A traversal guided by `visit` also reaches exactly the files `matches`
accepts, for files one level below the inputs (spec 8.2).

`SnapshotMissesOnlyStatTickEdits` is the precise form of racy safety. A
snapshot keeps a stale value only when both of these hold:

- the missed edit has the mtime of the tick in which the index entry's stat
  was taken;
- that tick is strictly before the own mtime.

So an edit in the tick of the index write is always seen.

`IndexVouchesForTree` is the state invariant behind it. It holds for the
in-memory index and for tree_state. An entry's recorded mtime is never
later than the tick its stat was taken (`statAt`). When the mtime is
strictly earlier, any node on disk with the recorded stat holds the
tree's value. Reset's `NoMtime` placeholder and the stamping of every
written entry with its stat tick keep it true. The mutant `ResetKeepsStat`,
a reset that keeps an old stat for a modified path, breaks it.

The bounds are enough for these reasons:

- **Matchers:** depth 3 with two components gives nested prefixes
  (`foo`, `foo/bar/baz`), siblings and shared parents. Three inputs give
  every relative order of a shallow and a deep insertion.
- **WorkingCopy, clock:** two ticks are the fewest that separate a stat
  tick from a later index write, which is the racy case.
- **WorkingCopy, paths:** the two paths are a root file and a file under a
  directory, so the narrowing pattern `d` excludes one of them.
- **WorkingCopy, trees:** the trees add, modify and remove `d/b`, and add
  and remove a submodule at `a`.
- **WorkingCopy, `.git`:** the paths `.git/file` and `a`, as in
  test_dotgit_ignored; one tree writes `a`, the other puts a file under
  `.git` and is rejected; the gitignore may ignore `a`.

The sparse and snapshot questions have separate runs. Together, each
finishes well under a minute. The sparse run varies the patterns; the
snapshot run varies the gitignore.

No liveness property is stated and no fairness is assumed. Every
operation is a single synchronous call made by the program that holds the
working copy, and nothing in the code schedules the next one: a mutation
that is never finished or discarded is the caller's choice (the lock is
released when the object is dropped, which the model treats as a
discard), and the user may stop at any time. A fairness condition would
assert a caller behaviour the code does not enforce.

## Findings

1. **The racy window between a stat and the index write (spec gap).**
   1. A checkout writes and stats a file in tick t.
   2. The user rewrites the file in the same tick t.
   3. The mutation finishes in tick t+1.

   The file's mtime equals the recorded one and is below the own mtime
   t+1, so the next snapshot keeps the old content. Section 8.4 only
   covers edits in the tick of the index write.
   `test_commit_racy_timestamps` discards every mutation, so it only ever
   snapshots untracked files and cannot see this.
2. **Removing a submodule deletes a user file (spec gap).** A submodule
   entry is neither written nor indexed, so a file the user creates at its
   path is untracked. A checkout to a tree without the submodule applies
   Removed and deletes that file. Section 4.4 says an unindexed path that
   is not in the target is left alone.

## Proofs

`WorkingCopyProofs` proves three theorems for every value of the constants
allowed by `ConstantsAssumption`:

- `TypeCorrect`: `Spec => []TypeOK`.
- `SparseClosureInvariant`: `Spec => []SparseClosure`.
- `IgnoreDoesNotUntrack`: `Spec => SnapshotKeepsTrackedIgnoresUntracked`,
  an action property.

`WorkingCopyRefinement` proves three more:

- `DotGitExcluded`: `Spec => []DotGitNeverTracked`. The inductive
  invariant is `IInv /\ NoDotGitInTrees`. No tree, in memory or saved,
  holds a path under `.git`: targets are valid, write_tree ingests only
  paths the walk enters, and the other steps copy trees. With sparse
  closure, a path without a tree value has no index entry.
- `UnlockedStateIsSaved`: `Spec => []UnlockedStateSaved`. This is
  inductive by itself: every step that changes memory or tree_state
  either needs the lock and keeps it, or releases it after saving or
  reloading.
- `Refinement`: `Spec => ImplementsTreeStateStore`, i.e.
  `Spec => TS!Spec`. The initial state maps to an initial state; every
  step maps to a step or a stutter (`NextRefines`). A Mutate step needs
  its new state to be sparse-closed, so the proof uses `IInv` in both the
  old and the new state.

The first three use the inductive invariant `IInv == TypeOK /\ SparseClosure`.
SparseClosure alone is not inductive for two reasons:

- An index entry the snapshot writes is the stat of a node it read. The
  entry is only a written tree value because disk nodes are typed (TypeOK).
- A reset's placeholder entries are only well formed for values the engine
  writes.

The proof of `IInv /\ [Next]_vars => IInv'` has one lemma per group of
actions. Each lemma splits on whether a path is among the changed,
ingested, deleted, added or removed paths of the step. It rests on the
helper lemmas `MaterializeType`, `NodeValueType`, `WrittenValue` and
`PlaceholderType`. The MC runs check TypeOK and SparseClosure, so TLC
checks IInv as well.

`WorkingCopyRacy` proves the racy-timestamp rule:

- `IndexVouches`: `Spec => []IndexVouchesForTree`.
- `RacyWindow`: `Spec => SnapshotMissesOnlyStatTickEdits`.

`IndexVouchesForTree` is not inductive alone. It also needs
`ClockBounds`: no stat tick and no node mtime lies after the current
tick. So the inductive invariant is
`RInv == IInv /\ ClockBounds /\ IndexVouchesForTree`, which TLC checked
on the sparse and snapshot instances before it was proved. The argument
has three parts:

- **Frame (`StatVouchesFrame`).** Every step changes a disk node only by
  removing it or by writing it at the current tick. Such a node cannot
  carry a recorded mtime older than a stat tick, since that tick is at
  most the current tick. So an entry the step leaves alone keeps
  vouching. This covers the user's writes and a failed checkout's
  partial writes, against the in-memory index and tree_state alike.
- **New entries.** check_out and set_sparse_patterns stamp each entry
  they write with the tick of its stat, so its mtime equals `statAt`. The
  snapshot ingests a node whose mtime is at most the current tick.
  reset's placeholder mtime `NoMtime` matches no node.
- **Entries outside the diff.** By sparse closure (`OutsideDiff`), such an
  entry keeps its tree value. Finish, discard and a failed checkout copy
  whole triples between memory and tree_state.

`RacyWindow` follows from `WriteTreeStale`. On a snapshot step, a path
whose stale value is kept was not ingested, so it passed `Clean`. Its
entry cannot have an mtime below its stat tick, or the entry would vouch
for the disk's value. So the disk mtime equals `statAt`, which is below
`ownMtime`.

`DirsIndexProofs` proves, for any set of components and any paths over
it, that the Dirs index stays closed (`IndexClosed`, which `DirsClosed`
of `MatchersBuild` applies to the state):

- `EmptyDirsClosed`: `Dirs::new()` is closed.
- `AddDirKeepsClosed`: add_dir, with its early exit, keeps a closed index
  closed. A directory the walk creates either was present already, and so
  was linked, or has its parent visited next. The parent received it as
  the child it was reached from.
- `AddFileKeepsClosed` and `PrefixAddKeepsClosed`: add_file, and the loop
  body of `PrefixMatcher::new`, keep a closed index closed and well
  typed. add_dir creates the parent before the basename is recorded.

So after any sequence of calls, in any order, the index is closed.

`MatchersBuildProofs` proves, for every set of components and every depth,
theorems about the construction state machine of `MatchersBuild`:

- `BuildTypeCorrect`: `Spec => []TypeOK`.
- `BuildClosed`: `Spec => []DirsClosed`, from the closure theorems above.
- `BuildMatchesReference`: `Spec => []DirsMatchReference`. Whatever order
  the HashSet or the BTreeSet yields the inputs in, a built matcher's
  index is exactly the reference index of its inputs.
- `BuildNeverPanics`: under `~RootFileInput`,
  `Spec => []ConstructionNeverPanics`.
- `PanicsOnlyOnRootFile`: a constructor has panicked exactly when
  FilesMatcher::new has passed the root path to add_file.

`DirsMatchReference` only speaks of a finished constructor, so it is not
inductive. The inductive invariant `BInv` says that after any number of
iterations the index is the reference of the inputs processed so far:

- its directories are exactly the ancestors-or-self of the directories
  entered (`DirsAreRef`), each with the next components of the entered
  directories below it as its children;
- its files are the basenames of the entered files under their parents
  (`FilesAreRef`);
- the flag is set exactly when FilesMatcher has processed the root.

TLC checked `BInv`, less its `IndexType` conjunct (a set TLC cannot
enumerate), on the `matchers` instance with and without root files before
it was proved. The key lemma is `AddDirRef`. Take add_dir on the reference
of the directories X. It yields the reference of X and dir, even though the
walk stops early.

- `WalkDomain`: the walk adds exactly the missing ancestors of dir. A
  directory it skips is a prefix of the directory where it stopped. That
  directory is present, and present directories are closed under prefixes.
- `StoppedAbove`: a directory above that stop already lists dir's next
  component. The stop is an ancestor of some entered directory, and that
  directory continues with the same component.

`RecordFileRef` is the same for the basename that add_file records.

These theorems are about the closed forms. `AddDirIsWalk` links them to
the loop, and TLC checks it on the `matchers` instance only.

`MatchersVisitProofs` proves matcher correctness (spec 8.2), for every set
of components, every depth, every input set and every insertion order:

- `MatchersCorrect`: once a constructor has returned, its matcher matches
  a file of any depth exactly when `WalkReaches` reaches it.
- `VisitCorrect`: `Spec => []VisitAgreesWithMatches`, the form the
  `matchers` run checks for files one level below the inputs.

Both follow from `BInv`: a built index is the reference index, read back
at any directory (`BuiltIndex`). For FilesMatcher, a matched file is
reached along its own ancestors, since its parent is a directory of the
index; a reached file is an input, since a path is fixed by its parent
and its basename (`SplitPathInjective`). For PrefixMatcher, the walk to a
matched file stops at its shallowest ancestor that is a prefix. That
ancestor exists by the least-number principle (`LeastElement`, from
`WFMin` of WellFoundedInduction, which has no operator parameter), and
every ancestor above it is listed because the prefix itself is a
directory of the index (`NextComponentListed`). Conversely, a walk that
stops at `AllRecursively` stops below a prefix, and one that reaches a
listed basename reaches an input prefix.

Some properties are only model-checked:

- **The loop form and the unit tests.** These are AddDirIsWalk and
  UnitTestsPass, stated in `Matchers` and `MatchersTests`. They use
  RECURSIVE operators, which TLAPS cannot reason about. AddDirIsWalk also
  needs induction over the length of a path, and the installed provers
  cannot instantiate the library's induction theorems, which take an
  operator parameter.
- **The two violation runs of WorkingCopy.** They show that the code
  breaks a statement of the spec, so there is nothing to prove.

## Not modelled

These parts are not modelled:

- **Conflicts, file/directory transitions, empty-directory removal, symlink
  targets and executable-bit-only chmod.** These kinds need a directory
  model and are planned.
- **The jj sparse command line.** It only prints what the sparse controller
  does.
- **The diff benchmark.** It measures the speed of a pure function.
- **The object store and the gitignore parser.** They are not in this tree
  and are abstracted to blob ids and to a set of ignored paths.

## Plan

These are the next steps:

1. Add directories and the file/directory kind transitions of spec 8.7.
2. Add a round-trip property (8.1): checkout then snapshot with no user
   edit yields the target.
3. State the add_dir loop as a recursive function over the path length,
   so that `AddDirIsWalk` can be proved along with the closed form.
