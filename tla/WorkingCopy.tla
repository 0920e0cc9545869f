----------------------------- MODULE WorkingCopy -----------------------------
(***************************************************************************)
(* The working-copy engine: the tree state (current tree, file-state       *)
(* index, sparse patterns) kept in memory by a locked working copy and     *)
(* persisted in the tree_state file, the checked-out directory on disk,    *)
(* and the user who edits that directory at any time.                      *)
(*                                                                         *)
(* The engine (working_copy.rs) is not part of this source tree: its       *)
(* operations follow sections 3-5 of the specification and what the tests  *)
(* test_working_copy.rs and test_working_copy_sparse.rs pin.  Each         *)
(* operation is one atomic action, as it runs under the workspace lock in  *)
(* a single thread; the user's edits, gitignore edits and the clock        *)
(* interleave between them.                                                *)
(*                                                                         *)
(* Data is abstracted to what the properties tell apart: a file's content  *)
(* is the id of its blob (content addressing makes hashing injective), all *)
(* files have the same size (the worst case for the stat comparison), and  *)
(* time is a coarse clock of MaxClock + 1 ticks, the timestamp resolution. *)
(***************************************************************************)
EXTENDS Integers, Sequences, Paths

CONSTANTS
    FilePaths,    \* the paths files may live at (no one a prefix of another)
    Blobs,        \* blob ids, standing for file contents
    DotGit,       \* the component ".git"
    Trees,        \* trees a checkout or a reset may target
    PatternSets,  \* sparse pattern sets the user may set
    IgnoreSets,   \* sets of paths the gitignore rules may ignore
    PathOrder,    \* FilePaths in sorted order: the order checkout applies
    MaxClock,     \* last tick of the clock
    Absent        \* no entry / no file

\* Tree values a tree may hold for a file path (TreeValue minus Tree and
\* Conflict): a normal file with or without the executable bit, a symlink,
\* a git submodule.
Kinds == {"normal", "exec", "link", "submodule"}
TreeValue == [kind : Kinds, id : Blobs]
Tree == [FilePaths -> TreeValue \cup {Absent}]

\* What lstat reports for a node on disk: its type and its mtime.
NodeTypes == {"file", "exec", "link"}
Clock == 0..MaxClock
DiskNode == [type : NodeTypes, data : Blobs, mtime : Clock]

\* FileState: the stat recorded in the index.  NoMtime is the mtime a reset
\* records for a path it did not write: it equals no file's mtime.
NoMtime == -1
FileState == [type : NodeTypes, mtime : Clock \cup {NoMtime}]

ASSUME ConstantsAssumption ==
    /\ FilePaths \subseteq Seq(STRING) \ {Root}
    /\ Trees \subseteq Tree
    /\ PatternSets \subseteq SUBSET Seq(STRING)
    /\ IgnoreSets \subseteq SUBSET FilePaths
    /\ MaxClock \in Nat
    /\ Absent \notin TreeValue \cup DiskNode \cup FileState

VARIABLES
    disk,         \* the working directory: path -> DiskNode or Absent
    clock,        \* the filesystem clock
    ignored,      \* paths the current gitignore rules ignore
    locked,       \* a mutation holds the workspace lock
    tree,         \* in-memory TreeState: the current tree
    fileStates,   \*   the file-state index: path -> FileState or Absent
    sparse,       \*   the sparse patterns
    ownMtime,     \*   mtime of the tree_state file when it was read or written
    statAt,       \*   ghost: tick at which each index entry's stat was taken
    pTree,        \* the persisted tree_state file: the same four fields
    pFileStates,
    pSparse,
    pStatAt,
    pMtime        \*   and the file's own mtime

userVars == << disk, clock, ignored >>
memVars == << tree, fileStates, sparse, ownMtime, statAt >>
persistedVars == << pTree, pFileStates, pSparse, pStatAt, pMtime >>
vars == << userVars, locked, memVars, persistedVars >>

-----------------------------------------------------------------------------
(* Helpers.                                                                *)

\* The sparse matcher: a PrefixMatcher over the sparse patterns.
InSparse(patterns, p) == PrefixMatches(patterns, p)

IsDotGit(p) == p[1] = DotGit

\* The node type a tree value is written as, and the tree value a node
\* type is read back as.
KindType(k) == IF k = "normal" THEN "file" ELSE k
TypeKind(t) == IF t = "file" THEN "normal" ELSE t

\* Writing a tree value to disk at the current tick.
Materialize(v) == [type |-> KindType(v.kind), data |-> v.id, mtime |-> clock]

\* The tree value a snapshot ingests for a node.
NodeValue(n) == [kind |-> TypeKind(n.type), id |-> n.data]

\* lstat of a node, as recorded in the index.
Stat(n) == [type |-> n.type, mtime |-> n.mtime]

\* Mutant of Written: submodules materialised like files.
WrittenWithSubmodules(v) == v # Absent

\* A tree value the engine writes to disk (submodules are never written).
Written(v) == v # Absent /\ v.kind # "submodule"

\* A tree a checkout or a reset accepts: one with a path under .git is
\* rejected with InvalidPath before any side effect (specification 5).
ValidTarget(t) == \A p \in FilePaths : IsDotGit(p) => t[p] = Absent

-----------------------------------------------------------------------------
(* Initial state: a freshly initialised workspace (test_root): empty tree, *)
(* empty index, sparse patterns [root], an empty working directory.        *)

EmptyTree == [p \in FilePaths |-> Absent]

Init ==
    /\ disk = [p \in FilePaths |-> Absent]
    /\ clock = 0
    /\ ignored \in IgnoreSets
    /\ locked = FALSE
    /\ tree = EmptyTree
    /\ fileStates = [p \in FilePaths |-> Absent]
    /\ sparse = {Root}
    /\ ownMtime = 0
    /\ statAt = [p \in FilePaths |-> 0]
    /\ pTree = EmptyTree
    /\ pFileStates = [p \in FilePaths |-> Absent]
    /\ pSparse = {Root}
    /\ pStatAt = [p \in FilePaths |-> 0]
    /\ pMtime = 0

-----------------------------------------------------------------------------
(* The user and the clock.                                                 *)

\* The user writes content b to p (open, truncate, write), keeping the
\* executable bit of an existing file.  Writing through a symlink changes
\* its target, which is not modelled, so the user replaces no symlink.
UserWrite(p, b) ==
    /\ disk[p] # Absent => disk[p].type # "link"
    /\ disk' = [disk EXCEPT ![p] = [type |-> IF disk[p] = Absent THEN "file"
                                              ELSE disk[p].type,
                                     data |-> b, mtime |-> clock]]
    /\ UNCHANGED << clock, ignored, locked, memVars, persistedVars >>

UserRemove(p) ==
    /\ disk[p] # Absent
    /\ disk' = [disk EXCEPT ![p] = Absent]
    /\ UNCHANGED << clock, ignored, locked, memVars, persistedVars >>

\* The user edits the .gitignore files.
EditIgnores(I) ==
    /\ ignored' = I
    /\ UNCHANGED << disk, clock, locked, memVars, persistedVars >>

Tick ==
    /\ clock < MaxClock
    /\ clock' = clock + 1
    /\ UNCHANGED << disk, ignored, locked, memVars, persistedVars >>

-----------------------------------------------------------------------------
(* The scoped mutation: start_mutation, finish, discard.                   *)

\* start_mutation: take the exclusive workspace lock.  Outside a mutation
\* the in-memory state equals the persisted one.
StartMutation ==
    /\ ~locked
    /\ locked' = TRUE
    /\ UNCHANGED << userVars, memVars, persistedVars >>

\* finish: save the tree state (write a temporary file, record its own
\* mtime, rename it over tree_state) and release the lock.
Finish ==
    /\ locked
    /\ pTree' = tree
    /\ pFileStates' = fileStates
    /\ pSparse' = sparse
    /\ pStatAt' = statAt
    /\ pMtime' = clock
    /\ ownMtime' = clock
    /\ locked' = FALSE
    /\ UNCHANGED << userVars, tree, fileStates, sparse, statAt >>

\* The in-memory state reloaded from tree_state.
Reload ==
    /\ tree' = pTree
    /\ fileStates' = pFileStates
    /\ sparse' = pSparse
    /\ statAt' = pStatAt
    /\ ownMtime' = pMtime

\* discard: drop the in-memory changes and release the lock; what the
\* mutation did to the disk stays (test_checkout_discard).
Discard ==
    /\ locked
    /\ Reload
    /\ locked' = FALSE
    /\ UNCHANGED << userVars, persistedVars >>

-----------------------------------------------------------------------------
(* check_out: apply the diff between the current tree and the target,     *)
(* limited to the sparse patterns, then make the target current.           *)

\* The matched paths whose value differs between the two trees.
Changed(target) == {p \in FilePaths : InSparse(sparse, p) /\ tree[p] # target[p]}

\* The node at p after the diff entry of p is applied: Removed deletes the
\* entry; Added writes the new value unless it is a submodule; Modified is
\* a remove followed by an add.
Applied(p, target) ==
    IF Written(target[p]) THEN Materialize(target[p])
    ELSE IF tree[p] = Absent THEN disk[p]
    ELSE Absent

\* Half of Modified: the remove done, the add not yet.
RemovedOnly(p) == IF tree[p] = Absent THEN disk[p] ELSE Absent

CheckOut(target) ==
    /\ locked
    /\ ValidTarget(target)
    /\ LET ch == Changed(target) IN
         /\ disk' = [p \in FilePaths |-> IF p \in ch THEN Applied(p, target) ELSE disk[p]]
         /\ fileStates' = [p \in FilePaths |->
                             IF p \notin ch THEN fileStates[p]
                             ELSE IF Written(target[p]) THEN Stat(Materialize(target[p]))
                             ELSE Absent]
         /\ statAt' = [p \in FilePaths |-> IF p \in ch THEN clock ELSE statAt[p]]
    /\ tree' = target
    /\ UNCHANGED << clock, ignored, locked, sparse, ownMtime, persistedVars >>

\* Mutant of CheckOutFails: the failed mutation is released without
\* reloading the saved state.
CheckOutFailsKeepsMemory(target, k) ==
    /\ locked
    /\ ValidTarget(target)
    /\ LET ch == Changed(target)
           done == {PathOrder[i] : i \in 1..(k - 1)}
       IN  /\ PathOrder[k] \in ch
           /\ disk' = [p \in FilePaths |->
                         IF p \in ch /\ p \in done THEN Applied(p, target)
                         ELSE IF p = PathOrder[k] THEN RemovedOnly(p)
                         ELSE disk[p]]
    /\ locked' = FALSE
    /\ UNCHANGED << clock, ignored, memVars, persistedVars >>

\* A check_out that fails (an I/O error) at the k-th path of the sorted
\* diff: the paths before it are applied, the k-th is removed but not
\* rewritten, and the caller drops the mutation, which discards it.
CheckOutFails(target, k) ==
    /\ locked
    /\ ValidTarget(target)
    /\ LET ch == Changed(target)
           done == {PathOrder[i] : i \in 1..(k - 1)}
       IN  /\ PathOrder[k] \in ch
           /\ disk' = [p \in FilePaths |->
                         IF p \in ch /\ p \in done THEN Applied(p, target)
                         ELSE IF p = PathOrder[k] THEN RemovedOnly(p)
                         ELSE disk[p]]
    /\ Reload
    /\ locked' = FALSE
    /\ UNCHANGED << clock, ignored, persistedVars >>

-----------------------------------------------------------------------------
(* reset: make the target current without touching the disk               *)
(* (test_reset): a path the diff removes leaves the index even if its file *)
(* stays on disk; a path it adds or modifies enters the index with a stat  *)
(* that matches no file, so that the next snapshot hashes it.              *)

\* Mutant of Reset: the lock is not required.
ResetUnlocked(target) ==
    /\ ValidTarget(target)
    /\ LET ch == Changed(target) IN
         fileStates' = [p \in FilePaths |->
                          IF p \notin ch THEN fileStates[p]
                          ELSE IF Written(target[p])
                            THEN [type |-> KindType(target[p].kind), mtime |-> NoMtime]
                          ELSE Absent]
    /\ tree' = target
    /\ UNCHANGED << userVars, locked, sparse, ownMtime, statAt, persistedVars >>

\* Mutant of Reset: a modified path keeps its old stat instead of the
\* placeholder, so the index still vouches for the old content.
ResetKeepsStat(target) ==
    /\ locked
    /\ ValidTarget(target)
    /\ LET ch == Changed(target) IN
         fileStates' = [p \in FilePaths |->
                          IF p \notin ch \/ (fileStates[p] # Absent /\ Written(target[p]))
                            THEN fileStates[p]
                          ELSE IF Written(target[p])
                            THEN [type |-> KindType(target[p].kind), mtime |-> NoMtime]
                          ELSE Absent]
    /\ tree' = target
    /\ UNCHANGED << userVars, locked, sparse, ownMtime, statAt, persistedVars >>

Reset(target) ==
    /\ locked
    /\ ValidTarget(target)
    /\ LET ch == Changed(target) IN
         fileStates' = [p \in FilePaths |->
                          IF p \notin ch THEN fileStates[p]
                          ELSE IF Written(target[p])
                            THEN [type |-> KindType(target[p].kind), mtime |-> NoMtime]
                          ELSE Absent]
    /\ tree' = target
    /\ UNCHANGED << userVars, locked, sparse, ownMtime, statAt, persistedVars >>

-----------------------------------------------------------------------------
(* write_tree, the snapshot: walk the matched part of the working          *)
(* directory (.git is never entered), compare each node with the index,    *)
(* and build the new tree from the current one.                            *)

\* Mutant of OnDisk: the walk enters .git.
OnDiskWithDotGit(p) == disk[p] # Absent

\* A path the walk finds a node at.
OnDisk(p) == disk[p] # Absent /\ ~IsDotGit(p)

Tracked(p) == fileStates[p] # Absent

\* Mutant of Clean: a file stamped in the tick of the index write passes.
CleanRacy(p) == Stat(disk[p]) = fileStates[p] /\ fileStates[p].mtime <= ownMtime

\* The stat shortcut: same type and mtime as recorded (sizes are all
\* equal), and recorded strictly before the tree_state file's own mtime.
Clean(p) == Stat(disk[p]) = fileStates[p] /\ fileStates[p].mtime < ownMtime

\* Paths whose node the snapshot reads and ingests: untracked files that
\* are not ignored, and tracked files whose stat shortcut fails.  An
\* ignored file that is already tracked stays tracked.
Ingested ==
    {p \in FilePaths : /\ InSparse(sparse, p)
                       /\ OnDisk(p)
                       /\ IF Tracked(p) THEN ~Clean(p) ELSE p \notin ignored}

\* Mutant of Deleted: the ignore rules untrack a tracked file.
DeletedIgnoredToo ==
    {p \in FilePaths : InSparse(sparse, p) /\ Tracked(p) /\ (~OnDisk(p) \/ p \in ignored)}

\* Tracked paths with no node any more: dropped from tree and index.
Deleted == {p \in FilePaths : InSparse(sparse, p) /\ Tracked(p) /\ ~OnDisk(p)}

WriteTree ==
    /\ locked
    /\ tree' = [p \in FilePaths |->
                  IF p \in Ingested THEN NodeValue(disk[p])
                  ELSE IF p \in Deleted THEN Absent
                  ELSE tree[p]]
    /\ fileStates' = [p \in FilePaths |->
                        IF p \in Ingested THEN Stat(disk[p])
                        ELSE IF p \in Deleted THEN Absent
                        ELSE fileStates[p]]
    /\ statAt' = [p \in FilePaths |-> IF p \in Ingested THEN clock ELSE statAt[p]]
    /\ UNCHANGED << userVars, locked, sparse, ownMtime, persistedVars >>

-----------------------------------------------------------------------------
(* set_sparse_patterns: materialise the current tree's paths that enter   *)
(* the patterns, remove from disk and index the ones that leave them, and *)
(* record the new patterns (test_sparse_checkout).                         *)

\* Mutant of SetSparsePatterns: leaving paths are removed from the disk
\* but their entries stay in the index.
SetSparsePatternsKeepIndex(new) ==
    /\ locked
    /\ LET added == {p \in FilePaths : tree[p] # Absent /\ InSparse(new, p)
                                         /\ ~InSparse(sparse, p)}
           removed == {p \in FilePaths : tree[p] # Absent /\ InSparse(sparse, p)
                                           /\ ~InSparse(new, p)}
       IN  /\ disk' = [p \in FilePaths |->
                         IF p \in added /\ Written(tree[p]) THEN Materialize(tree[p])
                         ELSE IF p \in removed THEN Absent
                         ELSE disk[p]]
           /\ fileStates' = [p \in FilePaths |->
                               IF p \in added /\ Written(tree[p])
                                 THEN Stat(Materialize(tree[p]))
                               ELSE fileStates[p]]
           /\ statAt' = [p \in FilePaths |-> IF p \in added THEN clock ELSE statAt[p]]
    /\ sparse' = new
    /\ UNCHANGED << clock, ignored, locked, tree, ownMtime, persistedVars >>

SetSparsePatterns(new) ==
    /\ locked
    /\ LET added == {p \in FilePaths : tree[p] # Absent /\ InSparse(new, p)
                                         /\ ~InSparse(sparse, p)}
           removed == {p \in FilePaths : tree[p] # Absent /\ InSparse(sparse, p)
                                           /\ ~InSparse(new, p)}
       IN  /\ disk' = [p \in FilePaths |->
                         IF p \in added /\ Written(tree[p]) THEN Materialize(tree[p])
                         ELSE IF p \in removed THEN Absent
                         ELSE disk[p]]
           /\ fileStates' = [p \in FilePaths |->
                               IF p \in added /\ Written(tree[p])
                                 THEN Stat(Materialize(tree[p]))
                               ELSE IF p \in removed THEN Absent
                               ELSE fileStates[p]]
           /\ statAt' = [p \in FilePaths |-> IF p \in added THEN clock ELSE statAt[p]]
    /\ sparse' = new
    /\ UNCHANGED << clock, ignored, locked, tree, ownMtime, persistedVars >>

-----------------------------------------------------------------------------

Next ==
    \/ \E p \in FilePaths, b \in Blobs : UserWrite(p, b)
    \/ \E p \in FilePaths : UserRemove(p)
    \/ \E I \in IgnoreSets : EditIgnores(I)
    \/ Tick
    \/ StartMutation
    \/ Finish
    \/ Discard
    \/ \E t \in Trees : CheckOut(t)
    \/ \E t \in Trees, k \in 1..Len(PathOrder) : CheckOutFails(t, k)
    \/ \E t \in Trees : Reset(t)
    \/ WriteTree
    \/ \E P \in PatternSets : SetSparsePatterns(P)

Spec == Init /\ [][Next]_vars

-----------------------------------------------------------------------------
(* Properties.                                                             *)

TypeOK ==
    /\ disk \in [FilePaths -> DiskNode \cup {Absent}]
    /\ clock \in Clock
    /\ ignored \in SUBSET FilePaths
    /\ locked \in BOOLEAN
    /\ tree \in Tree
    /\ fileStates \in [FilePaths -> FileState \cup {Absent}]
    /\ sparse \in SUBSET Seq(STRING)
    /\ ownMtime \in Clock
    /\ statAt \in [FilePaths -> Clock]
    /\ pTree \in Tree
    /\ pFileStates \in [FilePaths -> FileState \cup {Absent}]
    /\ pSparse \in SUBSET Seq(STRING)
    /\ pStatAt \in [FilePaths -> Clock]
    /\ pMtime \in Clock

\* Sparse closure (specification 3 (i) and 8.3): the index holds exactly
\* the paths of the tree that the sparse patterns admit and that the engine
\* writes to disk (submodules are never in the index).  Holds in memory
\* after every operation and in the persisted tree_state, which load
\* rejects otherwise.
IndexMatchesTree(t, fs, patterns) ==
    \A p \in FilePaths :
        fs[p] # Absent <=> (Written(t[p]) /\ InSparse(patterns, p))

SparseClosure ==
    /\ IndexMatchesTree(tree, fileStates, sparse)
    /\ IndexMatchesTree(pTree, pFileStates, pSparse)

\* .git exclusion (specification 8.6; test_dotgit_ignored): no path under
\* .git is ever in the tree or the index, in memory or in tree_state,
\* whatever the user writes there and whatever the gitignore says.
DotGitNeverTracked ==
    \A p \in FilePaths :
        IsDotGit(p) => /\ tree[p] = Absent /\ fileStates[p] = Absent
                       /\ pTree[p] = Absent /\ pFileStates[p] = Absent

\* The scoped mutation (specification 4.6; test_checkout_discard): outside
\* a mutation the in-memory tree state is the one tree_state holds, own
\* mtime included, after a finish, a discard or a failed checkout alike.
UnlockedStateSaved ==
    ~locked => /\ tree = pTree /\ fileStates = pFileStates /\ sparse = pSparse
               /\ statAt = pStatAt /\ ownMtime = pMtime

\* The tree states the engine may leave behind: sparse-closed ones.
TreeStates ==
    {s \in [tree : Tree, fileStates : [FilePaths -> FileState \cup {Absent}],
            sparse : SUBSET Seq(STRING)] :
       IndexMatchesTree(s.tree, s.fileStates, s.sparse)}

\* The refinement mapping: the in-memory tree state is the current state,
\* the tree_state file the saved one.
TS == INSTANCE TreeStateStore
        WITH States <- TreeStates,
             current <- [tree |-> tree, fileStates |-> fileStates, sparse |-> sparse],
             saved <- [tree |-> pTree, fileStates |-> pFileStates, sparse |-> pSparse]

\* The engine implements the scoped mutation: the in-memory state changes
\* only under the lock and stays sparse-closed, tree_state changes only at
\* finish (to the in-memory state), and discard, or a failed checkout,
\* goes back to it.
ImplementsTreeStateStore == TS!Spec

\* What an index entry vouches for (specification 3, "racy timestamps"):
\* the recorded mtime is never later than the tick the stat was taken,
\* and when it is strictly earlier, any node on disk with the recorded
\* stat holds the tree's value: every write after the stat carries a later
\* mtime.  Only an entry stamped in its own stat tick may describe content
\* that is gone.  Holds for the in-memory index and for tree_state, which
\* discard and a failed checkout bring back after the disk has changed.
StatVouches(t, fs, sa) ==
    \A p \in FilePaths :
        fs[p] # Absent =>
            /\ fs[p].mtime <= sa[p]
            /\ fs[p].mtime < sa[p] /\ disk[p] # Absent /\ Stat(disk[p]) = fs[p]
                 => NodeValue(disk[p]) = t[p]

IndexVouchesForTree ==
    /\ StatVouches(tree, fileStates, statAt)
    /\ StatVouches(pTree, pFileStates, pStatAt)

\* Racy timestamps (specification 3, 4.5 and 8.4): when a snapshot keeps a
\* tracked file's old value although the disk holds other content, the
\* edit it missed was made in the very tick the file's stat was taken, and
\* that tick is strictly before the tree_state file's own mtime.  So an
\* edit made in the tick of the last index write is always detected.
StaleValue(p) == Tracked(p)' /\ OnDisk(p) /\ tree'[p] # NodeValue(disk[p])

SnapshotMissesOnlyStatTickEdits ==
    [][WriteTree =>
         \A p \in FilePaths :
             StaleValue(p) => /\ disk[p].mtime = statAt[p]
                              /\ statAt[p] < ownMtime]_vars

\* Ignore rules do not untrack (specification 4.5 step 3, 8.5;
\* test_gitignores, test_gitignores_ignored_directory_already_tracked): a
\* snapshot keeps every tracked file that is still on disk in the index
\* and in the tree, ignored or not, and takes in no ignored untracked file.
SnapshotKeepsTrackedIgnoresUntracked ==
    [][WriteTree =>
         \A p \in FilePaths :
             /\ Tracked(p) /\ OnDisk(p) => Tracked(p)' /\ tree'[p] # Absent
             /\ ~Tracked(p) /\ p \in ignored => tree'[p] = tree[p]]_vars

\* Racy safety as the rationale of the racy rule puts it (specification 3,
\* "the engine must not assume exclusive access between mutations"): a
\* snapshot never keeps the old value of a tracked file whose content on
\* disk differs.  Checked as a violation: an edit made in the tick of a
\* checkout's stat, followed by a finish in a later tick, passes the
\* stat shortcut.
SnapshotSeesEveryEdit ==
    [][WriteTree => \A p \in FilePaths : ~StaleValue(p)]_vars

\* Edge case of check_out (specification 4.4): a path on disk that is
\* neither in the index nor in the target is left alone.  Checked as a
\* violation: a path the current tree holds as a submodule is never in
\* the index, and the Removed entry of the diff deletes whatever the user
\* put there.
CheckoutSparesUntracked ==
    [][\A t \in Trees :
         CheckOut(t) =>
            \A p \in FilePaths :
               fileStates[p] = Absent /\ t[p] = Absent => disk'[p] = disk[p]]_vars

=============================================================================
