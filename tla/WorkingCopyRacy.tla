--------------------------- MODULE WorkingCopyRacy ---------------------------
(***************************************************************************)
(* Proofs of the racy-timestamp rule, for every value of the constants    *)
(* that satisfies ConstantsAssumption.                                     *)
(*                                                                         *)
(* The snapshot keeps a tracked file's tree value when its stat matches    *)
(* the index and the recorded mtime is older than the tree_state file's    *)
(* own mtime (Clean).  That is only sound if an index entry whose mtime is *)
(* older than the tick of its stat still describes the file on disk        *)
(* whenever the stat matches: IndexVouchesForTree.  It is inductive with   *)
(* IInv and ClockBounds: the disk only ever gains nodes stamped with the   *)
(* current tick, and no stat or node lies in the future, so a write after  *)
(* a stat can never reproduce an older recorded mtime.                    *)
(***************************************************************************)
EXTENDS WorkingCopyProofs

USE ConstantsAssumption

\* No stat was taken, and no node written, after the current tick.
ClockBounds ==
    /\ \A p \in FilePaths : statAt[p] <= clock /\ pStatAt[p] <= clock
    /\ \A p \in FilePaths : disk[p] # Absent => disk[p].mtime <= clock

\* The inductive invariant of the racy-timestamp rule.
RInv == IInv /\ ClockBounds /\ IndexVouchesForTree

\* A step that changes a node of the disk only by removing it or by
\* writing it at the current tick.
DiskStep ==
    \A p \in FilePaths : \/ disk'[p] = disk[p]
                         \/ disk'[p] = Absent
                         \/ disk'[p].mtime = clock

-----------------------------------------------------------------------------
(* Lemmas.                                                                 *)

\* An index entry left alone by a step keeps vouching for its tree value
\* when the disk only loses nodes or gains nodes of the current tick: such
\* a node cannot carry an mtime older than the entry's stat tick.
LEMMA StatVouchesFrame ==
    ASSUME NEW t, NEW fs \in [FilePaths -> FileState \cup {Absent}],
           NEW sa \in [FilePaths -> Clock],
           clock \in Clock, \A p \in FilePaths : sa[p] <= clock,
           StatVouches(t, fs, sa), DiskStep
    PROVE  StatVouches(t, fs, sa)'
<1> SUFFICES ASSUME NEW p \in FilePaths, fs[p] # Absent
             PROVE  /\ fs[p].mtime <= sa[p]
                    /\ fs[p].mtime < sa[p] /\ disk'[p] # Absent
                         /\ Stat(disk'[p]) = fs[p]
                       => NodeValue(disk'[p]) = t[p]
  BY DEF StatVouches
<1>1. fs[p].mtime <= sa[p]
  BY DEF StatVouches
<1>2. fs[p].mtime \in Int /\ sa[p] \in Int /\ clock \in Int
  BY DEF FileState, Clock, NoMtime
<1>3. ASSUME fs[p].mtime < sa[p], disk'[p] # Absent, Stat(disk'[p]) = fs[p]
      PROVE  NodeValue(disk'[p]) = t[p]
  <2>1. CASE disk'[p] = disk[p]
    BY <1>3, <2>1 DEF StatVouches
  <2>2. CASE disk'[p].mtime = clock
    <3>1. fs[p].mtime = clock
      BY <1>3, <2>2 DEF Stat
    <3>. QED
      BY <1>2, <1>3, <3>1
  <2>. QED
    BY <1>3, <2>1, <2>2 DEF DiskStep
<1>. QED
  BY <1>1, <1>3

\* The in-memory index keeps vouching across a step that leaves it alone
\* and touches the disk only by removals and writes of the current tick.
LEMMA MemoryFrame ==
    ASSUME TypeOK, ClockBounds, IndexVouchesForTree, DiskStep,
           UNCHANGED << tree, fileStates, statAt >>
    PROVE  StatVouches(tree, fileStates, statAt)'
<1>1. StatVouches(tree, fileStates, statAt)
  BY DEF IndexVouchesForTree
<1>2. \A p \in FilePaths : statAt[p] <= clock
  BY DEF ClockBounds
<1>. QED
  BY <1>1, <1>2, StatVouchesFrame DEF TypeOK

\* The same for tree_state, which only finish writes.
LEMMA PersistedFrame ==
    ASSUME TypeOK, ClockBounds, IndexVouchesForTree, DiskStep,
           UNCHANGED << pTree, pFileStates, pStatAt >>
    PROVE  StatVouches(pTree, pFileStates, pStatAt)'
<1>1. StatVouches(pTree, pFileStates, pStatAt)
  BY DEF IndexVouchesForTree
<1>2. \A p \in FilePaths : pStatAt[p] <= clock
  BY DEF ClockBounds
<1>. QED
  BY <1>1, <1>2, StatVouchesFrame DEF TypeOK

-----------------------------------------------------------------------------
(* The inductive invariant.                                                *)

\* A fresh workspace has an empty index, an empty disk and the clock at 0.
LEMMA InitRInv == Init => RInv
<1> SUFFICES ASSUME Init PROVE RInv
  OBVIOUS
<1>1. IInv
  BY InitIInv
<1>2. ClockBounds
  BY DEF Init, ClockBounds
<1>3. IndexVouchesForTree
  BY DEF Init, IndexVouchesForTree, StatVouches
<1>. QED
  BY <1>1, <1>2, <1>3 DEF RInv

\* The user writes at the current tick or removes; the ignore rules and the
\* clock do not touch the disk, and the clock only moves forward.
LEMMA UserStepsRInv ==
    ASSUME RInv,
           \/ \E p \in FilePaths, b \in Blobs : UserWrite(p, b)
           \/ \E p \in FilePaths : UserRemove(p)
           \/ \E I \in IgnoreSets : EditIgnores(I)
           \/ Tick
    PROVE  RInv'
<1>1. IInv'
  BY UserStepsIInv DEF RInv
<1>2. /\ UNCHANGED << tree, fileStates, statAt, pTree, pFileStates, pStatAt >>
      /\ clock <= clock' /\ clock' \in Int
  BY DEF UserWrite, UserRemove, EditIgnores, Tick, memVars, persistedVars,
         RInv, IInv, TypeOK, Clock
<1>3. DiskStep
  <2>1. CASE \E p \in FilePaths, b \in Blobs : UserWrite(p, b)
    BY <2>1 DEF UserWrite, DiskStep
  <2>2. CASE \E p \in FilePaths : UserRemove(p)
    BY <2>2 DEF UserRemove, DiskStep
  <2>3. CASE (\E I \in IgnoreSets : EditIgnores(I)) \/ Tick
    BY <2>3 DEF EditIgnores, Tick, DiskStep
  <2>. QED
    BY <2>1, <2>2, <2>3
<1>4. IndexVouchesForTree'
  BY <1>2, <1>3, MemoryFrame, PersistedFrame DEF RInv, IInv, IndexVouchesForTree
<1>5. \A p \in FilePaths : disk'[p] # Absent => disk'[p].mtime <= clock
  <2>1. CASE \E p \in FilePaths, b \in Blobs : UserWrite(p, b)
    BY <2>1 DEF UserWrite, RInv, IInv, TypeOK, ClockBounds, Clock
  <2>2. CASE \E p \in FilePaths : UserRemove(p)
    BY <2>2 DEF UserRemove, RInv, ClockBounds
  <2>3. CASE (\E I \in IgnoreSets : EditIgnores(I)) \/ Tick
    BY <2>3 DEF EditIgnores, Tick, RInv, ClockBounds
  <2>. QED
    BY <2>1, <2>2, <2>3
<1>6. ClockBounds'
  BY <1>1, <1>2, <1>5 DEF RInv, IInv, TypeOK, ClockBounds, Clock, DiskNode
<1>. QED
  BY <1>1, <1>4, <1>6 DEF RInv

\* start_mutation and finish leave the disk alone, finish saving the
\* in-memory triple; discard brings tree_state's back.
LEMMA MutationStepsRInv ==
    ASSUME RInv, StartMutation \/ Finish \/ Discard
    PROVE  RInv'
<1>1. IInv'
  BY MutationStepsIInv DEF RInv
<1>2. UNCHANGED << disk, clock >>
  BY DEF StartMutation, Finish, Discard, userVars
<1>3. ClockBounds'
  BY <1>2 DEF StartMutation, Finish, Discard, Reload, RInv, ClockBounds,
              memVars, persistedVars
<1>4. IndexVouchesForTree'
  BY <1>2 DEF StartMutation, Finish, Discard, Reload, RInv,
              IndexVouchesForTree, StatVouches, memVars, persistedVars
<1>. QED
  BY <1>1, <1>3, <1>4 DEF RInv

\* A path outside the diff keeps its tree value, or has no index entry:
\* the diff is limited to the sparse patterns, outside which sparse
\* closure leaves the index empty.
LEMMA OutsideDiff ==
    ASSUME IInv, NEW t \in Trees, NEW p \in FilePaths, p \notin Changed(t),
           fileStates[p] # Absent
    PROVE  t[p] = tree[p]
BY DEF Changed, IInv, SparseClosure, IndexMatchesTree

\* check_out stamps every entry it writes with the tick of its stat, and
\* leaves the other entries, their tree values and their nodes alone.
LEMMA CheckOutRInv ==
    ASSUME RInv, NEW t \in Trees, CheckOut(t)
    PROVE  RInv'
<1>. DEFINE ch == Changed(t)
<1>1. IInv'
  BY CheckOutIInv DEF RInv
<1>2. /\ UNCHANGED << clock, pTree, pFileStates, pStatAt >>
      /\ tree' = t
      /\ disk' = [p \in FilePaths |-> IF p \in ch THEN Applied(p, t) ELSE disk[p]]
      /\ fileStates' = [p \in FilePaths |->
                          IF p \notin ch THEN fileStates[p]
                          ELSE IF Written(t[p]) THEN Stat(Materialize(t[p]))
                          ELSE Absent]
      /\ statAt' = [p \in FilePaths |-> IF p \in ch THEN clock ELSE statAt[p]]
  BY DEF CheckOut, persistedVars
<1>3. DiskStep
  BY <1>2 DEF DiskStep, Applied, Materialize
<1>4. StatVouches(pTree, pFileStates, pStatAt)'
  BY <1>2, <1>3, PersistedFrame DEF RInv, IInv
<1>5. StatVouches(tree, fileStates, statAt)'
  <2> SUFFICES ASSUME NEW p \in FilePaths, fileStates'[p] # Absent
               PROVE  /\ fileStates'[p].mtime <= statAt'[p]
                      /\ fileStates'[p].mtime < statAt'[p] /\ disk'[p] # Absent
                           /\ Stat(disk'[p]) = fileStates'[p]
                         => NodeValue(disk'[p]) = tree'[p]
    BY DEF StatVouches
  <2>1. clock \in Int
    BY DEF RInv, IInv, TypeOK, Clock
  <2>2. CASE p \in ch
    <3>1. fileStates'[p].mtime = clock /\ statAt'[p] = clock
      BY <1>2, <2>2 DEF Stat, Materialize
    <3>. QED
      BY <2>1, <3>1
  <2>3. CASE p \notin ch
    <3>1. /\ fileStates'[p] = fileStates[p] /\ statAt'[p] = statAt[p]
          /\ disk'[p] = disk[p] /\ tree'[p] = tree[p]
      BY <1>2, <2>3, OutsideDiff DEF RInv
    <3>. QED
      BY <3>1 DEF RInv, IndexVouchesForTree, StatVouches
  <2>. QED
    BY <2>2, <2>3
<1>6. ClockBounds'
  <2>1. \A p \in FilePaths : disk'[p] # Absent => disk'[p].mtime <= clock
    BY <1>2 DEF Applied, Materialize, RInv, ClockBounds, IInv, TypeOK, Clock
  <2>. QED
    BY <1>2, <2>1 DEF RInv, ClockBounds, IInv, TypeOK, Clock
<1>. QED
  BY <1>1, <1>4, <1>5, <1>6 DEF RInv, IndexVouchesForTree

\* reset leaves the disk alone and gives the entries it writes an mtime
\* no node carries.
LEMMA ResetRInv ==
    ASSUME RInv, NEW t \in Trees, Reset(t)
    PROVE  RInv'
<1>. DEFINE ch == Changed(t)
<1>1. IInv'
  BY ResetIInv DEF RInv
<1>2. /\ UNCHANGED << disk, clock, statAt, pTree, pFileStates, pStatAt >>
      /\ tree' = t
      /\ fileStates' = [p \in FilePaths |->
                          IF p \notin ch THEN fileStates[p]
                          ELSE IF Written(t[p])
                            THEN [type |-> KindType(t[p].kind), mtime |-> NoMtime]
                          ELSE Absent]
  BY DEF Reset, userVars, persistedVars
<1>3. StatVouches(pTree, pFileStates, pStatAt)'
  BY <1>2 DEF RInv, IndexVouchesForTree, StatVouches
<1>4. StatVouches(tree, fileStates, statAt)'
  <2> SUFFICES ASSUME NEW p \in FilePaths, fileStates'[p] # Absent
               PROVE  /\ fileStates'[p].mtime <= statAt'[p]
                      /\ fileStates'[p].mtime < statAt'[p] /\ disk'[p] # Absent
                           /\ Stat(disk'[p]) = fileStates'[p]
                         => NodeValue(disk'[p]) = tree'[p]
    BY DEF StatVouches
  <2>1. CASE p \in ch
    <3>1. fileStates'[p].mtime = -1
      BY <1>2, <2>1 DEF NoMtime
    <3>2. statAt[p] \in Nat
      BY DEF RInv, IInv, TypeOK, Clock
    <3>3. disk[p] # Absent => disk[p].mtime \in Nat
      BY DEF RInv, IInv, TypeOK, Clock, DiskNode
    <3>. QED
      BY <1>2, <3>1, <3>2, <3>3 DEF Stat
  <2>2. CASE p \notin ch
    <3>1. fileStates'[p] = fileStates[p] /\ tree'[p] = tree[p]
      BY <1>2, <2>2, OutsideDiff DEF RInv
    <3>. QED
      BY <1>2, <3>1 DEF RInv, IndexVouchesForTree, StatVouches
  <2>. QED
    BY <2>1, <2>2
<1>5. ClockBounds'
  BY <1>2 DEF RInv, ClockBounds
<1>. QED
  BY <1>1, <1>3, <1>4, <1>5 DEF RInv, IndexVouchesForTree

\* A failed check_out has written or removed some nodes, then reloads
\* tree_state: the reloaded entries vouch against the changed disk because
\* each node it touched is gone or stamped with the current tick.
LEMMA CheckOutFailsRInv ==
    ASSUME RInv, NEW t \in Trees, NEW k \in 1..Len(PathOrder), CheckOutFails(t, k)
    PROVE  RInv'
<1>1. IInv'
  BY CheckOutFailsIInv DEF RInv
<1>2. /\ UNCHANGED << clock, pTree, pFileStates, pStatAt >>
      /\ tree' = pTree /\ fileStates' = pFileStates /\ statAt' = pStatAt
  BY DEF CheckOutFails, Reload, persistedVars
<1>3. DiskStep
  BY DEF CheckOutFails, DiskStep, Applied, RemovedOnly, Materialize
<1>4. StatVouches(pTree, pFileStates, pStatAt)'
  BY <1>2, <1>3, PersistedFrame DEF RInv, IInv
<1>5. StatVouches(tree, fileStates, statAt)'
  BY <1>2, <1>4 DEF StatVouches
<1>6. \A p \in FilePaths : disk'[p] # Absent => disk'[p].mtime <= clock
  BY DEF CheckOutFails, Applied, RemovedOnly, Materialize, RInv, ClockBounds,
         IInv, TypeOK, Clock
<1>7. ClockBounds'
  BY <1>2, <1>6 DEF RInv, ClockBounds
<1>. QED
  BY <1>1, <1>4, <1>5, <1>7 DEF RInv, IndexVouchesForTree

\* write_tree leaves the disk alone and stamps each ingested entry with the
\* current tick, from a node no later than that tick.
LEMMA WriteTreeRInv ==
    ASSUME RInv, WriteTree
    PROVE  RInv'
<1>1. IInv'
  BY WriteTreeIInv DEF RInv
<1>2. /\ UNCHANGED << disk, clock, pTree, pFileStates, pStatAt >>
      /\ tree' = [p \in FilePaths |->
                    IF p \in Ingested THEN NodeValue(disk[p])
                    ELSE IF p \in Deleted THEN Absent
                    ELSE tree[p]]
      /\ fileStates' = [p \in FilePaths |->
                          IF p \in Ingested THEN Stat(disk[p])
                          ELSE IF p \in Deleted THEN Absent
                          ELSE fileStates[p]]
      /\ statAt' = [p \in FilePaths |-> IF p \in Ingested THEN clock ELSE statAt[p]]
  BY DEF WriteTree, userVars, persistedVars
<1>3. StatVouches(pTree, pFileStates, pStatAt)'
  BY <1>2 DEF RInv, IndexVouchesForTree, StatVouches
<1>4. StatVouches(tree, fileStates, statAt)'
  <2> SUFFICES ASSUME NEW p \in FilePaths, fileStates'[p] # Absent
               PROVE  /\ fileStates'[p].mtime <= statAt'[p]
                      /\ fileStates'[p].mtime < statAt'[p] /\ disk'[p] # Absent
                           /\ Stat(disk'[p]) = fileStates'[p]
                         => NodeValue(disk'[p]) = tree'[p]
    BY DEF StatVouches
  <2>1. CASE p \in Ingested
    <3>1. disk[p] # Absent
      BY <2>1 DEF Ingested, OnDisk
    <3>2. fileStates'[p].mtime = disk[p].mtime /\ statAt'[p] = clock
          /\ tree'[p] = NodeValue(disk[p])
      BY <1>2, <2>1 DEF Stat
    <3>. QED
      BY <1>2, <3>1, <3>2 DEF RInv, ClockBounds
  <2>2. CASE p \notin Ingested
    <3>1. /\ fileStates'[p] = fileStates[p] /\ tree'[p] = tree[p]
          /\ statAt'[p] = statAt[p]
      BY <1>2, <2>2
    <3>. QED
      BY <1>2, <3>1 DEF RInv, IndexVouchesForTree, StatVouches
  <2>. QED
    BY <2>1, <2>2
<1>5. ClockBounds'
  BY <1>2 DEF RInv, ClockBounds, IInv, TypeOK, Clock
<1>. QED
  BY <1>1, <1>3, <1>4, <1>5 DEF RInv, IndexVouchesForTree

\* set_sparse_patterns stamps the entries of the paths it materialises
\* with the tick of their stat, and drops the entries of the paths it
\* removes; a path entering the patterns had no entry before.
LEMMA SetSparsePatternsRInv ==
    ASSUME RInv, NEW new \in PatternSets, SetSparsePatterns(new)
    PROVE  RInv'
<1>. DEFINE added == {p \in FilePaths : tree[p] # Absent /\ InSparse(new, p)
                                        /\ ~InSparse(sparse, p)}
            removed == {p \in FilePaths : tree[p] # Absent /\ InSparse(sparse, p)
                                          /\ ~InSparse(new, p)}
<1>1. IInv'
  BY SetSparsePatternsIInv DEF RInv
<1>2. /\ UNCHANGED << clock, tree, pTree, pFileStates, pStatAt >>
      /\ disk' = [p \in FilePaths |->
                    IF p \in added /\ Written(tree[p]) THEN Materialize(tree[p])
                    ELSE IF p \in removed THEN Absent
                    ELSE disk[p]]
      /\ fileStates' = [p \in FilePaths |->
                          IF p \in added /\ Written(tree[p])
                            THEN Stat(Materialize(tree[p]))
                          ELSE IF p \in removed THEN Absent
                          ELSE fileStates[p]]
      /\ statAt' = [p \in FilePaths |-> IF p \in added THEN clock ELSE statAt[p]]
  BY DEF SetSparsePatterns, persistedVars
<1>3. DiskStep
  BY <1>2 DEF DiskStep, Materialize
<1>4. StatVouches(pTree, pFileStates, pStatAt)'
  BY <1>2, <1>3, PersistedFrame DEF RInv, IInv
<1>5. StatVouches(tree, fileStates, statAt)'
  <2> SUFFICES ASSUME NEW p \in FilePaths, fileStates'[p] # Absent
               PROVE  /\ fileStates'[p].mtime <= statAt'[p]
                      /\ fileStates'[p].mtime < statAt'[p] /\ disk'[p] # Absent
                           /\ Stat(disk'[p]) = fileStates'[p]
                         => NodeValue(disk'[p]) = tree'[p]
    BY DEF StatVouches
  <2>1. clock \in Int
    BY DEF RInv, IInv, TypeOK, Clock
  <2>2. CASE p \in added /\ Written(tree[p])
    <3>1. fileStates'[p].mtime = clock /\ statAt'[p] = clock
      BY <1>2, <2>2 DEF Stat, Materialize
    <3>. QED
      BY <2>1, <3>1
  <2>3. CASE p \in added /\ ~Written(tree[p])
    BY <1>2, <2>3 DEF RInv, IInv, SparseClosure, IndexMatchesTree
  <2>4. CASE p \notin added
    <3>1. p \notin removed
      BY <1>2, <2>4
    <3>2. /\ fileStates'[p] = fileStates[p] /\ statAt'[p] = statAt[p]
          /\ disk'[p] = disk[p] /\ tree'[p] = tree[p]
      BY <1>2, <2>4, <3>1
    <3>. QED
      BY <3>2 DEF RInv, IndexVouchesForTree, StatVouches
  <2>. QED
    BY <2>2, <2>3, <2>4
<1>6. ClockBounds'
  <2>1. \A p \in FilePaths : disk'[p] # Absent => disk'[p].mtime <= clock
    BY <1>2 DEF Materialize, RInv, ClockBounds, IInv, TypeOK, Clock
  <2>. QED
    BY <1>2, <2>1 DEF RInv, ClockBounds, IInv, TypeOK, Clock
<1>. QED
  BY <1>1, <1>4, <1>5, <1>6 DEF RInv, IndexVouchesForTree

\* Every step of the engine, the user or the clock keeps RInv.
LEMMA NextRInv == RInv /\ [Next]_vars => RInv'
<1> SUFFICES ASSUME RInv, [Next]_vars PROVE RInv'
  OBVIOUS
<1>1. CASE \/ \E p \in FilePaths, b \in Blobs : UserWrite(p, b)
           \/ \E p \in FilePaths : UserRemove(p)
           \/ \E I \in IgnoreSets : EditIgnores(I)
           \/ Tick
  BY <1>1, UserStepsRInv
<1>2. CASE StartMutation \/ Finish \/ Discard
  BY <1>2, MutationStepsRInv
<1>3. CASE \E t \in Trees : CheckOut(t)
  BY <1>3, CheckOutRInv
<1>4. CASE \E t \in Trees, k \in 1..Len(PathOrder) : CheckOutFails(t, k)
  BY <1>4, CheckOutFailsRInv
<1>5. CASE \E t \in Trees : Reset(t)
  BY <1>5, ResetRInv
<1>6. CASE WriteTree
  BY <1>6, WriteTreeRInv
<1>7. CASE \E P \in PatternSets : SetSparsePatterns(P)
  BY <1>7, SetSparsePatternsRInv
<1>8. CASE UNCHANGED vars
  BY <1>8 DEF RInv, IInv, TypeOK, SparseClosure, IndexMatchesTree, ClockBounds,
              IndexVouchesForTree, StatVouches, vars, userVars, memVars,
              persistedVars
<1>. QED
  BY <1>1, <1>2, <1>3, <1>4, <1>5, <1>6, <1>7, <1>8 DEF Next

-----------------------------------------------------------------------------
(* The theorems.                                                           *)

\* An index entry, in memory or in tree_state, never records an mtime
\* later than the tick of its stat, and when it records an earlier one,
\* a node with that stat holds the tree's value: checkout, reset, the
\* snapshot and set_sparse_patterns stamp their entries so that the
\* user's later writes, and a failed checkout's, are told apart.
THEOREM IndexVouches == Spec => []IndexVouchesForTree
<1>1. Init => RInv
  BY InitRInv
<1>2. RInv /\ [Next]_vars => RInv'
  BY NextRInv
<1>3. RInv => IndexVouchesForTree
  BY DEF RInv
<1>. QED
  BY <1>1, <1>2, <1>3, PTL DEF Spec

\* On a snapshot step, a path whose stale value the snapshot keeps passed
\* the stat shortcut, and the entry vouches for the value unless it was
\* stamped in its own stat tick.
LEMMA WriteTreeStale ==
    ASSUME RInv, WriteTree, NEW p \in FilePaths, StaleValue(p)
    PROVE  disk[p].mtime = statAt[p] /\ statAt[p] < ownMtime
<1>1. p \notin Ingested
  BY DEF StaleValue, WriteTree
<1>2. p \notin Deleted /\ tree'[p] = tree[p]
  BY <1>1 DEF StaleValue, Tracked, WriteTree
<1>3. Tracked(p) /\ InSparse(sparse, p)
  BY <1>1, <1>2 DEF StaleValue, Tracked, WriteTree, RInv, IInv, SparseClosure,
                    IndexMatchesTree
<1>4. Clean(p)
  BY <1>1, <1>3 DEF StaleValue, Ingested
<1>5. fileStates[p].mtime <= statAt[p]
  BY <1>3 DEF RInv, IndexVouchesForTree, StatVouches, Tracked
<1>6. ~(fileStates[p].mtime < statAt[p])
  BY <1>2, <1>3, <1>4 DEF StaleValue, OnDisk, Clean, Tracked, RInv,
                          IndexVouchesForTree, StatVouches
<1>7. fileStates[p].mtime \in Int /\ statAt[p] \in Int
  BY <1>3 DEF RInv, IInv, TypeOK, Tracked, FileState, Clock, NoMtime
<1>8. disk[p].mtime = fileStates[p].mtime
  <2>1. Stat(disk[p]) = fileStates[p]
    BY <1>4 DEF Clean
  <2>2. Stat(disk[p]).mtime = disk[p].mtime
    BY DEF Stat
  <2>. QED
    BY <2>1, <2>2
<1>. QED
  BY <1>4, <1>5, <1>6, <1>7, <1>8 DEF Clean

\* The racy-timestamp rule for every instance: a snapshot that keeps the
\* old value of a tracked file whose content differs on disk missed only
\* an edit made in the tick the file's stat was taken, and that tick is
\* strictly before the tree_state file's own mtime.
THEOREM RacyWindow == Spec => SnapshotMissesOnlyStatTickEdits
<1>1. Init => RInv
  BY InitRInv
<1>2. RInv /\ [Next]_vars => RInv'
  BY NextRInv
<1>3. RInv => [WriteTree =>
                 \A p \in FilePaths :
                    StaleValue(p) => /\ disk[p].mtime = statAt[p]
                                     /\ statAt[p] < ownMtime]_vars
  BY WriteTreeStale
<1>. QED
  BY <1>1, <1>2, <1>3, PTL DEF Spec, SnapshotMissesOnlyStatTickEdits

=============================================================================
