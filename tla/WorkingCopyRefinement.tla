------------------------ MODULE WorkingCopyRefinement ------------------------
(***************************************************************************)
(* Proofs about the scoped mutation and the .git exclusion, for every     *)
(* value of the constants that satisfies ConstantsAssumption.              *)
(*                                                                         *)
(* The first two results are invariants.  DotGitNeverTracked rests on     *)
(* IInv: the tree never holds a path under .git (check_out and reset      *)
(* reject such a target, the snapshot never enters .git), and an index     *)
(* entry needs a written tree value (SparseClosure).  UnlockedStateSaved   *)
(* is inductive by itself.  The last result is the refinement of          *)
(* TreeStateStore under the mapping TS of WorkingCopy: every step of the  *)
(* engine, the user or the clock is a step of the abstract scoped         *)
(* mutation or leaves its state alone.  It rests on IInv in the new state  *)
(* as well, so that the state a mutation leaves behind is sparse-closed.  *)
(***************************************************************************)
EXTENDS WorkingCopyProofs

-----------------------------------------------------------------------------
(* The .git exclusion.                                                     *)

\* Neither the in-memory nor the saved tree holds a path under .git.
NoDotGitInTrees ==
    \A p \in FilePaths : IsDotGit(p) => tree[p] = Absent /\ pTree[p] = Absent

\* Every step keeps the trees free of .git: the targets of check_out and
\* reset are valid, a failed checkout and discard reload the saved tree,
\* finish saves the in-memory one, and write_tree ingests no path the walk
\* does not enter.
LEMMA NextNoDotGit ==
    ASSUME NoDotGitInTrees, [Next]_vars
    PROVE  NoDotGitInTrees'
<1> SUFFICES ASSUME NEW p \in FilePaths, IsDotGit(p)
             PROVE  tree'[p] = Absent /\ pTree'[p] = Absent
  BY DEF NoDotGitInTrees
<1>1. tree[p] = Absent /\ pTree[p] = Absent
  BY DEF NoDotGitInTrees
<1>2. CASE \/ \E q \in FilePaths, b \in Blobs : UserWrite(q, b)
           \/ \E q \in FilePaths : UserRemove(q)
           \/ \E I \in IgnoreSets : EditIgnores(I)
           \/ Tick \/ StartMutation
  BY <1>1, <1>2 DEF UserWrite, UserRemove, EditIgnores, Tick, StartMutation,
                    memVars, persistedVars
<1>3. CASE Finish \/ Discard
  BY <1>1, <1>3 DEF Finish, Discard, Reload, persistedVars
<1>4. CASE \E t \in Trees : CheckOut(t) \/ Reset(t)
  <2>1. PICK t \in Trees : CheckOut(t) \/ Reset(t)
    BY <1>4
  <2>2. ValidTarget(t) /\ tree' = t /\ pTree' = pTree
    BY <2>1 DEF CheckOut, Reset, persistedVars
  <2>. QED
    BY <1>1, <2>2 DEF ValidTarget
<1>5. CASE \E t \in Trees, k \in 1..Len(PathOrder) : CheckOutFails(t, k)
  BY <1>1, <1>5 DEF CheckOutFails, Reload, persistedVars
<1>6. CASE WriteTree
  <2>1. p \notin Ingested
    BY DEF Ingested, OnDisk
  <2>. QED
    BY <1>1, <1>6, <2>1 DEF WriteTree, persistedVars
<1>7. CASE \E P \in PatternSets : SetSparsePatterns(P)
  BY <1>1, <1>7 DEF SetSparsePatterns, persistedVars
<1>8. CASE UNCHANGED vars
  BY <1>1, <1>8 DEF vars, memVars, persistedVars
<1>. QED
  BY <1>2, <1>3, <1>4, <1>5, <1>6, <1>7, <1>8 DEF Next

\* With sparse closure, a path without a tree value has no index entry.
LEMMA NoDotGitTracked ==
    ASSUME IInv, NoDotGitInTrees
    PROVE  DotGitNeverTracked
BY DEF IInv, SparseClosure, IndexMatchesTree, Written, NoDotGitInTrees,
       DotGitNeverTracked

\* The .git exclusion (specification 8.6) for every instance: no path
\* under .git enters the tree or the index, in memory or in tree_state.
THEOREM DotGitExcluded == Spec => []DotGitNeverTracked
<1>1. Init => IInv /\ NoDotGitInTrees
  BY InitIInv DEF Init, EmptyTree, NoDotGitInTrees
<1>2. IInv /\ NoDotGitInTrees /\ [Next]_vars => IInv' /\ NoDotGitInTrees'
  BY NextIInv, NextNoDotGit
<1>3. IInv /\ NoDotGitInTrees => DotGitNeverTracked
  BY NoDotGitTracked
<1>. QED
  BY <1>1, <1>2, <1>3, PTL DEF Spec

-----------------------------------------------------------------------------
(* The tree state outside a mutation.                                      *)

\* Every step keeps memory and tree_state equal while the lock is free:
\* the steps that change either need the lock and keep it, or release it
\* after saving (finish) or reloading (discard, a failed checkout).
LEMMA NextUnlockedStateSaved ==
    ASSUME UnlockedStateSaved, [Next]_vars
    PROVE  UnlockedStateSaved'
<1>1. CASE \/ \E q \in FilePaths, b \in Blobs : UserWrite(q, b)
           \/ \E q \in FilePaths : UserRemove(q)
           \/ \E I \in IgnoreSets : EditIgnores(I)
           \/ Tick
  BY <1>1 DEF UnlockedStateSaved, UserWrite, UserRemove, EditIgnores, Tick,
              memVars, persistedVars
<1>2. CASE StartMutation
  BY <1>2 DEF UnlockedStateSaved, StartMutation
<1>3. CASE Finish
  BY <1>3 DEF UnlockedStateSaved, Finish
<1>4. CASE Discard
  BY <1>4 DEF UnlockedStateSaved, Discard, Reload, persistedVars
<1>5. CASE \E t \in Trees, k \in 1..Len(PathOrder) : CheckOutFails(t, k)
  <2>1. PICK t \in Trees, k \in 1..Len(PathOrder) : CheckOutFails(t, k)
    BY <1>5
  <2>. QED
    BY <2>1 DEF UnlockedStateSaved, CheckOutFails, Reload, persistedVars
<1>6. CASE \/ \E t \in Trees : CheckOut(t) \/ Reset(t)
           \/ WriteTree
           \/ \E P \in PatternSets : SetSparsePatterns(P)
  BY <1>6 DEF UnlockedStateSaved, CheckOut, Reset, WriteTree, SetSparsePatterns
<1>7. CASE UNCHANGED vars
  BY <1>7 DEF UnlockedStateSaved, vars, memVars, persistedVars
<1>. QED
  BY <1>1, <1>2, <1>3, <1>4, <1>5, <1>6, <1>7 DEF Next

\* The scoped mutation (specification 4.6) for every instance: whenever no
\* mutation holds the lock, the in-memory tree state, own mtime included,
\* is the one tree_state holds.
THEOREM UnlockedStateIsSaved == Spec => []UnlockedStateSaved
<1>1. Init => UnlockedStateSaved
  BY DEF Init, UnlockedStateSaved
<1>2. UnlockedStateSaved /\ [Next]_vars => UnlockedStateSaved'
  BY NextUnlockedStateSaved
<1>. QED
  BY <1>1, <1>2, PTL DEF Spec

-----------------------------------------------------------------------------
(* The refinement of TreeStateStore.                                       *)

\* A state of IInv maps to a legal abstract state.
LEMMA CurrentIsTreeState ==
    ASSUME IInv
    PROVE  [tree |-> tree, fileStates |-> fileStates, sparse |-> sparse] \in TreeStates
BY DEF IInv, TypeOK, SparseClosure, TreeStates

\* The initial workspace maps to an initial abstract state.
LEMMA InitRefines == Init => TS!Init
<1> SUFFICES ASSUME Init PROVE TS!Init
  OBVIOUS
<1>1. IInv
  BY InitIInv
<1>. QED
  BY <1>1, CurrentIsTreeState DEF TS!Init, Init

\* Every step maps to a step of the scoped mutation or to a stutter: the
\* user and the clock touch no tree state; start_mutation, finish and
\* discard are their abstract counterparts; a failed checkout is a
\* discard; the other operations of a mutation are Mutate steps, whose
\* new state is legal because IInv holds in it.
LEMMA NextRefines ==
    ASSUME IInv, IInv', [Next]_vars
    PROVE  [TS!Next]_TS!vars
<1>1. [tree |-> tree', fileStates |-> fileStates', sparse |-> sparse'] \in TreeStates
  BY DEF IInv, TypeOK, SparseClosure, TreeStates
<1>2. CASE \/ \E q \in FilePaths, b \in Blobs : UserWrite(q, b)
           \/ \E q \in FilePaths : UserRemove(q)
           \/ \E I \in IgnoreSets : EditIgnores(I)
           \/ Tick
  BY <1>2 DEF TS!vars, UserWrite, UserRemove, EditIgnores, Tick, memVars,
              persistedVars
<1>3. CASE StartMutation
  <2>1. TS!Start
    BY <1>3 DEF TS!Start, StartMutation, memVars, persistedVars
  <2>. QED
    BY <2>1 DEF TS!Next
<1>4. CASE Finish
  <2>1. TS!Finish
    BY <1>4 DEF TS!Finish, Finish
  <2>. QED
    BY <2>1 DEF TS!Next
<1>5. CASE Discard
  <2>1. TS!Discard
    BY <1>5 DEF TS!Discard, Discard, Reload, persistedVars
  <2>. QED
    BY <2>1 DEF TS!Next
<1>6. CASE \E t \in Trees, k \in 1..Len(PathOrder) : CheckOutFails(t, k)
  <2>1. PICK t \in Trees, k \in 1..Len(PathOrder) : CheckOutFails(t, k)
    BY <1>6
  <2>2. TS!Discard
    BY <2>1 DEF TS!Discard, CheckOutFails, Reload, persistedVars
  <2>. QED
    BY <2>2 DEF TS!Next
<1>7. CASE \/ \E t \in Trees : CheckOut(t) \/ Reset(t)
           \/ WriteTree
           \/ \E P \in PatternSets : SetSparsePatterns(P)
  <2>1. locked /\ locked' = locked /\ UNCHANGED << pTree, pFileStates, pSparse >>
    BY <1>7 DEF CheckOut, Reset, WriteTree, SetSparsePatterns, persistedVars
  <2>2. TS!Mutate
    BY <1>1, <2>1 DEF TS!Mutate
  <2>. QED
    BY <2>2 DEF TS!Next
<1>8. CASE UNCHANGED vars
  BY <1>8 DEF TS!vars, vars, memVars, persistedVars
<1>. QED
  BY <1>2, <1>3, <1>4, <1>5, <1>6, <1>7, <1>8 DEF Next

\* The engine implements the scoped mutation for every instance: its
\* behaviours, seen through the mapping TS (in-memory tree state as the
\* current state, tree_state as the saved one), are behaviours of
\* TreeStateStore.  So tree_state changes only at finish, and only under
\* the lock does the in-memory state change.
THEOREM Refinement == Spec => ImplementsTreeStateStore
<1>1. Init => TS!Init /\ IInv
  BY InitRefines, InitIInv
<1>2. IInv /\ [Next]_vars => IInv'
  BY NextIInv
<1>3. IInv /\ IInv' /\ [Next]_vars => [TS!Next]_TS!vars
  BY NextRefines
<1>. QED
  BY <1>1, <1>2, <1>3, PTL DEF Spec, ImplementsTreeStateStore, TS!Spec

=============================================================================
