-------------------------- MODULE WorkingCopyProofs --------------------------
(***************************************************************************)
(* Proofs about the working-copy engine, for every value of the constants *)
(* that satisfies ConstantsAssumption.                                     *)
(*                                                                         *)
(* Sparse closure is not inductive on its own: a step that writes an      *)
(* index entry must know that the value it records is a stat of a node    *)
(* the engine writes (a file, an executable or a symlink), and that the   *)
(* entries it leaves alone belong to paths whose tree value and sparse    *)
(* membership it leaves alone.  The first is the type invariant, so the   *)
(* inductive invariant is IInv == TypeOK /\ SparseClosure.                 *)
(***************************************************************************)
EXTENDS WorkingCopy, TLAPS

IInv == TypeOK /\ SparseClosure

USE ConstantsAssumption

-----------------------------------------------------------------------------
(* Lemmas about the helpers.                                               *)

\* A tree value the engine writes is materialised as a node of the
\* matching type, whose stat is a file state.
LEMMA MaterializeType ==
    ASSUME NEW v \in TreeValue, Written(v), clock \in Clock
    PROVE  /\ Materialize(v) \in DiskNode
           /\ Stat(Materialize(v)) \in FileState
BY DEF TreeValue, Kinds, Written, Materialize, KindType, DiskNode, NodeTypes,
       Stat, FileState

\* A node the snapshot reads back is a tree value the engine writes, and
\* its stat is a file state.
LEMMA NodeValueType ==
    ASSUME NEW n \in DiskNode
    PROVE  /\ NodeValue(n) \in TreeValue
           /\ Written(NodeValue(n))
           /\ Stat(n) \in FileState
<1>1. NodeValue(n) \in TreeValue
  BY DEF DiskNode, NodeTypes, NodeValue, TypeKind, TreeValue, Kinds
<1>2. NodeValue(n) # Absent
  BY <1>1
<1>3. NodeValue(n).kind # "submodule"
  BY DEF DiskNode, NodeTypes, NodeValue, TypeKind
<1>4. Stat(n) \in FileState
  BY DEF DiskNode, Stat, FileState, Clock
<1>. QED
  BY <1>1, <1>2, <1>3, <1>4 DEF Written

\* A value of a tree that the engine writes is a tree value.
LEMMA WrittenValue ==
    ASSUME NEW t \in Tree, NEW p \in FilePaths, Written(t[p])
    PROVE  t[p] \in TreeValue
BY DEF Tree, Written

\* A reset records a placeholder stat of the written type.
LEMMA PlaceholderType ==
    ASSUME NEW v \in TreeValue, Written(v)
    PROVE  [type |-> KindType(v.kind), mtime |-> NoMtime] \in FileState
BY DEF TreeValue, Kinds, Written, KindType, FileState, NodeTypes

-----------------------------------------------------------------------------
(* The inductive invariant.                                                *)

LEMMA InitIInv == Init => IInv
<1> SUFFICES ASSUME Init PROVE IInv
  OBVIOUS
<1>1. EmptyTree \in Tree
  BY DEF EmptyTree, Tree
<1>2. {Root} \in SUBSET Seq(STRING)
  BY DEF Root
<1>3. TypeOK
  <2>1. 0 \in Clock
    BY DEF Clock
  <2>2. /\ disk \in [FilePaths -> DiskNode \cup {Absent}]
        /\ fileStates \in [FilePaths -> FileState \cup {Absent}]
        /\ pFileStates \in [FilePaths -> FileState \cup {Absent}]
    BY DEF Init
  <2>3. statAt \in [FilePaths -> Clock] /\ pStatAt \in [FilePaths -> Clock]
    BY <2>1 DEF Init
  <2>4. ignored \in SUBSET FilePaths
    BY DEF Init
  <2>. QED
    BY <1>1, <1>2, <2>1, <2>2, <2>3, <2>4 DEF Init, TypeOK
<1>4. SparseClosure
  BY DEF Init, SparseClosure, IndexMatchesTree, EmptyTree, Written
<1>. QED
  BY <1>3, <1>4 DEF IInv

\* The user's edits, the gitignore and the clock touch no tree state.
LEMMA UserStepsIInv ==
    ASSUME IInv,
           \/ \E p \in FilePaths, b \in Blobs : UserWrite(p, b)
           \/ \E p \in FilePaths : UserRemove(p)
           \/ \E I \in IgnoreSets : EditIgnores(I)
           \/ Tick
    PROVE  IInv'
<1>1. SparseClosure'
  BY DEF IInv, SparseClosure, IndexMatchesTree, UserWrite, UserRemove,
         EditIgnores, Tick, memVars, persistedVars
<1>2. CASE \E p \in FilePaths, b \in Blobs : UserWrite(p, b)
  <2>1. PICK p \in FilePaths, b \in Blobs : UserWrite(p, b)
    BY <1>2
  <2>2. disk[p] # Absent => disk[p] \in DiskNode
    BY DEF IInv, TypeOK
  <2>3. [type |-> IF disk[p] = Absent THEN "file" ELSE disk[p].type,
         data |-> b, mtime |-> clock] \in DiskNode
    BY <2>2 DEF IInv, TypeOK, DiskNode, NodeTypes
  <2>. QED
    BY <1>1, <2>1, <2>3 DEF IInv, TypeOK, UserWrite, memVars, persistedVars
<1>3. CASE \E p \in FilePaths : UserRemove(p)
  BY <1>1, <1>3 DEF IInv, TypeOK, UserRemove, memVars, persistedVars
<1>4. CASE \E I \in IgnoreSets : EditIgnores(I)
  BY <1>1, <1>4 DEF IInv, TypeOK, EditIgnores, memVars, persistedVars
<1>5. CASE Tick
  BY <1>1, <1>5 DEF IInv, TypeOK, Tick, memVars, persistedVars, Clock
<1>. QED
  BY <1>2, <1>3, <1>4, <1>5

\* start_mutation, finish and discard copy the tree state between memory
\* and the tree_state file, both of which satisfy sparse closure.
LEMMA MutationStepsIInv ==
    ASSUME IInv, StartMutation \/ Finish \/ Discard
    PROVE  IInv'
<1>1. CASE StartMutation
  BY <1>1 DEF IInv, TypeOK, SparseClosure, IndexMatchesTree, StartMutation,
              userVars, memVars, persistedVars
<1>2. CASE Finish
  BY <1>2 DEF IInv, TypeOK, SparseClosure, IndexMatchesTree, Finish, userVars
<1>3. CASE Discard
  BY <1>3 DEF IInv, TypeOK, SparseClosure, IndexMatchesTree, Discard, Reload,
              userVars, persistedVars
<1>. QED
  BY <1>1, <1>2, <1>3

\* check_out writes, for each changed matched path, the target value's
\* node and its stat, and removes the entry of any other changed path.
LEMMA CheckOutIInv ==
    ASSUME IInv, NEW t \in Trees, CheckOut(t)
    PROVE  IInv'
<1>. USE DEF IInv, TypeOK
<1>1. t \in Tree
  OBVIOUS
<1>. DEFINE ch == Changed(t)
<1>2. \A p \in FilePaths : Applied(p, t) \in DiskNode \cup {Absent}
  <2> TAKE p \in FilePaths
  <2>1. CASE Written(t[p])
    <3>1. t[p] \in TreeValue
      BY <1>1, <2>1, WrittenValue
    <3>. QED
      BY <2>1, <3>1, MaterializeType DEF Applied
  <2>. QED
    BY <2>1 DEF Applied
<1>3. \A p \in FilePaths : Written(t[p]) => Stat(Materialize(t[p])) \in FileState
  BY <1>1, WrittenValue, MaterializeType
<1>4. TypeOK'
  BY <1>1, <1>2, <1>3 DEF CheckOut, persistedVars, Clock
<1>5. IndexMatchesTree(tree', fileStates', sparse')
  <2> SUFFICES ASSUME NEW p \in FilePaths
               PROVE  fileStates'[p] # Absent <=> (Written(t[p]) /\ InSparse(sparse, p))
    BY DEF CheckOut, IndexMatchesTree
  <2>1. CASE p \in ch
    BY <1>3, <2>1 DEF CheckOut, Changed
  <2>2. CASE p \notin ch
    BY <2>2 DEF CheckOut, Changed, SparseClosure, IndexMatchesTree
  <2>. QED
    BY <2>1, <2>2
<1>. QED
  BY <1>4, <1>5 DEF SparseClosure, CheckOut, persistedVars

\* A failed check_out leaves the in-memory state as the tree_state file
\* holds it.
LEMMA CheckOutFailsIInv ==
    ASSUME IInv, NEW t \in Trees, NEW k \in 1..Len(PathOrder), CheckOutFails(t, k)
    PROVE  IInv'
<1>. USE DEF IInv, TypeOK
<1>1. t \in Tree
  OBVIOUS
<1>2. \A p \in FilePaths : Applied(p, t) \in DiskNode \cup {Absent}
  <2> TAKE p \in FilePaths
  <2>1. CASE Written(t[p])
    <3>1. t[p] \in TreeValue
      BY <1>1, <2>1, WrittenValue
    <3>. QED
      BY <2>1, <3>1, MaterializeType DEF Applied
  <2>. QED
    BY <2>1 DEF Applied
<1>3. \A p \in FilePaths : RemovedOnly(p) \in DiskNode \cup {Absent}
  BY DEF RemovedOnly
<1>4. disk' \in [FilePaths -> DiskNode \cup {Absent}]
  BY <1>2, <1>3 DEF CheckOutFails
<1>. QED
  BY <1>4 DEF CheckOutFails, Reload, SparseClosure, IndexMatchesTree, persistedVars

\* reset makes the target current and gives each changed matched path
\* written by the target a placeholder entry.
LEMMA ResetIInv ==
    ASSUME IInv, NEW t \in Trees, Reset(t)
    PROVE  IInv'
<1>. USE DEF IInv, TypeOK
<1>1. t \in Tree
  OBVIOUS
<1>2. \A p \in FilePaths : Written(t[p]) =>
          [type |-> KindType(t[p].kind), mtime |-> NoMtime] \in FileState
  BY <1>1, WrittenValue, PlaceholderType
<1>3. TypeOK'
  BY <1>1, <1>2 DEF Reset, userVars, persistedVars
<1>4. IndexMatchesTree(tree', fileStates', sparse')
  <2> SUFFICES ASSUME NEW p \in FilePaths
               PROVE  fileStates'[p] # Absent <=> (Written(t[p]) /\ InSparse(sparse, p))
    BY DEF Reset, IndexMatchesTree
  <2>1. CASE p \in Changed(t)
    <3>1. InSparse(sparse, p)
      BY <2>1 DEF Changed
    <3>2. CASE Written(t[p])
      <4>1. fileStates'[p] \in FileState
        BY <1>2, <2>1, <3>2 DEF Reset
      <4>. QED
        BY <3>1, <3>2, <4>1
    <3>3. CASE ~Written(t[p])
      BY <2>1, <3>3 DEF Reset
    <3>. QED
      BY <3>2, <3>3
  <2>2. CASE p \notin Changed(t)
    BY <2>2 DEF Reset, Changed, SparseClosure, IndexMatchesTree
  <2>. QED
    BY <2>1, <2>2
<1>. QED
  BY <1>3, <1>4 DEF SparseClosure, Reset, persistedVars

\* write_tree records, for each ingested path, the node's value and its
\* stat; an ingested path is matched, and a node read back is a value the
\* engine writes.  Deleted paths leave tree and index together.
LEMMA WriteTreeIInv ==
    ASSUME IInv, WriteTree
    PROVE  IInv'
<1>. USE DEF IInv, TypeOK
<1>1. \A p \in Ingested : disk[p] \in DiskNode
  BY DEF Ingested, OnDisk
<1>2. TypeOK'
  <2>1. tree' \in Tree
    BY <1>1, NodeValueType DEF WriteTree, Tree
  <2>2. fileStates' \in [FilePaths -> FileState \cup {Absent}]
    BY <1>1, NodeValueType DEF WriteTree
  <2>3. statAt' \in [FilePaths -> Clock]
    BY DEF WriteTree
  <2>. QED
    BY <2>1, <2>2, <2>3 DEF WriteTree, userVars, persistedVars
<1>3. IndexMatchesTree(tree', fileStates', sparse')
  <2> SUFFICES ASSUME NEW p \in FilePaths
               PROVE  fileStates'[p] # Absent <=> (Written(tree'[p]) /\ InSparse(sparse, p))
    BY DEF WriteTree, IndexMatchesTree
  <2>1. CASE p \in Ingested
    <3>1. /\ Written(NodeValue(disk[p]))
          /\ Stat(disk[p]) \in FileState
      BY <1>1, <2>1, NodeValueType
    <3>2. InSparse(sparse, p)
      BY <2>1 DEF Ingested
    <3>. QED
      BY <2>1, <3>1, <3>2 DEF WriteTree
  <2>2. CASE p \notin Ingested /\ p \in Deleted
    BY <2>2 DEF WriteTree, Deleted, Written
  <2>3. CASE p \notin Ingested /\ p \notin Deleted
    BY <2>3 DEF WriteTree, SparseClosure, IndexMatchesTree
  <2>. QED
    BY <2>1, <2>2, <2>3
<1>. QED
  BY <1>2, <1>3 DEF SparseClosure, WriteTree, persistedVars

\* set_sparse_patterns gives an entry to every path of the tree that
\* enters the patterns and is written, and drops the entry of every path
\* that leaves them; the other paths keep their membership.
LEMMA SetSparsePatternsIInv ==
    ASSUME IInv, NEW new \in PatternSets, SetSparsePatterns(new)
    PROVE  IInv'
<1>. USE DEF IInv, TypeOK
<1>. DEFINE added == {p \in FilePaths : tree[p] # Absent /\ InSparse(new, p)
                                        /\ ~InSparse(sparse, p)}
            removed == {p \in FilePaths : tree[p] # Absent /\ InSparse(sparse, p)
                                          /\ ~InSparse(new, p)}
<1>1. \A p \in FilePaths : Written(tree[p]) =>
          /\ Materialize(tree[p]) \in DiskNode
          /\ Stat(Materialize(tree[p])) \in FileState
  BY WrittenValue, MaterializeType
<1>2. /\ disk' = [p \in FilePaths |->
                   IF p \in added /\ Written(tree[p]) THEN Materialize(tree[p])
                   ELSE IF p \in removed THEN Absent
                   ELSE disk[p]]
      /\ fileStates' = [p \in FilePaths |->
                         IF p \in added /\ Written(tree[p])
                           THEN Stat(Materialize(tree[p]))
                         ELSE IF p \in removed THEN Absent
                         ELSE fileStates[p]]
      /\ statAt' = [p \in FilePaths |-> IF p \in added THEN clock ELSE statAt[p]]
      /\ sparse' = new
      /\ tree' = tree
  BY DEF SetSparsePatterns
<1>3. TypeOK'
  BY <1>1, <1>2 DEF SetSparsePatterns, persistedVars
<1>4. IndexMatchesTree(tree', fileStates', sparse')
  <2> SUFFICES ASSUME NEW p \in FilePaths
               PROVE  fileStates'[p] # Absent <=> (Written(tree[p]) /\ InSparse(new, p))
    BY <1>2 DEF IndexMatchesTree
  <2>1. CASE p \in added /\ Written(tree[p])
    <3>1. fileStates'[p] \in FileState
      BY <1>1, <1>2, <2>1
    <3>2. InSparse(new, p)
      BY <2>1
    <3>. QED
      BY <2>1, <3>1, <3>2
  <2>2. CASE ~(p \in added /\ Written(tree[p])) /\ p \in removed
    BY <1>2, <2>2
  <2>3. CASE ~(p \in added /\ Written(tree[p])) /\ p \notin removed
    BY <1>2, <2>3 DEF SparseClosure, IndexMatchesTree, Written
  <2>. QED
    BY <2>1, <2>2, <2>3
<1>. QED
  BY <1>3, <1>4 DEF SparseClosure, SetSparsePatterns, persistedVars

\* Every step of the engine, the user or the clock preserves IInv.
LEMMA NextIInv == IInv /\ [Next]_vars => IInv'
<1> SUFFICES ASSUME IInv, [Next]_vars PROVE IInv'
  OBVIOUS
<1>1. CASE \/ \E p \in FilePaths, b \in Blobs : UserWrite(p, b)
           \/ \E p \in FilePaths : UserRemove(p)
           \/ \E I \in IgnoreSets : EditIgnores(I)
           \/ Tick
  BY <1>1, UserStepsIInv
<1>2. CASE StartMutation \/ Finish \/ Discard
  BY <1>2, MutationStepsIInv
<1>3. CASE \E t \in Trees : CheckOut(t)
  BY <1>3, CheckOutIInv
<1>4. CASE \E t \in Trees, k \in 1..Len(PathOrder) : CheckOutFails(t, k)
  BY <1>4, CheckOutFailsIInv
<1>5. CASE \E t \in Trees : Reset(t)
  BY <1>5, ResetIInv
<1>6. CASE WriteTree
  BY <1>6, WriteTreeIInv
<1>7. CASE \E P \in PatternSets : SetSparsePatterns(P)
  BY <1>7, SetSparsePatternsIInv
<1>8. CASE UNCHANGED vars
  BY <1>8 DEF IInv, TypeOK, SparseClosure, IndexMatchesTree, vars, userVars,
              memVars, persistedVars
<1>. QED
  BY <1>1, <1>2, <1>3, <1>4, <1>5, <1>6, <1>7, <1>8 DEF Next

-----------------------------------------------------------------------------
(* The invariants.                                                         *)

\* Every reachable state is well typed: disk nodes, tree values, index
\* entries, clocks and patterns stay in their sets whatever the engine and
\* the user do.
THEOREM TypeCorrect == Spec => []TypeOK
<1>1. Init => IInv
  BY InitIInv
<1>2. IInv /\ [Next]_vars => IInv'
  BY NextIInv
<1>3. IInv => TypeOK
  BY DEF IInv
<1>. QED
  BY <1>1, <1>2, <1>3, PTL DEF Spec

\* Sparse closure (specification 8.3) for every instance: after every
\* operation of the engine, in memory and in the tree_state file, the index
\* holds exactly the written paths of the current tree that the sparse
\* patterns admit.
THEOREM SparseClosureInvariant == Spec => []SparseClosure
<1>1. Init => IInv
  BY InitIInv
<1>2. IInv /\ [Next]_vars => IInv'
  BY NextIInv
<1>3. IInv => SparseClosure
  BY DEF IInv
<1>. QED
  BY <1>1, <1>2, <1>3, PTL DEF Spec

-----------------------------------------------------------------------------
(* Ignore rules do not untrack.                                            *)

\* A write_tree step from a state of IInv keeps every tracked file that is
\* still on disk tracked and in the tree, and takes in no ignored
\* untracked file.
LEMMA WriteTreeKeepsTracked ==
    ASSUME IInv, WriteTree, NEW p \in FilePaths
    PROVE  /\ Tracked(p) /\ OnDisk(p) => Tracked(p)' /\ tree'[p] # Absent
           /\ ~Tracked(p) /\ p \in ignored => tree'[p] = tree[p]
<1>. USE DEF IInv, TypeOK
<1>1. ASSUME Tracked(p), OnDisk(p)
      PROVE  Tracked(p)' /\ tree'[p] # Absent
  <2>1. p \notin Deleted
    BY <1>1 DEF Deleted
  <2>2. CASE p \in Ingested
    <3>1. disk[p] \in DiskNode
      BY <1>1 DEF OnDisk
    <3>2. Written(NodeValue(disk[p])) /\ Stat(disk[p]) \in FileState
      BY <3>1, NodeValueType
    <3>. QED
      BY <2>2, <3>2 DEF WriteTree, Tracked, Written
  <2>3. CASE p \notin Ingested
    <3>1. Written(tree[p])
      BY <1>1 DEF Tracked, SparseClosure, IndexMatchesTree
    <3>. QED
      BY <1>1, <2>1, <2>3, <3>1 DEF WriteTree, Tracked, Written
  <2>. QED
    BY <2>2, <2>3
<1>2. ASSUME ~Tracked(p), p \in ignored
      PROVE  tree'[p] = tree[p]
  BY <1>2 DEF WriteTree, Ingested, Deleted
<1>. QED
  BY <1>1, <1>2

\* Ignore-does-not-untrack (specification 8.5) for every instance.
THEOREM IgnoreDoesNotUntrack == Spec => SnapshotKeepsTrackedIgnoresUntracked
<1>1. IInv /\ [Next]_vars =>
        [WriteTree =>
           \A p \in FilePaths :
              /\ Tracked(p) /\ OnDisk(p) => Tracked(p)' /\ tree'[p] # Absent
              /\ ~Tracked(p) /\ p \in ignored => tree'[p] = tree[p]]_vars
  BY WriteTreeKeepsTracked
<1>2. Init => IInv
  BY InitIInv
<1>3. IInv /\ [Next]_vars => IInv'
  BY NextIInv
<1>. QED
  BY <1>1, <1>2, <1>3, PTL DEF Spec, SnapshotKeepsTrackedIgnoresUntracked

=============================================================================
