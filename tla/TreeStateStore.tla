--------------------------- MODULE TreeStateStore ---------------------------
(***************************************************************************)
(* What the scoped mutation of a working copy promises about its tree      *)
(* state (specification 3 and 4.6), with everything else abstracted away.  *)
(*                                                                         *)
(* There is a current state, the one operations read and change, and a    *)
(* saved state, the tree_state file.  Only a mutation, between             *)
(* start_mutation and finish or discard, changes the current state; finish *)
(* saves it, discard goes back to the saved one.  So the saved state       *)
(* changes only at a finish, and outside a mutation the two agree.         *)
(***************************************************************************)

CONSTANT States      \* the tree states an operation may leave behind

VARIABLES
    locked,          \* a mutation is in progress
    current,         \* the tree state operations see
    saved            \* the tree state on disk

vars == << locked, current, saved >>

Init ==
    /\ locked = FALSE
    /\ current \in States
    /\ saved = current

Start ==
    /\ ~locked
    /\ locked' = TRUE
    /\ UNCHANGED << current, saved >>

\* Any operation of a mutation: the current state becomes any legal state.
Mutate ==
    /\ locked
    /\ current' \in States
    /\ UNCHANGED << locked, saved >>

Finish ==
    /\ locked
    /\ saved' = current
    /\ locked' = FALSE
    /\ UNCHANGED current

Discard ==
    /\ locked
    /\ current' = saved
    /\ locked' = FALSE
    /\ UNCHANGED saved

Next == Start \/ Mutate \/ Finish \/ Discard

Spec == Init /\ [][Next]_vars

\* Outside a mutation, what operations see is what is saved.
InSync == ~locked => current = saved

=============================================================================
