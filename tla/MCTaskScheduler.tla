--------------------------- MODULE MCTaskScheduler ---------------------------
(* A small instance of TaskScheduler: two groups, and three tasks of which    *)
(* the second needs the first, whichever groups they join.                   *)
EXTENDS TaskScheduler, TLC

CONSTANTS connect, login, load

MCNeeds == connect :> {} @@ login :> {connect} @@ load :> {}

Symmetry == Permutations(Group)
=============================================================================
