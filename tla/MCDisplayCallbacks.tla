------------------------- MODULE MCDisplayCallbacks -------------------------
(***************************************************************************)
(* DisplayCallbacks for TLC.  The BSP's callback and context are in        *)
(* internal RAM, the app's are not.  No property tells the tasks apart.    *)
(***************************************************************************)
EXTENDS DisplayCallbacks, TLC

TaskSymmetry == Permutations(Tasks)
=============================================================================
