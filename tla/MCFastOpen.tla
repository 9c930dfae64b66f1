----------------------------- MODULE MCFastOpen -----------------------------
(***************************************************************************)
(* FastOpen for TLC: tables of two or three slots, which fill up.  Streams *)
(* and buffers are interchangeable, and so are tasks.                      *)
(***************************************************************************)
EXTENDS FastOpen, TLC

Symmetric == Permutations(Streams) \cup Permutations(Buffers) \cup Permutations(Tasks)
=============================================================================
