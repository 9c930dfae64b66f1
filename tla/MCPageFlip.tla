----------------------------- MODULE MCPageFlip ------------------------------
(***************************************************************************)
(* PageFlip for TLC: two frame buffers, as in the recipe.                  *)
(***************************************************************************)
EXTENDS PageFlip
=============================================================================
