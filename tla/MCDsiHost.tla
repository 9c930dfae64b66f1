------------------------------ MODULE MCDsiHost ------------------------------
(***************************************************************************)
(* DsiHost for TLC: commands of one byte and of two, so that packets fit   *)
(* into their header, or fill one word, or two with and without a rest;    *)
(* answers shorter and longer than the buffer.                             *)
(***************************************************************************)
EXTENDS DsiHost
=============================================================================
