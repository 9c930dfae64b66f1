--------------------------- MODULE MCHidKeyboard ---------------------------
(***************************************************************************)
(* HidKeyboard for TLC: two slots per report instead of six, enough for a  *)
(* key to move between slots and for two keys to change in one report.     *)
(***************************************************************************)
EXTENDS HidKeyboard
=============================================================================
