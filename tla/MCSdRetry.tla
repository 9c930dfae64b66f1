----------------------------- MODULE MCSdRetry -----------------------------
(***************************************************************************)
(* SdRetry for TLC: two sector values, requests of up to three sectors     *)
(* through a bounce buffer of two, so that the last piece is short,        *)
(* outages of up to the 34 ticks that the backoff can outlast, one request *)
(* per boot and any number of restarts.                                    *)
(***************************************************************************)
EXTENDS SdRetry
=============================================================================
