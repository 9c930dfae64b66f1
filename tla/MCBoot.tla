------------------------------- MODULE MCBoot --------------------------------
(***************************************************************************)
(* Boot for TLC: a boot keyboard that may refuse its protocol, a device    *)
(* that is not a boot device, a queue for one of them, and an app that     *)
(* calls gl_hidhost_init once more.                                        *)
(***************************************************************************)
EXTENDS Boot
=============================================================================
