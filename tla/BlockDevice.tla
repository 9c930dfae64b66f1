---------------------------- MODULE BlockDevice ----------------------------
(***************************************************************************)
(* What FatFs needs of the disk layer under it: one request at a time,     *)
(* RES_OK only when every sector was carried, nothing but the requested    *)
(* sectors ever written, and nothing but the caller's data written there.  *)
(* After an error, or a restart in mid-request, each requested sector is   *)
(* either as it was or as the caller wanted it: that is all a file system  *)
(* without a journal can be promised.                                      *)
(***************************************************************************)
EXTENDS Naturals

CONSTANTS
    Sectors,    \* the sector numbers of the volume
    Data,       \* what a sector can hold
    Requests    \* records with at least the fields write, first and count

VARIABLES
    disk,       \* [Sectors -> Data]
    phase,      \* "idle", "busy" or "done"
    req,        \* the request in progress, meaningless when idle
    mem,        \* the caller's buffer, one element per sector of the request
    result      \* "OK" or "ERROR", meaningful when done

vars == <<disk, phase, req, mem, result>>

Init == phase = "idle" /\ disk \in [Sectors -> Data]

Begin ==
    /\ phase = "idle" /\ phase' = "busy"
    /\ req' \in Requests
    /\ mem' \in [0 .. req'.count - 1 -> Data]
    /\ UNCHANGED disk

\* Some of the sectors of a write reach the card; some of those of a read, right
\* or wrong, reach the caller's buffer.
Store ==
    /\ req.write
    /\ disk' \in [Sectors -> Data]
    /\ \A s \in Sectors :
          \/ disk'[s] = disk[s]
          \/ \E i \in 0 .. req.count - 1 : s = req.first + i /\ disk'[s] = mem[i]
    /\ UNCHANGED mem

Fill ==
    /\ ~req.write
    /\ mem' \in [0 .. req.count - 1 -> Data]
    /\ UNCHANGED disk

Work == phase = "busy" /\ (Store \/ Fill) /\ UNCHANGED <<phase, req>>

Succeed ==
    /\ phase = "busy" /\ phase' = "done" /\ result' = "OK"
    /\ \A i \in 0 .. req.count - 1 : mem[i] = disk[req.first + i]
    /\ UNCHANGED <<disk, req, mem>>

Fail ==
    /\ phase = "busy" /\ phase' = "done" /\ result' = "ERROR"
    /\ Store \/ Fill
    /\ UNCHANGED req

Return == phase = "done" /\ phase' = "idle" /\ UNCHANGED disk

Restart == phase' = "idle" /\ UNCHANGED disk

Next == Begin \/ Work \/ Succeed \/ Fail \/ Return \/ Restart

Spec == Init /\ [][Next]_vars
=============================================================================
