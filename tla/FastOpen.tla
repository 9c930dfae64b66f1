------------------------------ MODULE FastOpen ------------------------------
(***************************************************************************)
(* components/kbelf/src/fastopen.c: fopen and fclose with a buffer of DMA  *)
(* memory for streams of /sd and /int.  A table without a lock remembers   *)
(* which buffer to free with which stream.  Each access to the table, the  *)
(* heap or the C library is a step of its own, as other tasks may run      *)
(* between any two.                                                        *)
(***************************************************************************)
EXTENDS Naturals, FiniteSets

CONSTANTS
    Tasks,           \* tasks that open and close files
    Streams,         \* FILE objects; the C library reuses those that are closed
    Buffers,         \* blocks that heap_caps_malloc may return
    MAX_FILES_OPEN,  \* CONFIG_FATFS_MAX_FILES_OPEN, the size of the table
    NULL

ASSUME FastOpenAssumption == MAX_FILES_OPEN \in Nat \ {0} /\ NULL \notin Streams \cup Buffers

Slots == 1 .. MAX_FILES_OPEN

\* Mutant: the loops miss the last slot.
OneLess == MAX_FILES_OPEN - 1

LastSlot == MAX_FILES_OPEN

VARIABLES
    table,    \* fast_file_table
    open,     \* streams that are open
    uses,     \* the buffer setvbuf gave each stream, or NULL for one of its own
    heap,     \* buffers that are allocated
    handles,  \* streams the app has from fastopen and has not given to fastclose
    task      \* per task: its step and the locals f, buf and i

vars == <<table, open, uses, heap, handles, task>>

At(t, step) == task[t].step = step
Goto(t, step) == task' = [task EXCEPT ![t].step = step]
Idle == [step |-> "idle", f |-> NULL, buf |-> NULL, i |-> 0]
Finish(t) == task' = [task EXCEPT ![t] = Idle]
Return(t) == Finish(t) /\ handles' = handles \cup {task[t].f}

Init ==
    /\ table = [i \in Slots |-> [file |-> NULL, buffer |-> NULL]]
    /\ open = {} /\ uses = [f \in Streams |-> NULL] /\ heap = {} /\ handles = {}
    /\ task = [t \in Tasks |-> Idle]
-----------------------------------------------------------------------------
(* fastopen; an fopen that fails changes nothing *)

\* fopen succeeds, for a fast path or another.
Fopen(t, f, fast) ==
    /\ At(t, "idle") /\ f \notin open
    /\ open' = open \cup {f} /\ uses' = [uses EXCEPT ![f] = NULL]
    /\ IF fast THEN task' = [task EXCEPT ![t] = [step |-> "malloc", f |-> f, buf |-> NULL, i |-> 0]]
                    /\ UNCHANGED handles
               ELSE handles' = handles \cup {f} /\ UNCHANGED task
    /\ UNCHANGED <<table, heap>>

\* No DMA memory: the stream keeps a buffer of its own.
MallocFails(t) ==
    /\ At(t, "malloc") /\ Return(t)
    /\ UNCHANGED <<table, open, uses, heap>>

Setvbuf(t, b) ==
    /\ At(t, "malloc") /\ b \notin heap
    /\ heap' = heap \cup {b} /\ uses' = [uses EXCEPT ![task[t].f] = b]
    /\ task' = [task EXCEPT ![t] = [@ EXCEPT !.step = "search", !.buf = b, !.i = 1]]
    /\ UNCHANGED <<table, open, handles>>

\* The search for a free slot; without one the buffer is not remembered.
Search(t) ==
    /\ At(t, "search")
    /\ IF task[t].i > LastSlot THEN Return(t)
       ELSE /\ UNCHANGED handles
            /\ IF table[task[t].i].file = NULL THEN Goto(t, "claim_file")
               ELSE task' = [task EXCEPT ![t].i = @ + 1]
    /\ UNCHANGED <<table, open, uses, heap>>

ClaimFile(t) ==
    /\ At(t, "claim_file") /\ Goto(t, "claim_buffer")
    /\ table' = [table EXCEPT ![task[t].i].file = task[t].f]
    /\ UNCHANGED <<open, uses, heap, handles>>

ClaimBuffer(t) ==
    /\ At(t, "claim_buffer") /\ Return(t)
    /\ table' = [table EXCEPT ![task[t].i].buffer = task[t].buf]
    /\ UNCHANGED <<open, uses, heap>>
-----------------------------------------------------------------------------
(* fastclose *)

\* Mutants: the buffer is freed before fclose flushes it; a slot keeps its buffer.
FreeFirst == [found |-> "free", free |-> "fclose", fclose |-> "clear_file",
              clear_file |-> "clear_buffer", clear_buffer |-> "idle"]
KeepBuffer == [found |-> "fclose", fclose |-> "free", free |-> "clear_file", clear_file |-> "idle"]

\* What follows what, once the stream is found in the table.
Then == [found |-> "fclose", fclose |-> "free", free |-> "clear_file",
         clear_file |-> "clear_buffer", clear_buffer |-> "idle"]

Continue(t) ==
    IF Then[task[t].step] = "idle" THEN Finish(t) ELSE Goto(t, Then[task[t].step])

\* The app closes a stream it has, once.
Fastclose(t, f) ==
    /\ At(t, "idle") /\ f \in handles /\ handles' = handles \ {f}
    /\ task' = [task EXCEPT ![t] = [step |-> "lookup", f |-> f, buf |-> NULL, i |-> 1]]
    /\ UNCHANGED <<table, open, uses, heap>>

Lookup(t) ==
    /\ At(t, "lookup")
    /\ IF task[t].i > LastSlot THEN Goto(t, "untracked")
       ELSE IF table[task[t].i].file = task[t].f THEN Goto(t, Then["found"])
       ELSE task' = [task EXCEPT ![t].i = @ + 1]
    /\ UNCHANGED <<table, open, uses, heap, handles>>

\* fclose, which flushes the stream's buffer.
Fclose(t) ==
    /\ \/ At(t, "fclose") /\ Continue(t)
       \/ At(t, "untracked") /\ Finish(t)
    /\ open' = open \ {task[t].f}
    /\ UNCHANGED <<table, uses, heap, handles>>

Free(t) ==
    /\ At(t, "free") /\ Continue(t)
    /\ heap' = heap \ {table[task[t].i].buffer}
    /\ UNCHANGED <<table, open, uses, handles>>

ClearFile(t) ==
    /\ At(t, "clear_file") /\ Continue(t)
    /\ table' = [table EXCEPT ![task[t].i].file = NULL]
    /\ UNCHANGED <<open, uses, heap, handles>>

ClearBuffer(t) ==
    /\ At(t, "clear_buffer") /\ Continue(t)
    /\ table' = [table EXCEPT ![task[t].i].buffer = NULL]
    /\ UNCHANGED <<open, uses, heap, handles>>

Next ==
    \E t \in Tasks :
        \/ \E f \in Streams, fast \in BOOLEAN : Fopen(t, f, fast)
        \/ \E b \in Buffers : Setvbuf(t, b)
        \/ \E f \in Streams : Fastclose(t, f)
        \/ MallocFails(t) \/ Search(t) \/ ClaimFile(t) \/ ClaimBuffer(t)
        \/ Lookup(t) \/ Fclose(t) \/ Free(t) \/ ClearFile(t) \/ ClearBuffer(t)

Spec == Init /\ [][Next]_vars
-----------------------------------------------------------------------------
(* Properties *)

Steps == {"idle", "malloc", "search", "claim_file", "claim_buffer", "lookup", "untracked",
          "fclose", "free", "clear_file", "clear_buffer"}
Quiet == \A t \in Tasks : At(t, "idle")

\* Types, and between calls a free slot is entirely free.
TypeOK ==
    /\ table \in [Slots -> [file : Streams \cup {NULL}, buffer : Buffers \cup {NULL}]]
    /\ open \subseteq Streams /\ handles \subseteq Streams /\ heap \subseteq Buffers
    /\ uses \in [Streams -> Buffers \cup {NULL}]
    /\ task \in [Tasks -> [step : Steps, f : Streams \cup {NULL}, buf : Buffers \cup {NULL},
                           i : 0 .. MAX_FILES_OPEN + 1]]
    /\ Quiet => \A i \in Slots : table[i].file = NULL => table[i].buffer = NULL

\* An open stream's buffer is allocated until the stream is closed, and no two open
\* streams have the same: nothing is read or flushed through freed memory.
BuffersLive ==
    /\ \A f \in open : uses[f] # NULL => uses[f] \in heap
    /\ \A f, g \in open : f # g /\ uses[f] # NULL => uses[f] # uses[g]

\* Between calls, every allocated buffer is that of an open stream: nothing leaks.
NoLeak == Quiet => heap = {uses[f] : f \in open} \ {NULL}

\* fastopen.c: a stream that is not in the table has no buffer of the table's kind.
UntrackedHasNoBuffer ==
    Quiet => \A f \in open : (\A i \in Slots : table[i].file # f) => uses[f] = NULL
=============================================================================
