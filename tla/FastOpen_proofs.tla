--------------------------- MODULE FastOpen_proofs ---------------------------
(***************************************************************************)
(* With one task, no open stream uses a buffer that has been freed, for    *)
(* any number of streams, buffers and slots, a full table included; and    *)
(* with no more streams than slots, every buffer is freed in the end.      *)
(***************************************************************************)
EXTENDS FastOpen, FiniteSetTheorems, TLAPS

Shape ==
    /\ table \in [Slots -> [file : Streams \cup {NULL}, buffer : Buffers \cup {NULL}]]
    /\ open \subseteq Streams
    /\ uses \in [Streams -> Buffers \cup {NULL}]
    /\ handles \subseteq Streams
    /\ task \in [Tasks -> [step : Steps, f : Streams \cup {NULL}, buf : Buffers \cup {NULL}, i : Nat]]

\* A slot in use is that of an open stream and has its buffer; the one slot that a
\* call is writing or clearing is excepted, and so is its stream's place in the table.
Right(j) ==
    table[j].file # NULL =>
        /\ table[j].file \in open /\ table[j].buffer # NULL
        /\ uses[table[j].file] = table[j].buffer
Excepted(t, j) == task[t].step \in {"claim_buffer", "free", "clear_file"} /\ j = task[t].i
SlotsRight(t) == \A j \in Slots : Excepted(t, j) \/ Right(j)
OneSlotEach ==
    \A j, k \in Slots : j # k /\ table[j].file # NULL => table[j].file # table[k].file
Absent(f) == \A j \in Slots : table[j].file # f

\* What the locals of a call mean at each of its steps.
Opening(t) ==
    LET T == task[t] IN
    /\ T.step = "malloc" => T.f \in open /\ uses[T.f] = NULL /\ Absent(T.f)
    /\ T.step \in {"search", "claim_file"} =>
         T.f \in open /\ T.buf # NULL /\ uses[T.f] = T.buf /\ Absent(T.f)
    /\ T.step = "search" => T.i >= 1
    /\ T.step = "claim_file" => T.i \in Slots /\ table[T.i].file = NULL
    /\ T.step = "claim_buffer" =>
         T.i \in Slots /\ table[T.i].file = T.f /\ T.f \in open /\ T.buf # NULL /\ uses[T.f] = T.buf
Closing(t) ==
    LET T == task[t] IN
    /\ T.step = "lookup" =>
         T.f \in Streams /\ T.i >= 1 /\ \A j \in Slots : j < T.i => table[j].file # T.f
    /\ T.step = "untracked" => T.f \in Streams /\ Absent(T.f)
    /\ T.step \in {"fclose", "free", "clear_file"} =>
         T.i \in Slots /\ table[T.i].file = T.f /\ T.f \in Streams
    /\ T.step = "free" =>
         T.f \notin open /\ \A g \in open : uses[g] # NULL => uses[g] # table[T.i].buffer
    /\ T.step = "clear_file" => T.f \notin open
    /\ T.step = "clear_buffer" => T.i \in Slots /\ table[T.i].file = NULL

LInv(t) == Shape /\ SlotsRight(t) /\ OneSlotEach /\ Opening(t) /\ Closing(t) /\ BuffersLive

\* The table is empty at first.
LEMMA InitLInv == ASSUME NEW t, Tasks = {t}, Init PROVE LInv(t)
<1>1. Shape
  BY DEF Init, Shape, Idle, Steps
<1>2. SlotsRight(t) /\ OneSlotEach
  BY DEF Init, SlotsRight, Right, OneSlotEach
<1>3. Opening(t) /\ Closing(t)
  BY DEF Init, Idle, Opening, Closing
<1>4. QED
  BY <1>1, <1>2, <1>3 DEF LInv, Init, BuffersLive

\* A stream that was closed is not in the table: the slots in use are of open streams.
LEMMA FopenStep ==
  ASSUME NEW t, Tasks = {t}, LInv(t), NEW f \in Streams, NEW fast \in BOOLEAN, Fopen(t, f, fast)
  PROVE  LInv(t)'
<1>1. /\ task[t].step = "idle" /\ f \notin open /\ open' = open \cup {f}
      /\ uses' = [uses EXCEPT ![f] = NULL] /\ table' = table /\ heap' = heap
  BY DEF Fopen, At
<1>2. \/ task' = task /\ handles' = handles \cup {f}
      \/ /\ task' = [task EXCEPT ![t] = [step |-> "malloc", f |-> f, buf |-> NULL, i |-> 0]]
         /\ handles' = handles
  BY DEF Fopen
<1>3. Shape'
  BY <1>1, <1>2 DEF LInv, Shape, Steps
<1>4. Absent(f) /\ f # NULL
  BY <1>1, FastOpenAssumption DEF LInv, SlotsRight, Right, Excepted, Absent
<1>5. SlotsRight(t)'
  BY <1>1, <1>4 DEF LInv, Shape, SlotsRight, Right, Excepted, Absent
<1>6. OneSlotEach'
  BY <1>1 DEF LInv, OneSlotEach
<1>7. Opening(t)' /\ Closing(t)'
  BY <1>1, <1>2, <1>4 DEF LInv, Shape, Opening, Closing, Absent
<1>8. BuffersLive'
  BY <1>1 DEF LInv, Shape, BuffersLive
<1>9. QED
  BY <1>3, <1>5, <1>6, <1>7, <1>8 DEF LInv

\* A new buffer is no other stream's.
LEMMA SetvbufStep ==
  ASSUME NEW t, Tasks = {t}, LInv(t), NEW b \in Buffers, Setvbuf(t, b)
  PROVE  LInv(t)'
<1> DEFINE f == task[t].f
<1>1. /\ task[t].step = "malloc" /\ b \notin heap /\ heap' = heap \cup {b}
      /\ uses' = [uses EXCEPT ![f] = b]
      /\ task' = [task EXCEPT ![t] = [@ EXCEPT !.step = "search", !.buf = b, !.i = 1]]
      /\ table' = table /\ open' = open /\ handles' = handles
  BY DEF Setvbuf, At
<1>2. f \in open /\ Absent(f) /\ b # NULL
  BY <1>1, FastOpenAssumption DEF LInv, Opening
<1>3. /\ task'[t].step = "search" /\ task'[t].f = f /\ task'[t].buf = b /\ task'[t].i = 1
  BY <1>1 DEF LInv, Shape
<1>4. Shape'
  BY <1>1, <1>2 DEF LInv, Shape, Steps
<1>5. SlotsRight(t)'
  BY <1>1, <1>2, <1>3 DEF LInv, Shape, SlotsRight, Right, Excepted, Absent
<1>6. OneSlotEach'
  BY <1>1 DEF LInv, OneSlotEach
<1>7. Opening(t)' /\ Closing(t)'
  BY <1>1, <1>2, <1>3 DEF LInv, Shape, Opening, Closing, Absent
<1>8. BuffersLive'
  BY <1>1, <1>2 DEF LInv, Shape, BuffersLive
<1>9. QED
  BY <1>4, <1>5, <1>6, <1>7, <1>8 DEF LInv

\* The steps that leave the table, the streams and the heap alone: they move the task on.
LEMMA MoveOn ==
  ASSUME NEW t, Tasks = {t}, LInv(t),
         table' = table, open' = open, uses' = uses, heap' = heap, Shape',
         task[t].step \notin {"claim_buffer", "free", "clear_file"},
         Opening(t)', Closing(t)'
  PROVE  LInv(t)'
<1>1. SlotsRight(t)'
  BY DEF LInv, SlotsRight, Right, Excepted
<1>2. OneSlotEach' /\ BuffersLive'
  BY DEF LInv, OneSlotEach, BuffersLive
<1>3. QED
  BY <1>1, <1>2 DEF LInv

\* Without memory the stream is handed over with no slot.
LEMMA MallocFailsStep ==
  ASSUME NEW t, Tasks = {t}, LInv(t), MallocFails(t)
  PROVE  LInv(t)'
<1>1. /\ task[t].step = "malloc" /\ task' = [task EXCEPT ![t] = Idle]
      /\ handles' = handles \cup {task[t].f}
      /\ table' = table /\ open' = open /\ uses' = uses /\ heap' = heap
  BY DEF MallocFails, At, Return, Finish
<1>2. Shape' /\ task'[t] = Idle
  BY <1>1 DEF LInv, Shape, Opening, Idle, Steps
<1>3. Opening(t)' /\ Closing(t)'
  BY <1>2 DEF Opening, Closing, Idle
<1>4. QED
  BY <1>1, <1>2, <1>3, MoveOn DEF Excepted

\* The search passes slots in use and stops at the first free one, or after the last.
LEMMA SearchStep ==
  ASSUME NEW t, Tasks = {t}, LInv(t), Search(t)
  PROVE  LInv(t)'
<1> DEFINE T == task[t]
<1>1. /\ T.step = "search" /\ table' = table /\ open' = open /\ uses' = uses /\ heap' = heap
  BY DEF Search, At
<1>2. T.f \in open /\ T.buf # NULL /\ uses[T.f] = T.buf /\ Absent(T.f) /\ T.i >= 1 /\ T.i \in Nat
  BY <1>1 DEF LInv, Shape, Opening
<1>3. CASE T.i > MAX_FILES_OPEN
  <2>1. task' = [task EXCEPT ![t] = Idle] /\ handles' = handles \cup {T.f}
    BY <1>3 DEF Search, LastSlot, Return, Finish
  <2>2. Shape' /\ task'[t] = Idle
    BY <1>1, <1>2, <2>1 DEF LInv, Shape, Idle, Steps
  <2>3. Opening(t)' /\ Closing(t)'
    BY <2>2 DEF Opening, Closing, Idle
  <2>4. QED
    BY <1>1, <2>2, <2>3, MoveOn DEF Excepted
<1>4. CASE ~ (T.i > MAX_FILES_OPEN) /\ table[T.i].file = NULL
  <2>1. task' = [task EXCEPT ![t].step = "claim_file"] /\ handles' = handles
    BY <1>4 DEF Search, LastSlot, Goto
  <2>2. T.i \in Slots
    BY <1>2, <1>4, FastOpenAssumption DEF Slots
  <2>3. Shape'
    BY <1>1, <2>1 DEF LInv, Shape, Steps
  <2>4. task'[t] = [T EXCEPT !.step = "claim_file"] /\ task'[t].step = "claim_file"
        /\ task'[t].f = T.f /\ task'[t].buf = T.buf /\ task'[t].i = T.i
    BY <2>1 DEF LInv, Shape
  <2>5. Opening(t)' /\ Closing(t)'
    BY <1>1, <1>2, <1>4, <2>2, <2>4 DEF Opening, Closing, Absent
  <2>6. QED
    BY <1>1, <2>3, <2>5, MoveOn DEF Excepted
<1>5. CASE ~ (T.i > MAX_FILES_OPEN) /\ table[T.i].file # NULL
  <2>1. task' = [task EXCEPT ![t].i = @ + 1] /\ handles' = handles
    BY <1>5 DEF Search, LastSlot
  <2>2. Shape'
    BY <1>1, <2>1 DEF LInv, Shape
  <2>3. task'[t].step = "search" /\ task'[t].f = T.f /\ task'[t].buf = T.buf /\ task'[t].i = T.i + 1
    BY <1>1, <2>1 DEF LInv, Shape
  <2>4. Opening(t)' /\ Closing(t)'
    BY <1>1, <1>2, <2>3 DEF Opening, Closing, Absent
  <2>5. QED
    BY <1>1, <2>2, <2>4, MoveOn DEF Excepted
<1>6. QED
  BY <1>3, <1>4, <1>5

\* The slot takes the stream, which no other slot has.
LEMMA ClaimFileStep ==
  ASSUME NEW t, Tasks = {t}, LInv(t), ClaimFile(t)
  PROVE  LInv(t)'
<1> DEFINE T == task[t]
<1>1. /\ T.step = "claim_file" /\ task' = [task EXCEPT ![t].step = "claim_buffer"]
      /\ table' = [table EXCEPT ![T.i].file = T.f]
      /\ open' = open /\ uses' = uses /\ heap' = heap /\ handles' = handles
  BY DEF ClaimFile, At, Goto
<1>2. /\ T.f \in open /\ T.f \in Streams /\ T.f # NULL /\ T.buf # NULL /\ uses[T.f] = T.buf
      /\ Absent(T.f) /\ T.i \in Slots
  BY <1>1, FastOpenAssumption DEF LInv, Shape, Opening
<1>3. /\ task'[t].step = "claim_buffer" /\ task'[t].f = T.f /\ task'[t].buf = T.buf
      /\ task'[t].i = T.i
  BY <1>1 DEF LInv, Shape
<1>4. /\ table'[T.i].file = T.f /\ \A j \in Slots : j # T.i => table'[j] = table[j]
  BY <1>1, <1>2 DEF LInv, Shape
<1>5. Shape'
  BY <1>1, <1>2 DEF LInv, Shape, Steps
<1>6. SlotsRight(t)'
  BY <1>1, <1>3, <1>4 DEF LInv, SlotsRight, Right, Excepted
<1>7. OneSlotEach'
  BY <1>2, <1>4 DEF LInv, OneSlotEach, Absent
<1>8. Opening(t)' /\ Closing(t)'
  BY <1>1, <1>2, <1>3, <1>4 DEF Opening, Closing
<1>9. BuffersLive'
  BY <1>1 DEF LInv, BuffersLive
<1>10. QED
  BY <1>5, <1>6, <1>7, <1>8, <1>9 DEF LInv

\* The slot takes the stream's buffer and is right from then on.
LEMMA ClaimBufferStep ==
  ASSUME NEW t, Tasks = {t}, LInv(t), ClaimBuffer(t)
  PROVE  LInv(t)'
<1> DEFINE T == task[t]
<1>1. /\ T.step = "claim_buffer" /\ task' = [task EXCEPT ![t] = Idle]
      /\ handles' = handles \cup {T.f}
      /\ table' = [table EXCEPT ![T.i].buffer = T.buf]
      /\ open' = open /\ uses' = uses /\ heap' = heap
  BY DEF ClaimBuffer, At, Return, Finish
<1>2. /\ T.f \in open /\ T.f \in Streams /\ T.buf # NULL /\ uses[T.f] = T.buf
      /\ T.i \in Slots /\ table[T.i].file = T.f
  BY <1>1 DEF LInv, Shape, Opening
<1>3. /\ table'[T.i].file = T.f /\ table'[T.i].buffer = T.buf
      /\ \A j \in Slots : j # T.i => table'[j] = table[j]
  BY <1>1, <1>2 DEF LInv, Shape
<1>4. Shape' /\ task'[t] = Idle
  BY <1>1, <1>2 DEF LInv, Shape, Idle, Steps
<1>5. SlotsRight(t)'
  BY <1>1, <1>2, <1>3 DEF LInv, SlotsRight, Right, Excepted
<1>6. OneSlotEach'
  BY <1>2, <1>3 DEF LInv, OneSlotEach
<1>7. Opening(t)' /\ Closing(t)'
  BY <1>4 DEF Opening, Closing, Idle
<1>8. BuffersLive'
  BY <1>1 DEF LInv, BuffersLive
<1>9. QED
  BY <1>4, <1>5, <1>6, <1>7, <1>8 DEF LInv

\* The app hands a stream back.
LEMMA FastcloseStep ==
  ASSUME NEW t, Tasks = {t}, LInv(t), NEW f \in Streams, Fastclose(t, f)
  PROVE  LInv(t)'
<1>1. /\ task[t].step = "idle" /\ handles' = handles \ {f}
      /\ task' = [task EXCEPT ![t] = [step |-> "lookup", f |-> f, buf |-> NULL, i |-> 1]]
      /\ table' = table /\ open' = open /\ uses' = uses /\ heap' = heap
  BY DEF Fastclose, At
<1>2. Shape' /\ task'[t] = [step |-> "lookup", f |-> f, buf |-> NULL, i |-> 1]
  BY <1>1 DEF LInv, Shape, Steps
<1>3. Opening(t)' /\ Closing(t)'
  BY <1>2 DEF Opening, Closing, Slots
<1>4. QED
  BY <1>1, <1>2, <1>3, MoveOn DEF Excepted

\* The look-up stops at the stream's slot, or finds that it has none.
LEMMA LookupStep ==
  ASSUME NEW t, Tasks = {t}, LInv(t), Lookup(t)
  PROVE  LInv(t)'
<1> DEFINE T == task[t]
<1>1. /\ T.step = "lookup" /\ table' = table /\ open' = open /\ uses' = uses /\ heap' = heap
      /\ handles' = handles
  BY DEF Lookup, At
<1>2. /\ T.f \in Streams /\ T.i >= 1 /\ T.i \in Nat
      /\ \A j \in Slots : j < T.i => table[j].file # T.f
  BY <1>1 DEF LInv, Shape, Closing
<1>3. CASE T.i > MAX_FILES_OPEN
  <2>1. task' = [task EXCEPT ![t].step = "untracked"]
    BY <1>3 DEF Lookup, LastSlot, Goto
  <2>2. Shape' /\ task'[t].step = "untracked" /\ task'[t].f = T.f
    BY <1>1, <2>1 DEF LInv, Shape, Steps
  <2>3. Absent(T.f)
    BY <1>2, <1>3, FastOpenAssumption DEF Absent, Slots
  <2>4. Opening(t)' /\ Closing(t)'
    BY <1>1, <1>2, <2>2, <2>3 DEF Opening, Closing, Absent
  <2>5. QED
    BY <1>1, <2>2, <2>4, MoveOn DEF Excepted
<1>4. CASE ~ (T.i > MAX_FILES_OPEN) /\ table[T.i].file = T.f
  <2>1. task' = [task EXCEPT ![t].step = "fclose"]
    BY <1>4 DEF Lookup, LastSlot, Goto, Then
  <2>2. Shape' /\ task'[t].step = "fclose" /\ task'[t].f = T.f /\ task'[t].i = T.i
    BY <1>1, <2>1 DEF LInv, Shape, Steps
  <2>3. T.i \in Slots
    BY <1>2, <1>4, FastOpenAssumption DEF Slots
  <2>4. Opening(t)' /\ Closing(t)'
    BY <1>1, <1>2, <1>4, <2>2, <2>3 DEF Opening, Closing
  <2>5. QED
    BY <1>1, <2>2, <2>4, MoveOn DEF Excepted
<1>5. CASE ~ (T.i > MAX_FILES_OPEN) /\ table[T.i].file # T.f
  <2>1. task' = [task EXCEPT ![t].i = @ + 1]
    BY <1>5 DEF Lookup, LastSlot
  <2>2. Shape' /\ task'[t].step = "lookup" /\ task'[t].f = T.f /\ task'[t].i = T.i + 1
    BY <1>1, <2>1 DEF LInv, Shape
  <2>3. \A j \in Slots : j < T.i + 1 => table[j].file # T.f
    BY <1>2, <1>5 DEF Slots
  <2>4. Opening(t)' /\ Closing(t)'
    BY <1>1, <1>2, <2>2, <2>3 DEF Opening, Closing
  <2>5. QED
    BY <1>1, <2>2, <2>4, MoveOn DEF Excepted
<1>6. QED
  BY <1>3, <1>4, <1>5

\* A stream that closes takes no slot of another with it, and its own slot's buffer is then
\* no open stream's.
LEMMA FcloseStep ==
  ASSUME NEW t, Tasks = {t}, LInv(t), Fclose(t)
  PROVE  LInv(t)'
<1> DEFINE T == task[t]
<1>1. /\ T.step \in {"fclose", "untracked"} /\ open' = open \ {T.f}
      /\ table' = table /\ uses' = uses /\ heap' = heap /\ handles' = handles
  BY DEF Fclose, At
<1>2. BuffersLive' /\ OneSlotEach'
  BY <1>1 DEF LInv, BuffersLive, OneSlotEach
<1>3. CASE T.step = "fclose"
  <2>1. task' = [task EXCEPT ![t].step = "free"]
    BY <1>3 DEF Fclose, At, Continue, Then, Goto
  <2>2. /\ Shape' /\ task'[t].step = "free" /\ task'[t].f = T.f /\ task'[t].i = T.i
    BY <1>1, <2>1 DEF LInv, Shape, Steps
  <2>3. T.i \in Slots /\ table[T.i].file = T.f /\ T.f \in Streams /\ T.f # NULL
    BY <1>3, FastOpenAssumption DEF LInv, Closing
  <2>4. T.f \in open /\ table[T.i].buffer # NULL /\ uses[T.f] = table[T.i].buffer
    BY <1>3, <2>3 DEF LInv, SlotsRight, Right, Excepted
  <2>5. \A g \in open' : uses[g] # NULL => uses[g] # table[T.i].buffer
    BY <1>1, <2>4 DEF LInv, BuffersLive
  <2>6. SlotsRight(t)'
    BY <1>1, <1>3, <2>2, <2>3 DEF LInv, SlotsRight, Right, Excepted, OneSlotEach
  <2>7. Opening(t)' /\ Closing(t)'
    BY <1>1, <2>2, <2>3, <2>5 DEF Opening, Closing
  <2>8. QED
    BY <1>2, <2>2, <2>6, <2>7 DEF LInv
<1>4. CASE T.step = "untracked"
  <2>1. task' = [task EXCEPT ![t] = Idle]
    BY <1>4 DEF Fclose, At, Finish
  <2>2. Shape' /\ task'[t] = Idle
    BY <1>1, <2>1 DEF LInv, Shape, Idle, Steps
  <2>3. Absent(T.f)
    BY <1>4 DEF LInv, Closing
  <2>4. SlotsRight(t)'
    BY <1>1, <1>4, <2>2, <2>3 DEF LInv, SlotsRight, Right, Excepted, Absent
  <2>5. Opening(t)' /\ Closing(t)'
    BY <2>2 DEF Opening, Closing, Idle
  <2>6. QED
    BY <1>2, <2>2, <2>4, <2>5 DEF LInv
<1>5. QED
  BY <1>1, <1>3, <1>4

\* What is freed is in no open stream's use.
LEMMA FreeStep ==
  ASSUME NEW t, Tasks = {t}, LInv(t), Free(t)
  PROVE  LInv(t)'
<1> DEFINE T == task[t]
<1>1. /\ T.step = "free" /\ task' = [task EXCEPT ![t].step = "clear_file"]
      /\ heap' = heap \ {table[T.i].buffer}
      /\ table' = table /\ open' = open /\ uses' = uses /\ handles' = handles
  BY DEF Free, At, Continue, Then, Goto
<1>2. /\ T.i \in Slots /\ table[T.i].file = T.f /\ T.f \in Streams /\ T.f \notin open
      /\ \A g \in open : uses[g] # NULL => uses[g] # table[T.i].buffer
  BY <1>1 DEF LInv, Closing
<1>3. Shape' /\ task'[t].step = "clear_file" /\ task'[t].f = T.f /\ task'[t].i = T.i
  BY <1>1 DEF LInv, Shape, Steps
<1>4. SlotsRight(t)'
  BY <1>1, <1>3 DEF LInv, SlotsRight, Right, Excepted
<1>5. OneSlotEach'
  BY <1>1 DEF LInv, OneSlotEach
<1>6. Opening(t)' /\ Closing(t)'
  BY <1>1, <1>2, <1>3 DEF Opening, Closing
<1>7. BuffersLive'
  BY <1>1, <1>2 DEF LInv, BuffersLive
<1>8. QED
  BY <1>3, <1>4, <1>5, <1>6, <1>7 DEF LInv

\* The slot gives the stream up.
LEMMA ClearFileStep ==
  ASSUME NEW t, Tasks = {t}, LInv(t), ClearFile(t)
  PROVE  LInv(t)'
<1> DEFINE T == task[t]
<1>1. /\ T.step = "clear_file" /\ task' = [task EXCEPT ![t].step = "clear_buffer"]
      /\ table' = [table EXCEPT ![T.i].file = NULL]
      /\ open' = open /\ uses' = uses /\ heap' = heap /\ handles' = handles
  BY DEF ClearFile, At, Continue, Then, Goto
<1>2. T.i \in Slots
  BY <1>1 DEF LInv, Closing
<1>3. /\ table'[T.i].file = NULL /\ \A j \in Slots : j # T.i => table'[j] = table[j]
  BY <1>1, <1>2 DEF LInv, Shape
<1>4. Shape' /\ task'[t].step = "clear_buffer" /\ task'[t].i = T.i
  BY <1>1, <1>2 DEF LInv, Shape, Steps
<1>5. SlotsRight(t)'
  BY <1>1, <1>3, <1>4 DEF LInv, SlotsRight, Right, Excepted
<1>6. OneSlotEach'
  BY <1>3 DEF LInv, OneSlotEach
<1>7. Opening(t)' /\ Closing(t)'
  BY <1>2, <1>3, <1>4 DEF Opening, Closing
<1>8. BuffersLive'
  BY <1>1 DEF LInv, BuffersLive
<1>9. QED
  BY <1>4, <1>5, <1>6, <1>7, <1>8 DEF LInv

\* A slot without a stream may lose its buffer.
LEMMA ClearBufferStep ==
  ASSUME NEW t, Tasks = {t}, LInv(t), ClearBuffer(t)
  PROVE  LInv(t)'
<1> DEFINE T == task[t]
<1>1. /\ T.step = "clear_buffer" /\ task' = [task EXCEPT ![t] = Idle]
      /\ table' = [table EXCEPT ![T.i].buffer = NULL]
      /\ open' = open /\ uses' = uses /\ heap' = heap /\ handles' = handles
  BY DEF ClearBuffer, At, Continue, Then, Finish
<1>2. T.i \in Slots /\ table[T.i].file = NULL
  BY <1>1 DEF LInv, Closing
<1>3. /\ table'[T.i].file = NULL /\ \A j \in Slots : j # T.i => table'[j] = table[j]
  BY <1>1, <1>2 DEF LInv, Shape
<1>4. Shape' /\ task'[t] = Idle
  BY <1>1, <1>2 DEF LInv, Shape, Idle, Steps
<1>5. SlotsRight(t)'
  BY <1>1, <1>3, <1>4 DEF LInv, SlotsRight, Right, Excepted
<1>6. OneSlotEach'
  BY <1>2, <1>3 DEF LInv, OneSlotEach
<1>7. Opening(t)' /\ Closing(t)'
  BY <1>4 DEF Opening, Closing, Idle
<1>8. BuffersLive'
  BY <1>1 DEF LInv, BuffersLive
<1>9. QED
  BY <1>4, <1>5, <1>6, <1>7, <1>8 DEF LInv

\* Every step of the one task keeps the invariant, and so does a step that changes nothing.
LEMMA NextLInv ==
  ASSUME NEW t, Tasks = {t}, LInv(t), [Next]_vars
  PROVE  LInv(t)'
<1>1. CASE \E f \in Streams, fast \in BOOLEAN : Fopen(t, f, fast)
  BY <1>1, FopenStep
<1>2. CASE \E b \in Buffers : Setvbuf(t, b)
  BY <1>2, SetvbufStep
<1>3. CASE \E f \in Streams : Fastclose(t, f)
  BY <1>3, FastcloseStep
<1>4. CASE MallocFails(t)
  BY <1>4, MallocFailsStep
<1>5. CASE Search(t)
  BY <1>5, SearchStep
<1>6. CASE ClaimFile(t)
  BY <1>6, ClaimFileStep
<1>7. CASE ClaimBuffer(t)
  BY <1>7, ClaimBufferStep
<1>8. CASE Lookup(t)
  BY <1>8, LookupStep
<1>9. CASE Fclose(t)
  BY <1>9, FcloseStep
<1>10. CASE Free(t)
  BY <1>10, FreeStep
<1>11. CASE ClearFile(t)
  BY <1>11, ClearFileStep
<1>12. CASE ClearBuffer(t)
  BY <1>12, ClearBufferStep
<1>13. CASE UNCHANGED vars
  BY <1>13 DEF vars, LInv, Shape, SlotsRight, Right, Excepted, OneSlotEach, Absent, Opening,
               Closing, BuffersLive
<1>14. QED
  BY <1>1, <1>2, <1>3, <1>4, <1>5, <1>6, <1>7, <1>8, <1>9, <1>10, <1>11, <1>12, <1>13 DEF Next

\* fastopen and fastclose used by one task: a buffer is freed only after the stream that
\* uses it is closed, and no two open streams share one.
THEOREM SequentialBuffersLive == ASSUME NEW t, Tasks = {t} PROVE Spec => []BuffersLive
<1>1. Init => LInv(t)
  BY InitLInv
<1>2. LInv(t) /\ [Next]_vars => LInv(t)'
  BY NextLInv
<1>3. LInv(t) => BuffersLive
  BY DEF LInv
<1>4. QED
  BY <1>1, <1>2, <1>3, PTL DEF Spec
-----------------------------------------------------------------------------
(* The table between calls *)

\* The index stays next to the table, a free slot has no buffer but while it is being
\* cleared, and a search has passed only slots in use.
Blank(t) ==
    \A j \in Slots : table[j].file = NULL =>
        table[j].buffer = NULL \/ (task[t].step = "clear_buffer" /\ j = task[t].i)
Passed(t) == task[t].step = "search" => \A j \in Slots : j < task[t].i => table[j].file # NULL
BInv(t) == task[t].i <= MAX_FILES_OPEN + 1 /\ Blank(t) /\ Passed(t)

\* At first the table is blank.
LEMMA InitBInv == ASSUME NEW t, Tasks = {t}, Init PROVE BInv(t)
  BY FastOpenAssumption DEF Init, BInv, Blank, Passed, Idle

\* The steps that write a slot.
Writes(t) == ClaimFile(t) \/ ClaimBuffer(t) \/ ClearFile(t) \/ ClearBuffer(t)

\* The steps that leave the table alone.
LEMMA TableKept ==
  ASSUME NEW t, Tasks = {t}, LInv(t), BInv(t), Next, ~Writes(t), table' = table
  PROVE  BInv(t)'
<1> DEFINE T == task[t]
<1>1. T.i \in Nat /\ MAX_FILES_OPEN \in Nat \ {0}
  BY FastOpenAssumption DEF LInv, Shape
<1>2. ASSUME NEW f \in Streams, NEW fast \in BOOLEAN, Fopen(t, f, fast) PROVE BInv(t)'
  BY <1>1, <1>2 DEF Fopen, At, LInv, Shape, BInv, Blank, Passed
<1>3. CASE MallocFails(t)
  BY <1>1, <1>3 DEF MallocFails, At, Return, Finish, Idle, LInv, Shape, BInv, Blank, Passed
<1>4. ASSUME NEW b \in Buffers, Setvbuf(t, b) PROVE BInv(t)'
  BY <1>1, <1>4 DEF Setvbuf, At, LInv, Shape, BInv, Blank, Passed, Slots
<1>5. CASE Search(t)
  <2>1. CASE T.i > MAX_FILES_OPEN
    BY <1>1, <1>5, <2>1 DEF Search, At, LastSlot, Return, Finish, Idle, LInv, Shape, BInv, Blank, Passed
  <2>2. CASE ~ (T.i > MAX_FILES_OPEN) /\ table[T.i].file = NULL
    BY <1>1, <1>5, <2>2 DEF Search, At, LastSlot, Goto, LInv, Shape, BInv, Blank, Passed
  <2>3. CASE ~ (T.i > MAX_FILES_OPEN) /\ table[T.i].file # NULL
    <3>1. task' = [task EXCEPT ![t].i = @ + 1] /\ T.step = "search"
      BY <1>5, <2>3 DEF Search, At, LastSlot
    <3>2. task'[t].step = "search" /\ task'[t].i = T.i + 1
      BY <3>1 DEF LInv, Shape
    <3>3. QED
      BY <1>1, <2>3, <3>1, <3>2 DEF BInv, Blank, Passed, Slots
  <2>4. QED
    BY <2>1, <2>2, <2>3
<1>6. ASSUME NEW f \in Streams, Fastclose(t, f) PROVE BInv(t)'
  BY <1>1, <1>6 DEF Fastclose, At, LInv, Shape, BInv, Blank, Passed
<1>7. CASE Lookup(t)
  <2>1. CASE T.i > MAX_FILES_OPEN
    BY <1>1, <1>7, <2>1 DEF Lookup, At, LastSlot, Goto, LInv, Shape, BInv, Blank, Passed
  <2>2. CASE ~ (T.i > MAX_FILES_OPEN) /\ table[T.i].file = T.f
    BY <1>1, <1>7, <2>2 DEF Lookup, At, LastSlot, Goto, Then, LInv, Shape, BInv, Blank, Passed
  <2>3. CASE ~ (T.i > MAX_FILES_OPEN) /\ table[T.i].file # T.f
    <3>1. task' = [task EXCEPT ![t].i = @ + 1] /\ T.step = "lookup"
      BY <1>7, <2>3 DEF Lookup, At, LastSlot
    <3>2. task'[t].step = "lookup" /\ task'[t].i = T.i + 1
      BY <3>1 DEF LInv, Shape
    <3>3. QED
      BY <1>1, <2>3, <3>1, <3>2 DEF BInv, Blank, Passed
  <2>4. QED
    BY <2>1, <2>2, <2>3
<1>8. CASE Fclose(t)
  <2>1. CASE T.step = "fclose"
    BY <1>1, <1>8, <2>1 DEF Fclose, At, Continue, Then, Goto, LInv, Shape, BInv, Blank, Passed
  <2>2. CASE T.step = "untracked"
    BY <1>1, <1>8, <2>2 DEF Fclose, At, Finish, Idle, LInv, Shape, BInv, Blank, Passed
  <2>3. QED
    BY <1>8, <2>1, <2>2 DEF Fclose, At
<1>9. CASE Free(t)
  BY <1>1, <1>9 DEF Free, At, Continue, Then, Goto, LInv, Shape, BInv, Blank, Passed
<1>10. QED
  BY <1>2, <1>3, <1>4, <1>5, <1>6, <1>7, <1>8, <1>9 DEF Next, Writes

\* The four steps that write a slot: its buffer comes after its stream and goes after it.
LEMMA TableWritten ==
  ASSUME NEW t, Tasks = {t}, LInv(t), BInv(t), Writes(t)
  PROVE  BInv(t)'
<1> DEFINE T == task[t]
<1>1. T.i \in Nat /\ MAX_FILES_OPEN \in Nat \ {0}
  BY FastOpenAssumption DEF LInv, Shape
<1>2. CASE ClaimFile(t)
  <2>1. /\ T.step = "claim_file" /\ T.i \in Slots /\ T.f \in Streams /\ T.f # NULL
        /\ task' = [task EXCEPT ![t].step = "claim_buffer"]
        /\ table' = [table EXCEPT ![T.i].file = T.f]
    BY <1>2, FastOpenAssumption DEF ClaimFile, At, Goto, LInv, Shape, Opening
  <2>2. /\ task'[t].step = "claim_buffer" /\ task'[t].i = T.i /\ table'[T.i].file = T.f
        /\ \A j \in Slots : j # T.i => table'[j] = table[j]
    BY <2>1 DEF LInv, Shape
  <2>3. QED
    BY <1>1, <2>1, <2>2 DEF BInv, Blank, Passed
<1>3. CASE ClaimBuffer(t)
  <2>1. /\ T.step = "claim_buffer" /\ T.i \in Slots /\ table[T.i].file = T.f /\ T.f \in Streams /\ T.f # NULL
        /\ task' = [task EXCEPT ![t] = Idle]
        /\ table' = [table EXCEPT ![T.i].buffer = T.buf]
    BY <1>3, FastOpenAssumption DEF ClaimBuffer, At, Return, Finish, LInv, Shape, Opening
  <2>2. /\ task'[t] = Idle /\ table'[T.i].file = T.f
        /\ \A j \in Slots : j # T.i => table'[j] = table[j]
    BY <2>1 DEF LInv, Shape
  <2>3. QED
    BY <1>1, <2>1, <2>2 DEF BInv, Blank, Passed, Idle
<1>4. CASE ClearFile(t)
  <2>1. /\ T.step = "clear_file" /\ T.i \in Slots
        /\ task' = [task EXCEPT ![t].step = "clear_buffer"]
        /\ table' = [table EXCEPT ![T.i].file = NULL]
    BY <1>4 DEF ClearFile, At, Continue, Then, Goto, LInv, Closing
  <2>2. /\ task'[t].step = "clear_buffer" /\ task'[t].i = T.i
        /\ \A j \in Slots : j # T.i => table'[j] = table[j]
    BY <2>1 DEF LInv, Shape
  <2>3. QED
    BY <1>1, <2>1, <2>2 DEF BInv, Blank, Passed
<1>5. CASE ClearBuffer(t)
  <2>1. /\ T.step = "clear_buffer" /\ T.i \in Slots /\ task' = [task EXCEPT ![t] = Idle]
        /\ table' = [table EXCEPT ![T.i].buffer = NULL]
    BY <1>5 DEF ClearBuffer, At, Continue, Then, Finish, LInv, Closing
  <2>2. /\ task'[t] = Idle /\ table'[T.i].buffer = NULL
        /\ \A j \in Slots : j # T.i => table'[j] = table[j]
    BY <2>1 DEF LInv, Shape
  <2>3. QED
    BY <1>1, <2>1, <2>2 DEF BInv, Blank, Passed, Idle
<1>6. QED
  BY <1>2, <1>3, <1>4, <1>5 DEF Writes

\* Both invariants hold throughout, and what is allocated are buffers.
LEMMA AlwaysTable ==
  ASSUME NEW t, Tasks = {t}
  PROVE  Spec => [](LInv(t) /\ BInv(t) /\ heap \subseteq Buffers)
<1>1. ASSUME LInv(t), BInv(t), [Next]_vars PROVE BInv(t)'
  <2>1. CASE UNCHANGED vars
    BY <1>1, <2>1 DEF vars, BInv, Blank, Passed
  <2>2. CASE Next /\ Writes(t)
    BY <1>1, <2>2, TableWritten
  <2>3. CASE Next /\ ~Writes(t)
    <3>1. table' = table
      BY <1>1, <2>3 DEF Next, Writes, Fopen, MallocFails, Setvbuf, Search, Fastclose, Lookup, Fclose, Free
    <3>2. QED
      BY <1>1, <2>3, <3>1, TableKept
  <2>4. QED
    BY <1>1, <2>1, <2>2, <2>3
<1>2. Init => LInv(t) /\ BInv(t) /\ heap \subseteq Buffers
  BY InitLInv, InitBInv DEF Init
<1>3. ASSUME heap \subseteq Buffers, [Next]_vars PROVE (heap \subseteq Buffers)'
  BY <1>3 DEF Next, vars, Fopen, MallocFails, Setvbuf, Search, ClaimFile, ClaimBuffer, Fastclose,
              Lookup, Fclose, Free, ClearFile, ClearBuffer
<1>4. LInv(t) /\ BInv(t) /\ heap \subseteq Buffers /\ [Next]_vars
        => (LInv(t) /\ BInv(t) /\ heap \subseteq Buffers)'
  BY <1>1, <1>3, NextLInv
<1>5. QED
  BY <1>2, <1>4, PTL DEF Spec

\* Used by one task, the table, the heap and the locals have their types, the index never
\* leaves the table by more than one, and between calls a free slot is entirely free.
THEOREM FastOpenStateIsTyped == ASSUME NEW t, Tasks = {t} PROVE Spec => []TypeOK
<1>1. ASSUME LInv(t), BInv(t), heap \subseteq Buffers PROVE TypeOK
  <2>1. Shape /\ MAX_FILES_OPEN \in Nat /\ task[t].i <= MAX_FILES_OPEN + 1
    BY <1>1, FastOpenAssumption DEF LInv, BInv
  <2>2. task \in [Tasks -> [step : Steps, f : Streams \cup {NULL}, buf : Buffers \cup {NULL},
                          i : 0 .. MAX_FILES_OPEN + 1]]
    BY <2>1 DEF Shape
  <2>3. Quiet => \A j \in Slots : table[j].file = NULL => table[j].buffer = NULL
    BY <1>1 DEF Quiet, At, BInv, Blank
  <2>4. QED
    BY <1>1, <2>1, <2>2, <2>3 DEF TypeOK, Shape
<1>2. QED
  BY <1>1, AlwaysTable, PTL
-----------------------------------------------------------------------------
(* Nothing leaks while the table is large enough *)

\* There are no more streams than slots.
Roomy == IsFiniteSet(Streams) /\ Cardinality(Streams) <= MAX_FILES_OPEN

\* An open stream with a buffer has its slot, or a call is looking for one; and what is
\* allocated is what open streams use, and the buffer a call is about to free.
Tracked(t) ==
    \A f \in open :
        \/ uses[f] = NULL \/ ~Absent(f)
        \/ task[t].step \in {"search", "claim_file"} /\ task[t].f = f
InUse == {b \in Buffers : \E f \in open : uses[f] = b}
Freeing(t) == IF task[t].step = "free" THEN {table[task[t].i].buffer} ELSE {}
HInv(t) == Tracked(t) /\ heap = InUse \cup Freeing(t)

\* Slots in use hold different open streams, none of them the one that needs a slot: with
\* no more streams than slots, one slot is free.
LEMMA NeverFull ==
  ASSUME NEW t, Tasks = {t}, LInv(t), BInv(t), Roomy, task[t].step = "search"
  PROVE  ~ (task[t].i > MAX_FILES_OPEN)
<1> DEFINE T == task[t]
           g == [j \in Slots |-> table[j].file]
<1>1. SUFFICES ASSUME T.i > MAX_FILES_OPEN PROVE FALSE
  OBVIOUS
<1>2. T.i \in Nat /\ MAX_FILES_OPEN \in Nat /\ T.f \in Streams /\ Absent(T.f)
  BY FastOpenAssumption DEF LInv, Shape, Opening
<1>3. \A j \in Slots : table[j].file # NULL
  BY <1>1, <1>2 DEF BInv, Passed, Slots
<1>4. g \in [Slots -> Streams \ {T.f}]
  BY <1>2, <1>3 DEF LInv, Shape, Absent
<1>5. \A j, k \in Slots : j # k => g[j] # g[k]
  BY <1>3 DEF LInv, OneSlotEach
<1>6. IsFiniteSet(Slots) /\ Cardinality(Slots) = MAX_FILES_OPEN
  BY <1>2, FS_Interval DEF Slots
<1>7. /\ IsFiniteSet(Streams \ {T.f})
      /\ Cardinality(Streams \ {T.f}) = Cardinality(Streams) - 1
      /\ Cardinality(Streams) \in Nat
  BY <1>2, FS_RemoveElement, FS_CardinalityType DEF Roomy
<1>8. Cardinality(Streams \ {T.f}) < Cardinality(Slots)
  BY <1>2, <1>6, <1>7 DEF Roomy
<1> HIDE DEF g
<1>9. \E j, k \in Slots : j # k /\ g[j] = g[k]
  BY <1>4, <1>6, <1>7, <1>8, FS_PigeonHole
<1>10. QED
  BY <1>5, <1>9

\* The steps of fastopen.
LEMMA OpeningHStep ==
  ASSUME NEW t, Tasks = {t}, LInv(t), BInv(t), HInv(t), Roomy,
         \/ \E f \in Streams, fast \in BOOLEAN : Fopen(t, f, fast)
         \/ \E b \in Buffers : Setvbuf(t, b)
         \/ MallocFails(t) \/ Search(t) \/ ClaimFile(t) \/ ClaimBuffer(t)
  PROVE  HInv(t)'
<1> DEFINE T == task[t]
<1>1. ASSUME NEW f \in Streams, NEW fast \in BOOLEAN, Fopen(t, f, fast) PROVE HInv(t)'
  <2>1. /\ T.step = "idle" /\ f \notin open /\ open' = open \cup {f} /\ table' = table /\ heap' = heap
        /\ uses' = [uses EXCEPT ![f] = NULL] /\ task'[t].step # "free"
    BY <1>1 DEF Fopen, At, LInv, Shape
  <2>2. uses'[f] = NULL /\ \A g \in open : uses'[g] = uses[g]
    BY <2>1 DEF LInv, Shape
  <2>3. Tracked(t)'
    BY <2>1, <2>2 DEF HInv, Tracked, Absent
  <2>4. InUse' = InUse
    BY <2>1, <2>2, FastOpenAssumption DEF InUse
  <2>5. QED
    BY <2>1, <2>3, <2>4 DEF HInv, Freeing
<1>2. ASSUME NEW b \in Buffers, Setvbuf(t, b) PROVE HInv(t)'
  <2>1. /\ T.step = "malloc" /\ open' = open /\ table' = table /\ heap' = heap \cup {b}
        /\ uses' = [uses EXCEPT ![T.f] = b] /\ T.f \in open /\ uses[T.f] = NULL
        /\ task'[t].step = "search" /\ task'[t].f = T.f
    BY <1>2 DEF Setvbuf, At, LInv, Shape, Opening
  <2>2. uses'[T.f] = b /\ \A g \in open : g # T.f => uses'[g] = uses[g]
    BY <2>1 DEF LInv, Shape
  <2>3. Tracked(t)'
    BY <2>1, <2>2 DEF HInv, Tracked, Absent
  <2>4. InUse' = InUse \cup {b}
    BY <2>1, <2>2, FastOpenAssumption DEF InUse
  <2>5. QED
    BY <2>1, <2>3, <2>4 DEF HInv, Freeing
<1>3. CASE MallocFails(t)
  <2>1. /\ T.step = "malloc" /\ UNCHANGED <<table, open, uses, heap>> /\ task'[t] = Idle
    BY <1>3 DEF MallocFails, At, Return, Finish, LInv, Shape
  <2>2. QED
    BY <2>1 DEF HInv, Tracked, Absent, InUse, Freeing, Idle
<1>4. CASE Search(t)
  <2>1. T.step = "search" /\ UNCHANGED <<table, open, uses, heap>>
    BY <1>4 DEF Search, At
  <2>2. ~ (T.i > MAX_FILES_OPEN)
    BY <2>1, NeverFull
  <2>3. task'[t].step \in {"search", "claim_file"} /\ task'[t].f = T.f
    BY <1>4, <2>1, <2>2 DEF Search, LastSlot, Goto, LInv, Shape
  <2>4. QED
    BY <2>1, <2>3 DEF HInv, Tracked, Absent, InUse, Freeing
<1>5. CASE ClaimFile(t)
  <2>1. /\ T.step = "claim_file" /\ UNCHANGED <<open, uses, heap>>
        /\ T.i \in Slots /\ table[T.i].file = NULL /\ NULL \notin open
        /\ task'[t].step = "claim_buffer" /\ table'[T.i].file = T.f
        /\ \A j \in Slots : j # T.i => table'[j] = table[j]
    BY <1>5, FastOpenAssumption DEF ClaimFile, At, Goto, LInv, Shape, Opening
  <2>2. Tracked(t)'
    BY <2>1 DEF HInv, Tracked, Absent
  <2>3. QED
    BY <2>1, <2>2 DEF HInv, InUse, Freeing
<1>6. CASE ClaimBuffer(t)
  <2>1. /\ T.step = "claim_buffer" /\ UNCHANGED <<open, uses, heap>> /\ task'[t] = Idle
        /\ \A j \in Slots : table'[j].file = table[j].file
    BY <1>6 DEF ClaimBuffer, At, Return, Finish, LInv, Shape, Opening
  <2>2. Tracked(t)'
    BY <2>1 DEF HInv, Tracked, Absent
  <2>3. QED
    BY <2>1, <2>2 DEF HInv, InUse, Freeing, Idle
<1>7. QED
  BY <1>1, <1>2, <1>3, <1>4, <1>5, <1>6

\* The steps of fastclose.
LEMMA ClosingHStep ==
  ASSUME NEW t, Tasks = {t}, LInv(t), BInv(t), HInv(t),
         \/ \E f \in Streams : Fastclose(t, f)
         \/ Lookup(t) \/ Fclose(t) \/ Free(t) \/ ClearFile(t) \/ ClearBuffer(t)
  PROVE  HInv(t)'
<1> DEFINE T == task[t]
<1>1. CASE Lookup(t) \/ \E f \in Streams : Fastclose(t, f)
  <2>1. /\ T.step \in {"idle", "lookup"} /\ UNCHANGED <<table, open, uses, heap>>
        /\ task'[t].step \in {"lookup", "untracked", "fclose"}
    BY <1>1 DEF Fastclose, Lookup, At, Goto, Then, LInv, Shape
  <2>2. QED
    BY <2>1 DEF HInv, Tracked, Absent, InUse, Freeing
<1>2. CASE Fclose(t)
  <2>1. T.step \in {"fclose", "untracked"} /\ UNCHANGED <<table, uses, heap>> /\ open' = open \ {T.f}
    BY <1>2 DEF Fclose, At
  <2>2. Tracked(t)'
    BY <2>1 DEF HInv, Tracked, Absent
  <2>3. CASE T.step = "fclose"
    <3>1. /\ task'[t].step = "free" /\ task'[t].i = T.i /\ T.i \in Slots
          /\ table[T.i].file = T.f /\ T.f \in Streams /\ T.f # NULL
      BY <1>2, <2>3, FastOpenAssumption DEF Fclose, At, Continue, Then, Goto, LInv, Shape, Closing
    <3>2. T.f \in open /\ uses[T.f] = table[T.i].buffer /\ table[T.i].buffer \in Buffers
      BY <2>3, <3>1 DEF LInv, Shape, SlotsRight, Right, Excepted
    <3>3. InUse = InUse' \cup {table[T.i].buffer}
      BY <2>1, <3>2 DEF InUse
    <3>4. QED
      BY <2>1, <2>2, <2>3, <3>1, <3>3 DEF HInv, Freeing
  <2>4. CASE T.step = "untracked"
    <3>1. task'[t] = Idle /\ Absent(T.f)
      BY <1>2, <2>4 DEF Fclose, At, Finish, LInv, Shape, Closing
    <3>2. T.f \in open => uses[T.f] = NULL
      BY <2>4, <3>1 DEF HInv, Tracked
    <3>3. InUse' = InUse
      BY <2>1, <3>2, FastOpenAssumption DEF InUse
    <3>4. QED
      BY <2>1, <2>2, <2>4, <3>1, <3>3 DEF HInv, Freeing, Idle
  <2>5. QED
    BY <2>1, <2>3, <2>4
<1>3. CASE Free(t)
  <2>1. /\ T.step = "free" /\ UNCHANGED <<table, open, uses>> /\ task'[t].step = "clear_file"
        /\ heap' = heap \ {table[T.i].buffer}
        /\ \A g \in open : uses[g] # NULL => uses[g] # table[T.i].buffer
    BY <1>3 DEF Free, At, Continue, Then, Goto, LInv, Shape, Closing
  <2>2. table[T.i].buffer \notin InUse
    BY <2>1, FastOpenAssumption DEF InUse
  <2>3. Tracked(t)' /\ InUse' = InUse
    BY <2>1 DEF HInv, Tracked, Absent, InUse
  <2>4. QED
    BY <2>1, <2>2, <2>3 DEF HInv, Freeing
<1>4. CASE ClearFile(t)
  <2>1. /\ T.step = "clear_file" /\ UNCHANGED <<open, uses, heap>> /\ task'[t].step = "clear_buffer"
        /\ T.i \in Slots /\ table[T.i].file = T.f /\ T.f \notin open
        /\ \A j \in Slots : j # T.i => table'[j] = table[j]
    BY <1>4 DEF ClearFile, At, Continue, Then, Goto, LInv, Shape, Closing
  <2>2. Tracked(t)'
    BY <2>1 DEF HInv, Tracked, Absent
  <2>3. QED
    BY <2>1, <2>2 DEF HInv, InUse, Freeing
<1>5. CASE ClearBuffer(t)
  <2>1. /\ T.step = "clear_buffer" /\ UNCHANGED <<open, uses, heap>> /\ task'[t] = Idle
        /\ \A j \in Slots : table'[j].file = table[j].file
    BY <1>5 DEF ClearBuffer, At, Continue, Then, Finish, LInv, Shape, Closing
  <2>2. QED
    BY <2>1 DEF HInv, Tracked, Absent, InUse, Freeing, Idle
<1>6. QED
  BY <1>1, <1>2, <1>3, <1>4, <1>5

\* One task with no more streams than slots: between calls every allocated buffer is that
\* of an open stream, however many were opened and closed before.
THEOREM SequentialNoLeak == ASSUME NEW t, Tasks = {t}, Roomy PROVE Spec => []NoLeak
<1>1. Init => HInv(t)
  BY DEF Init, HInv, Tracked, InUse, Freeing, Idle
<1>2. ASSUME LInv(t), BInv(t), HInv(t), [Next]_vars PROVE HInv(t)'
  <2>1. CASE UNCHANGED vars
    BY <1>2, <2>1 DEF vars, HInv, Tracked, Absent, InUse, Freeing
  <2>2. CASE Next
    BY <1>2, <2>2, OpeningHStep, ClosingHStep DEF Next
  <2>3. QED
    BY <1>2, <2>1, <2>2
<1>3. ASSUME LInv(t), HInv(t) PROVE NoLeak
  <2>1. SUFFICES ASSUME Quiet PROVE heap = {uses[f] : f \in open} \ {NULL}
    BY DEF NoLeak
  <2>2. heap = InUse
    BY <1>3, <2>1 DEF Quiet, At, HInv, Freeing
  <2>3. QED
    BY <1>3, <2>2, FastOpenAssumption DEF InUse, LInv, Shape
<1>4. QED
  BY <1>1, <1>2, <1>3, AlwaysTable, PTL DEF Spec
=============================================================================
