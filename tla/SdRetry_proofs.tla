--------------------------- MODULE SdRetry_proofs ---------------------------
(***************************************************************************)
(* Proofs about SdRetry, for every card size, bounce size, request bound,  *)
(* placement of buffers and set of outages.                                *)
(***************************************************************************)
EXTENDS SdRetry, TLAPS

\* TypeOK alone is not inductive: that an attempt moves data of the caller's
\* buffer needs the piece to lie inside the request.
IndInv == TypeOK /\ IInv

LEMMA Tries == SD_TRIES = 5
BY DEF SD_TRIES, SD_BACKOFF_MS

\* A backoff delay takes a natural number of ticks.
LEMMA DelayIsNat ==
    ASSUME NEW t \in 0 .. SD_TRIES - 1,
           NEW e \in Elapsed(pdMS_TO_TICKS(SD_BACKOFF_MS[t + 1]))
    PROVE  e \in Nat
<1> DEFINE ms == SD_BACKOFF_MS[t + 1]
<1>1. ms \in Nat
  BY Tries DEF SD_BACKOFF_MS
<1>2. ms * TickHz \in Nat
  BY <1>1, SizeAssumption
<1> HIDE DEF ms
<1>3. pdMS_TO_TICKS(ms) \in Nat
  <2> DEFINE p == ms * TickHz
  <2>1. p \div 1000 \in Nat
    <3> HIDE DEF p
    <3> p \in Nat BY <1>2 DEF p
    <3> QED OBVIOUS
  <2> QED BY <2>1 DEF pdMS_TO_TICKS
<1>4. e \in Elapsed(pdMS_TO_TICKS(ms))
  BY DEF ms
<1> QED BY <1>3, <1>4 DEF Elapsed

\* The card's remaining deaf time stays a natural number through a delay.
LEMMA LessIsNat == \A a, b \in Nat : Less(a, b) \in Nat
BY DEF Less

\* Writing sectors over an array keeps its type ...
LEMMA OverlayType ==
    ASSUME NEW I, NEW f \in [I -> Data], NEW g,
           \A i \in DOMAIN g : i \in I => g[i] \in Data
    PROVE  Overlay(f, g) \in [I -> Data]
BY DEF Overlay

\* ... and so does writing some of them, each element being old or new.
LEMMA PartlyType ==
    ASSUME NEW I, NEW f \in [I -> Data], NEW g, NEW h \in Partly(f, g),
           \A i \in DOMAIN g : i \in I => g[i] \in Data
    PROVE  /\ h \in [I -> Data]
           /\ \A i \in I : h[i] = f[i] \/ (i \in DOMAIN g /\ h[i] = g[i])
<1>1. PICK S \in SUBSET DOMAIN g : h = [i \in DOMAIN f |-> IF i \in S THEN g[i] ELSE f[i]]
  BY DEF Partly
<1> QED BY <1>1

\* A request lies inside the card.
LEMMA RequestType ==
    ASSUME NEW r \in Request
    PROVE  /\ r.count \in Nat /\ r.count > 0 /\ r.first \in Nat /\ r.write \in BOOLEAN
           /\ r.first + r.count <= NumSectors
BY SizeAssumption DEF Request, Sectors

\* The piece in progress lies inside the request, and the request inside the card.
LEMMA PieceInts ==
    ASSUME IndInv, pc = "run"
    PROVE  /\ done \in Nat /\ n \in Nat /\ req.count \in Nat /\ req.first \in Nat
           /\ n > 0 /\ done + n <= req.count /\ req.first + req.count <= NumSectors
<1>1. req \in Request /\ done \in Nat /\ n \in Nat
  BY DEF IndInv, TypeOK, TypeCall, TypeRun
<1>2. n > 0 /\ done + n <= req.count
  BY DEF IndInv, IInv, PieceFits
<1> QED BY <1>1, <1>2, RequestType

\* Every sector of the request is a sector of the card.
LEMMA InCard ==
    ASSUME IndInv, pc = "run", NEW i \in 0 .. req.count - 1
    PROVE  req.first + i \in Sectors
BY PieceInts, SizeAssumption DEF Sectors

\* The buffers of a run hold data, and a write runs on the caller's data.
LEMMA PieceData ==
    ASSUME IndInv, pc = "run"
    PROVE  /\ mem \in [0 .. req.count - 1 -> Data]
           /\ bouncing => bmem \in [0 .. BOUNCE_SECTORS - 1 -> Data]
           /\ \A i \in 0 .. n - 1 : Buffer(i) \in Data
           /\ req.write => \A i \in 0 .. n - 1 : Buffer(i) = mem[done + i]
<1>1. mem \in [0 .. req.count - 1 -> Data]
  BY DEF IndInv, TypeOK, TypeCall
<1>2. \A i \in 0 .. n - 1 : done + i \in 0 .. req.count - 1
  BY PieceInts
<1>3. CASE bouncing
  <2>1. bmem \in [0 .. BOUNCE_SECTORS - 1 -> Data] /\ n <= BOUNCE_SECTORS
    BY <1>3 DEF IndInv, TypeOK, TypeBounce, IInv, PieceFits
  <2>2. \A i \in 0 .. n - 1 : Buffer(i) = bmem[i] /\ i \in 0 .. BOUNCE_SECTORS - 1
    BY <1>3, <2>1, PieceInts, SizeAssumption DEF Buffer
  <2>3. req.write => \A i \in 0 .. n - 1 : bmem[i] = mem[done + i]
    BY <1>3 DEF IndInv, IInv, PieceFits
  <2> QED BY <1>1, <2>1, <2>2, <2>3
<1>4. CASE ~bouncing
  BY <1>1, <1>2, <1>4 DEF Buffer
<1> QED BY <1>3, <1>4 DEF IndInv, TypeOK, TypeFlags

-----------------------------------------------------------------------------
(* The inductive invariant *)

LEMMA InitIndInv == Init => IndInv
<1> SUFFICES ASSUME Init PROVE IndInv
  OBVIOUS
<1>1. TypeFlags /\ TypeBounce /\ TypeCard
  BY DEF Init, TypeFlags, TypeBounce, TypeCard
<1>2. TypeCounts
  BY SizeAssumption DEF Init, TypeCounts
<1>3. TypeCall /\ TypeAnswer
  BY DEF Init, TypeCall, TypeAnswer
<1>4. TypeRun
  BY Tries DEF Init, TypeRun
<1>5. IInv
  BY DEF Init, IInv, InService, DoneIsCarried, PieceFits
<1> QED BY <1>1, <1>2, <1>3, <1>4, <1>5 DEF IndInv, TypeOK

\* The steps around a request: calling, answering, and the choices sd_transfer
\* makes between the pieces.  None of them moves a sector between card and caller.
LEMMA InstallIndInv == IndInv /\ Install => IndInv'
<1> SUFFICES ASSUME IndInv, Install PROVE IndInv'
  OBVIOUS
<1> USE DEF Install, counters, caller, run, trouble
<1>1. TypeFlags'
  BY DEF IndInv, TypeOK, TypeFlags
<1>2. TypeBounce' /\ TypeCounts' /\ TypeCard'
  BY DEF IndInv, TypeOK, TypeBounce, TypeCounts, TypeCard
<1>3. TypeCall' /\ TypeRun' /\ TypeAnswer'
  BY DEF IndInv, TypeOK, TypeCall, TypeRun, TypeAnswer
<1>4. pc = "idle"
  BY DEF IndInv, IInv, InService
<1>5. IInv'
  BY <1>4 DEF IndInv, IInv, InService, DoneIsCarried, PieceFits
<1> QED BY <1>1, <1>2, <1>3, <1>5 DEF IndInv, TypeOK

LEMMA CallIndInv == IndInv /\ Call => IndInv'
<1> SUFFICES ASSUME IndInv, Call PROVE IndInv'
  OBVIOUS
<1>1. PICK r \in Request : req' = r /\ mem' \in [0 .. r.count - 1 -> Data]
  BY DEF Call
<1>2. /\ ops < MaxOps /\ ops' = ops + 1 /\ busy' \in {0, busy} /\ done' = 0 /\ pc' = "loop"
      /\ registered /\ UNCHANGED <<layer, counters, disk, n, bouncing, try, result, trouble, cause>>
  BY DEF Call
<1>3. TypeFlags' /\ TypeBounce' /\ TypeAnswer'
  BY <1>2 DEF IndInv, TypeOK, TypeFlags, TypeBounce, TypeAnswer, layer, trouble
<1>4. TypeCounts' /\ TypeCard' /\ TypeRun'
  BY <1>2, SizeAssumption DEF IndInv, TypeOK, TypeCounts, TypeCard, TypeRun, counters, trouble
<1>5. TypeCall'
  BY <1>1, <1>2 DEF TypeCall
<1>6. InService' /\ DoneIsCarried' /\ PieceFits'
  BY <1>1, <1>2, RequestType
  DEF IndInv, IInv, InService, DoneIsCarried, PieceFits, Carried, layer
<1> QED BY <1>3, <1>4, <1>5, <1>6 DEF IndInv, TypeOK, IInv

LEMMA AllCarriedIndInv == IndInv /\ AllCarried => IndInv'
<1> SUFFICES ASSUME IndInv, AllCarried PROVE IndInv'
  OBVIOUS
<1> USE DEF AllCarried, Answer, layer, caller, run, trouble
<1>1. TypeFlags' /\ TypeBounce' /\ TypeCard'
  BY DEF IndInv, TypeOK, TypeFlags, TypeBounce, TypeCard
<1>2. TypeCounts' /\ TypeRun' /\ TypeAnswer'
  BY DEF IndInv, TypeOK, TypeCounts, TypeRun, TypeAnswer
<1>3. TypeCall'
  BY DEF IndInv, TypeOK, TypeCall
<1>4. done = req.count
  <2>1. req.count \in Nat /\ done \in Nat /\ done >= req.count
    BY RequestType DEF IndInv, TypeOK, TypeCall, TypeRun
  <2>2. done <= req.count
    BY DEF IndInv, IInv, InService
  <2> QED BY <2>1, <2>2
<1>5. InService' /\ DoneIsCarried' /\ PieceFits'
  BY <1>4 DEF IndInv, IInv, InService, DoneIsCarried, PieceFits, Carried
<1> QED BY <1>1, <1>2, <1>3, <1>5 DEF IndInv, TypeOK, IInv

\* Between two pieces the request and what is left of it are well defined.
LEMMA LoopData ==
    ASSUME IndInv, pc = "loop", done < req.count
    PROVE  /\ req.count \in Nat /\ done \in Nat /\ mem \in [0 .. req.count - 1 -> Data]
           /\ req.count - done \in Nat /\ req.count - done > 0
<1>1. req \in Request /\ mem \in [0 .. req.count - 1 -> Data] /\ done \in Nat
  BY DEF IndInv, TypeOK, TypeCall, TypeRun
<1>2. req.count \in Nat
  BY <1>1, RequestType
<1> QED BY <1>1, <1>2

LEMMA DirectIndInv == IndInv /\ Direct => IndInv'
<1> SUFFICES ASSUME IndInv, Direct PROVE IndInv'
  OBVIOUS
<1>1. /\ pc = "loop" /\ done < req.count /\ n' = req.count - done /\ try' = 0 /\ pc' = "run"
      /\ hits' \in {0, 1} /\ slow' = (busy > 0) /\ bouncing' = FALSE
      /\ UNCHANGED <<layer, counters, disk, busy, caller, done, result, cause>>
  BY DEF Direct, EnterRun
<1>2. TypeFlags' /\ TypeBounce' /\ TypeAnswer'
  <2>1. slow' \in BOOLEAN
    BY <1>1
  <2>2. TypeFlags'
    BY <1>1, <2>1 DEF IndInv, TypeOK, TypeFlags, layer
  <2> QED BY <1>1, <2>2 DEF IndInv, TypeOK, TypeBounce, TypeAnswer, layer
<1>3. TypeCounts' /\ TypeCard' /\ TypeCall'
  BY <1>1 DEF IndInv, TypeOK, TypeCounts, TypeCard, TypeCall, counters, caller
<1>4. TypeRun'
  BY <1>1, LoopData, Tries DEF TypeRun
<1>5. InService' /\ DoneIsCarried' /\ PieceFits'
  BY <1>1, LoopData
  DEF IndInv, IInv, InService, DoneIsCarried, PieceFits, Carried, layer, caller
<1> QED BY <1>2, <1>3, <1>4, <1>5 DEF IndInv, TypeOK, IInv

LEMMA AllocIndInv == IndInv /\ bounce_buffer => IndInv'
<1> SUFFICES ASSUME IndInv, bounce_buffer PROVE IndInv'
  OBVIOUS
<1> USE DEF bounce_buffer, NeedsBounce, counters, caller, run, trouble
<1>1. TypeFlags' /\ TypeBounce' /\ TypeCard'
  BY DEF IndInv, TypeOK, TypeFlags, TypeBounce, TypeCard
<1>2. TypeCounts' /\ TypeRun' /\ TypeAnswer' /\ TypeCall'
  BY DEF IndInv, TypeOK, TypeCounts, TypeRun, TypeAnswer, TypeCall
<1>3. InService' /\ DoneIsCarried' /\ PieceFits'
  BY DEF IndInv, IInv, InService, DoneIsCarried, PieceFits, Carried
<1> QED BY <1>1, <1>2, <1>3 DEF IndInv, TypeOK, IInv

LEMMA NoMemoryIndInv == IndInv /\ NoBounceMemory => IndInv'
<1> SUFFICES ASSUME IndInv, NoBounceMemory PROVE IndInv'
  OBVIOUS
<1> USE DEF NoBounceMemory, NeedsBounce, Answer, layer, caller, run, trouble
<1>1. TypeFlags' /\ TypeBounce' /\ TypeCard'
  BY DEF IndInv, TypeOK, TypeFlags, TypeBounce, TypeCard
<1>2. TypeCounts' /\ TypeRun'
  <2>1. s_failed' = s_failed + 1
    OBVIOUS
  <2>2. {s_retried, s_failed, s_bounced, hits} \subseteq Nat /\ ops \in 0 .. MaxOps
    BY DEF IndInv, TypeOK, TypeCounts
  <2>3. UNCHANGED <<s_retried, s_bounced, hits, ops>>
    OBVIOUS
  <2>4. TypeCounts'
    <3> HIDE DEF NoBounceMemory
    <3> QED BY <2>1, <2>2, <2>3 DEF TypeCounts
  <2> QED BY <2>4 DEF IndInv, TypeOK, TypeRun
<1>4. TypeAnswer' /\ TypeCall'
  BY DEF IndInv, TypeOK, TypeAnswer, TypeCall
<1>3. InService' /\ DoneIsCarried' /\ PieceFits'
  BY DEF IndInv, IInv, InService, DoneIsCarried, PieceFits, Carried
<1> QED BY <1>1, <1>2, <1>3, <1>4 DEF IndInv, TypeOK, IInv

\* After memcpy the bounce buffer holds the piece of the caller's.
LEMMA CopiedInIsPiece ==
    ASSUME NEW k \in Nat, k <= BOUNCE_SECTORS, done \in Nat, req.count \in Nat, done + k <= req.count,
           mem \in [0 .. req.count - 1 -> Data], bmem \in [0 .. BOUNCE_SECTORS - 1 -> Data]
    PROVE  /\ CopiedIn(done, k) \in [0 .. BOUNCE_SECTORS - 1 -> Data]
           /\ \A i \in 0 .. k - 1 : CopiedIn(done, k)[i] = mem[done + i]
BY SizeAssumption DEF CopiedIn, Overlay

LEMMA BouncedIndInv == IndInv /\ Bounced => IndInv'
<1> SUFFICES ASSUME IndInv, Bounced PROVE IndInv'
  OBVIOUS
<1> DEFINE k == Least(req.count - done, BOUNCE_SECTORS)
<1>1. /\ pc = "loop" /\ done < req.count /\ s_bounce # NoBounce
      /\ n' = k /\ try' = 0 /\ pc' = "run" /\ bouncing' = TRUE
      /\ hits' \in {0, 1} /\ slow' = (busy > 0) /\ s_bounced' = s_bounced + 1
      /\ bmem' = (IF req.write THEN CopiedIn(done, k) ELSE bmem)
      /\ UNCHANGED <<s_card, registered, s_bounce, s_retried, s_failed, disk, busy, caller, done, result, cause>>
  BY DEF Bounced, NeedsBounce, EnterRun
<1>2. k \in Nat /\ k > 0 /\ done + k <= req.count /\ k <= BOUNCE_SECTORS
  BY <1>1, LoopData, SizeAssumption DEF Least
<1> HIDE DEF k
<1>3. bmem \in [0 .. BOUNCE_SECTORS - 1 -> Data]
  BY <1>1 DEF IndInv, TypeOK, TypeBounce
<1>4. /\ CopiedIn(done, k) \in [0 .. BOUNCE_SECTORS - 1 -> Data]
      /\ \A i \in 0 .. k - 1 : CopiedIn(done, k)[i] = mem[done + i]
  BY <1>1, <1>2, <1>3, LoopData, CopiedInIsPiece
<1>5. TypeFlags' /\ TypeBounce' /\ TypeAnswer'
  <2>1. slow' \in BOOLEAN
    BY <1>1
  <2>2. TypeFlags'
    BY <1>1, <2>1 DEF IndInv, TypeOK, TypeFlags
  <2> QED BY <1>1, <1>3, <1>4, <2>2 DEF IndInv, TypeOK, TypeBounce, TypeAnswer
<1>6. TypeCounts' /\ TypeCard' /\ TypeCall'
  BY <1>1 DEF IndInv, TypeOK, TypeCounts, TypeCard, TypeCall, caller
<1>7. TypeRun'
  BY <1>1, <1>2, Tries DEF IndInv, TypeOK, TypeRun
<1>8. InService' /\ DoneIsCarried'
  BY <1>1 DEF IndInv, IInv, InService, DoneIsCarried, Carried, caller
<1>9. PieceFits'
  BY <1>1, <1>2, <1>4 DEF PieceFits, caller
<1> QED BY <1>5, <1>6, <1>7, <1>8, <1>9 DEF IndInv, TypeOK, IInv

-----------------------------------------------------------------------------
(* The attempts *)

\* The sectors a write transaction carries are the caller's, for requested sectors.
LEMMA SentData ==
    ASSUME IndInv, pc = "run", req.write
    PROVE  /\ DOMAIN Sent = req.first + done .. req.first + done + n - 1
           /\ \A s \in DOMAIN Sent :
                 /\ s \in Sectors /\ Sent[s] \in Data
                 /\ s - req.first \in done .. done + n - 1 /\ Sent[s] = mem[s - req.first]
<1>1. DOMAIN Sent = req.first + done .. req.first + done + n - 1
  BY DEF Sent
<1>2. ASSUME NEW s \in DOMAIN Sent
      PROVE  /\ s \in Sectors /\ Sent[s] \in Data
             /\ s - req.first \in done .. done + n - 1 /\ Sent[s] = mem[s - req.first]
  <2> DEFINE i == s - req.first - done
  <2>0. s \in Int /\ s >= req.first + done /\ s <= req.first + done + n - 1
    BY <1>1, <1>2, PieceInts
  <2>1. /\ i \in 0 .. n - 1 /\ done + i \in 0 .. req.count - 1 /\ done + i = s - req.first
        /\ s = req.first + (done + i) /\ done + i \in done .. done + n - 1
    BY <2>0, PieceInts
  <2>2. Sent[s] = Buffer(i)
    BY <1>1, <1>2 DEF Sent
  <2> HIDE DEF i
  <2>3. Buffer(i) \in Data /\ Buffer(i) = mem[done + i]
    BY <2>1, PieceData
  <2>4. s \in Sectors
    BY <2>1, InCard
  <2> QED BY <2>1, <2>2, <2>3, <2>4
<1> QED BY <1>1, <1>2

\* What a read transaction brings are the requested sectors of the card.
LEMMA BroughtData ==
    ASSUME IndInv, pc = "run", NEW base \in Nat
    PROVE  /\ DOMAIN Brought(base) = base .. base + n - 1
           /\ \A i \in DOMAIN Brought(base) :
                 /\ Brought(base)[i] = disk[req.first + done + i - base]
                 /\ Brought(base)[i] \in Data
<1>1. DOMAIN Brought(base) = base .. base + n - 1
  BY DEF Brought
<1>2. ASSUME NEW i \in base .. base + n - 1
      PROVE  Brought(base)[i] = disk[req.first + done + i - base] /\ Brought(base)[i] \in Data
  <2>1. Brought(base)[i] = disk[req.first + done + i - base]
    BY <1>2 DEF Brought
  <2>2. /\ done + (i - base) \in 0 .. req.count - 1
        /\ req.first + done + i - base = req.first + (done + (i - base))
    BY <1>2, PieceInts
  <2>3. req.first + done + i - base \in Sectors
    BY <2>2, InCard
  <2> QED BY <2>1, <2>3 DEF IndInv, TypeOK, TypeCard
<1> QED BY <1>1, <1>2

\* A write, whole or in part, changes requested sectors only, to what the caller wants.
LEMMA WriteAttempt ==
    ASSUME IndInv, pc = "run", req.write,
           disk' = Overlay(disk, Sent) \/ disk' \in Partly(disk, Sent)
    PROVE  /\ disk' \in [Sectors -> Data]
           /\ \A s \in Sectors :
                 \/ disk'[s] = disk[s]
                 \/ s - req.first \in done .. done + n - 1 /\ disk'[s] = mem[s - req.first]
<1>1. disk \in [Sectors -> Data]
  BY DEF IndInv, TypeOK, TypeCard
<1>2. \A s \in DOMAIN Sent : s \in Sectors => Sent[s] \in Data
  BY SentData
<1>3. CASE disk' = Overlay(disk, Sent)
  <2>1. disk' \in [Sectors -> Data]
    BY <1>1, <1>2, <1>3, OverlayType
  <2>2. \A s \in Sectors : disk'[s] = disk[s] \/ (s \in DOMAIN Sent /\ disk'[s] = Sent[s])
    BY <1>1, <1>3 DEF Overlay
  <2> QED BY <2>1, <2>2, SentData
<1>4. CASE disk' \in Partly(disk, Sent)
  <2>1. /\ disk' \in [Sectors -> Data]
        /\ \A s \in Sectors : disk'[s] = disk[s] \/ (s \in DOMAIN Sent /\ disk'[s] = Sent[s])
    BY <1>1, <1>2, <1>4, PartlyType
  <2> QED BY <2>1, SentData
<1> QED BY <1>3, <1>4

\* Neither spoils what is already carried.
LEMMA WriteKeepsCarried ==
    ASSUME IndInv, pc = "run", req.write,
           disk' = Overlay(disk, Sent) \/ disk' \in Partly(disk, Sent)
    PROVE  \A j \in 0 .. done - 1 : mem[j] = disk'[req.first + j]
<1>1. TAKE j \in 0 .. done - 1
<1>2. mem[j] = disk[req.first + j]
  BY DEF IndInv, IInv, DoneIsCarried, Carried
<1>3. j \in 0 .. req.count - 1 /\ req.first + j - req.first \notin done .. done + n - 1
  BY PieceInts
<1>4. req.first + j \in Sectors
  BY <1>3, InCard
<1>5. disk'[req.first + j] = disk[req.first + j]
  <2> DEFINE s == req.first + j
  <2>1. s \in Sectors /\ s - req.first \notin done .. done + n - 1
    BY <1>3, <1>4, PieceInts
  <2>2. disk'[s] = disk[s] \/ s - req.first \in done .. done + n - 1
    <3> HIDE DEF s
    <3> QED BY <2>1, WriteAttempt
  <2> QED BY <2>1, <2>2
<1> QED BY <1>2, <1>5

\* A read, whole or in part, fills only the current piece of a buffer, with data.
LEMMA ReadAttempt ==
    ASSUME IndInv, pc = "run", NEW base \in Nat, NEW I, NEW buf \in [I -> Data], NEW buf2,
           buf2 = Overlay(buf, Brought(base)) \/ buf2 \in Partly(buf, Brought(base))
    PROVE  /\ buf2 \in [I -> Data]
           /\ \A i \in I : i \notin base .. base + n - 1 => buf2[i] = buf[i]
<1>1. \A i \in DOMAIN Brought(base) : i \in I => Brought(base)[i] \in Data
  BY BroughtData
<1>2. DOMAIN Brought(base) = base .. base + n - 1
  BY BroughtData
<1>3. CASE buf2 = Overlay(buf, Brought(base))
  <2>1. buf2 \in [I -> Data]
    BY <1>1, <1>3, OverlayType
  <2>2. \A i \in I : i \notin DOMAIN Brought(base) => buf2[i] = buf[i]
    BY <1>3 DEF Overlay
  <2> QED BY <1>2, <2>1, <2>2
<1>4. CASE buf2 \in Partly(buf, Brought(base))
  <2>1. /\ buf2 \in [I -> Data]
        /\ \A i \in I : buf2[i] = buf[i] \/ i \in DOMAIN Brought(base)
    BY <1>1, <1>4, PartlyType
  <2> QED BY <1>2, <2>1
<1> QED BY <1>3, <1>4

\* An attempt that works: the piece joins what is already carried.
LEMMA SuccessIndInv == IndInv /\ Success => IndInv'
<1> SUFFICES ASSUME IndInv, Success PROVE IndInv'
  OBVIOUS
<1>1. /\ pc = "run" /\ busy' = 0 /\ done' = done + n /\ pc' = "loop"
      /\ UNCHANGED <<s_card, registered, s_bounce, s_failed, s_bounced, req, ops,
                     n, bouncing, try, result, trouble, cause>>
  BY DEF Success, DoneAfter
<1>2. s_retried' \in {s_retried, s_retried + 1}
  BY DEF Success
<1>3. done + n \in Nat /\ done + n <= req.count
  BY <1>1, PieceInts
<1>4. TypeFlags' /\ TypeAnswer'
  BY <1>1 DEF IndInv, TypeOK, TypeFlags, TypeAnswer, trouble
<1>5. TypeCounts'
  BY <1>1, <1>2 DEF IndInv, TypeOK, TypeCounts, trouble
<1>6. TypeRun'
  BY <1>1, <1>3 DEF IndInv, TypeOK, TypeRun
<1>7. InService'
  BY <1>1, <1>3 DEF IndInv, IInv, InService
<1>8. PieceFits'
  BY <1>1 DEF PieceFits
<1>9. /\ TypeCard' /\ TypeBounce' /\ TypeCall'
      /\ \A j \in 0 .. done + n - 1 : mem'[j] = disk'[req.first + j]
  <2>1. CASE req.write
    <3>1. disk' = Overlay(disk, Sent) /\ mem' = mem /\ bmem' = bmem
      BY <2>1 DEF Success
    <3>2. TypeCard' /\ TypeBounce' /\ TypeCall'
      BY <1>1, <2>1, <3>1, WriteAttempt DEF IndInv, TypeOK, TypeCard, TypeBounce, TypeCall
    <3>3. ASSUME NEW j \in 0 .. done + n - 1
          PROVE  mem[j] = disk'[req.first + j]
      <4>1. CASE j \in 0 .. done - 1
        BY <1>1, <2>1, <3>1, <4>1, WriteKeepsCarried
      <4>2. CASE j \in done .. done + n - 1
        <5> DEFINE s == req.first + j
        <5>1. /\ s \in req.first + done .. req.first + done + n - 1 /\ s - req.first = j
              /\ s = req.first + j
          BY <1>1, <4>2, PieceInts
        <5> HIDE DEF s
        <5>2. s \in DOMAIN Sent
          BY <1>1, <2>1, <5>1, SentData
        <5>3. s \in Sectors /\ Sent[s] = mem[j]
          BY <1>1, <2>1, <5>1, <5>2, SentData
        <5>4. disk'[s] = Sent[s]
          BY <3>1, <5>2, <5>3 DEF Overlay, IndInv, TypeOK, TypeCard
        <5> QED BY <5>1, <5>3, <5>4
      <4> QED BY <1>1, <3>3, <4>1, <4>2, PieceInts
    <3> QED BY <3>1, <3>2, <3>3
  <2>2. CASE ~req.write
    <3>1. /\ mem' = Overlay(mem, Brought(done)) /\ disk' = disk
          /\ bmem' = (IF bouncing THEN Overlay(bmem, Brought(0)) ELSE bmem)
      BY <2>2 DEF Success
    <3>2. /\ mem' \in [0 .. req.count - 1 -> Data]
          /\ \A i \in 0 .. req.count - 1 : i \notin done .. done + n - 1 => mem'[i] = mem[i]
      <4>1. mem \in [0 .. req.count - 1 -> Data] /\ done \in Nat
        BY <1>1, PieceData, PieceInts
      <4>2. Overlay(mem, Brought(done)) \in [0 .. req.count - 1 -> Data]
        BY <1>1, <4>1, ReadAttempt
      <4>3. \A i \in 0 .. req.count - 1 : i \notin DOMAIN Brought(done) =>
               Overlay(mem, Brought(done))[i] = mem[i]
        BY <4>1 DEF Overlay
      <4> QED BY <1>1, <3>1, <4>1, <4>2, <4>3, BroughtData
    <3>3. s_bounce # NoBounce => bmem' \in [0 .. BOUNCE_SECTORS - 1 -> Data]
      <4>1. s_bounce # NoBounce => bmem \in [0 .. BOUNCE_SECTORS - 1 -> Data]
        BY DEF IndInv, TypeOK, TypeBounce
      <4>2. ASSUME s_bounce # NoBounce
            PROVE  Overlay(bmem, Brought(0)) \in [0 .. BOUNCE_SECTORS - 1 -> Data]
        BY <1>1, <4>1, <4>2, ReadAttempt
      <4> QED BY <3>1, <4>1, <4>2
    <3>4. TypeCard' /\ TypeBounce' /\ TypeCall'
      BY <1>1, <3>1, <3>2, <3>3 DEF IndInv, TypeOK, TypeCard, TypeBounce, TypeCall
    <3>5. ASSUME NEW j \in 0 .. done + n - 1
          PROVE  mem'[j] = disk[req.first + j]
      <4>1. CASE j \in 0 .. done - 1
        <5>1. mem[j] = disk[req.first + j]
          BY <1>1, <4>1 DEF IndInv, IInv, DoneIsCarried, Carried
        <5>2. j \in 0 .. req.count - 1 /\ j \notin done .. done + n - 1
          BY <1>1, <4>1, PieceInts
        <5> QED BY <3>2, <5>1, <5>2
      <4>2. CASE j \in done .. done + n - 1
        <5>1. j \in DOMAIN Brought(done) /\ Brought(done)[j] = disk[req.first + done + j - done]
          BY <1>1, <4>2, BroughtData, PieceInts
        <5>2. j \in 0 .. req.count - 1 /\ req.first + done + j - done = req.first + j
          BY <1>1, <4>2, PieceInts
        <5>3. mem'[j] = Brought(done)[j]
          BY <1>1, <3>1, <5>1, <5>2, PieceData DEF Overlay
        <5> QED BY <5>1, <5>2, <5>3
      <4> QED BY <1>1, <3>5, <4>1, <4>2, PieceInts
    <3> QED BY <3>1, <3>4, <3>5
  <2> QED BY <2>1, <2>2
<1>10. DoneIsCarried'
  <2>1. pc' = "loop" /\ done' = done + n /\ req' = req
    BY <1>1
  <2>2. Carried(done)'
    <3>1. \A j \in 0 .. done' - 1 : mem'[j] = disk'[req'.first + j]
      BY <1>1, <1>9, <2>1, PieceInts
    <3> QED BY <3>1 DEF Carried
  <2> QED BY <2>1, <2>2 DEF DoneIsCarried
<1> QED BY <1>4, <1>5, <1>6, <1>7, <1>8, <1>9, <1>10 DEF IndInv, TypeOK, IInv

\* sd_run goes round again, with the same piece, or sd_transfer fails.
LEMMA AgainCases ==
    ASSUME IndInv, NEW err \in {"TIMEOUT", "NOT_SUPPORTED"}, Again(err)
    PROVE  \/ /\ try' = try + 1 /\ try' \in 0 .. SD_TRIES - 1
              /\ UNCHANGED <<s_failed, pc, result, cause>>
           \/ try' = try /\ result' = "ERROR" /\ cause' = err /\ pc' = "ret" /\ s_failed' = s_failed + 1
<1>1. try \in 0 .. SD_TRIES - 1
  BY DEF IndInv, TypeOK, TypeRun
<1> QED BY <1>1, Tries DEF Again, Answer

\* What a failed attempt leaves, given what it did to the buffers and the card.
LEMMA FailedAttempt ==
    ASSUME IndInv, pc = "run", NEW err \in {"TIMEOUT", "NOT_SUPPORTED"}, Again(err),
           UNCHANGED <<s_card, registered, s_bounce, s_retried, s_bounced, req, ops, done, n, bouncing>>,
           TypeCard', TypeBounce', TypeCall', hits' \in Nat, slow' \in BOOLEAN,
           Carried(done)',
           bouncing /\ req.write => \A i \in 0 .. n - 1 : bmem'[i] = mem'[done + i]
    PROVE  IndInv'
<1>1. \/ /\ try' = try + 1 /\ try' \in 0 .. SD_TRIES - 1
         /\ UNCHANGED <<s_failed, pc, result, cause>>
      \/ try' = try /\ result' = "ERROR" /\ cause' = err /\ pc' = "ret" /\ s_failed' = s_failed + 1
  BY AgainCases
<1>2. TypeFlags'
  BY DEF IndInv, TypeOK, TypeFlags
<1>3. TypeCounts' /\ TypeAnswer'
  <2>1. s_failed' \in Nat
    BY <1>1 DEF IndInv, TypeOK, TypeCounts
  <2>2. TypeAnswer'
    BY <1>1 DEF IndInv, TypeOK, TypeAnswer
  <2> QED BY <2>1, <2>2 DEF IndInv, TypeOK, TypeCounts
<1>4. TypeRun'
  BY <1>1 DEF IndInv, TypeOK, TypeRun
<1>5. InService' /\ DoneIsCarried'
  BY <1>1 DEF IndInv, IInv, InService, DoneIsCarried
<1>6. PieceFits'
  BY DEF IndInv, IInv, PieceFits
<1> QED BY <1>2, <1>3, <1>4, <1>5, <1>6 DEF IndInv, TypeOK, IInv

\* A delay leaves the card's deaf time a natural number.
LEMMA BackoffIsNat ==
    ASSUME IndInv, NEW e \in Elapsed(pdMS_TO_TICKS(SD_BACKOFF_MS[try + 1]))
    PROVE  Less(busy, e) \in Nat
<1>1. try \in 0 .. SD_TRIES - 1 /\ busy \in Nat
  BY DEF IndInv, TypeOK, TypeRun, TypeCard
<1>2. e \in Nat
  BY <1>1, DelayIsNat
<1> QED BY <1>1, <1>2, LessIsNat

\* A disturbed attempt may move any of its sectors; the bounce buffer of a write
\* stays as it is, and so does all that is already carried.
LEMMA DisturbedIndInv == IndInv /\ Disturbed => IndInv'
<1> SUFFICES ASSUME IndInv, Disturbed PROVE IndInv'
  OBVIOUS
<1>1. /\ pc = "run" /\ Again("TIMEOUT")
      /\ UNCHANGED <<s_card, registered, s_bounce, s_retried, s_bounced, req, ops, done, n, bouncing>>
  BY DEF Disturbed
<1>2. busy' \in Nat /\ hits' \in Nat /\ slow' \in BOOLEAN
  <2>1. PICK e \in Elapsed(pdMS_TO_TICKS(SD_BACKOFF_MS[try + 1])) :
           IF Less(busy, e) > 0
             THEN busy' = Less(busy, e) /\ UNCHANGED <<hits, slow>>
             ELSE busy' \in Outages /\ hits' = hits + 1 /\ slow' = (slow \/ busy' > 0)
    BY DEF Disturbed
  <2>2. hits \in Nat /\ slow \in BOOLEAN /\ Outages \subseteq Nat
    BY SetAssumption DEF IndInv, TypeOK, TypeCounts, TypeFlags
  <2>3. CASE Less(busy, e) > 0
    BY <2>1, <2>2, <2>3, BackoffIsNat
  <2>4. CASE ~(Less(busy, e) > 0)
    <3>1. busy' \in Outages /\ hits' = hits + 1 /\ slow' = (slow \/ busy' > 0)
      BY <2>1, <2>4
    <3>2. slow' \in BOOLEAN
      BY <3>1
    <3> QED BY <2>2, <3>1, <3>2
  <2> QED BY <2>3, <2>4
<1>3. CASE req.write
  <2>1. disk' \in Partly(disk, Sent) /\ UNCHANGED <<mem, bmem>>
    BY <1>3 DEF Disturbed
  <2>2. TypeCard'
    BY <1>1, <1>2, <1>3, <2>1, WriteAttempt DEF TypeCard
  <2>3. TypeBounce'
    BY <1>1, <2>1 DEF IndInv, TypeOK, TypeBounce
  <2>4. TypeCall'
    BY <1>1, <2>1, AgainCases DEF IndInv, TypeOK, TypeCall
  <2>5. Carried(done)'
    <3>1. \A j \in 0 .. done - 1 : mem[j] = disk'[req.first + j]
      BY <1>1, <1>3, <2>1, WriteKeepsCarried
    <3> QED BY <1>1, <2>1, <3>1 DEF Carried
  <2>6. bouncing /\ req.write => \A i \in 0 .. n - 1 : bmem'[i] = mem'[done + i]
    BY <1>1, <2>1 DEF IndInv, IInv, PieceFits
  <2> QED BY <1>1, <1>2, <2>2, <2>3, <2>4, <2>5, <2>6, FailedAttempt
<1>4. CASE ~req.write
  <2>1. /\ disk' = disk
        /\ IF bouncing THEN bmem' \in Partly(bmem, Brought(0)) /\ mem' = mem
                       ELSE mem' \in Partly(mem, Brought(done)) /\ bmem' = bmem
    BY <1>4 DEF Disturbed
  <2>2. TypeCard'
    BY <1>2, <2>1 DEF IndInv, TypeOK, TypeCard
  <2>3. TypeBounce'
    <3>1. s_bounce # NoBounce => bmem \in [0 .. BOUNCE_SECTORS - 1 -> Data]
      BY DEF IndInv, TypeOK, TypeBounce
    <3>2. s_bounce # NoBounce => bmem' \in [0 .. BOUNCE_SECTORS - 1 -> Data]
      BY <1>1, <2>1, <3>1, ReadAttempt
    <3> QED BY <1>1, <3>2 DEF IndInv, TypeOK, TypeBounce
  <2>4. /\ mem' \in [0 .. req.count - 1 -> Data]
        /\ \A i \in 0 .. req.count - 1 : i \notin done .. done + n - 1 => mem'[i] = mem[i]
    <3>1. mem \in [0 .. req.count - 1 -> Data] /\ done \in Nat
      BY <1>1, PieceData, PieceInts
    <3>2. mem' = mem \/ mem' \in Partly(mem, Brought(done))
      BY <2>1
    <3>3. ASSUME mem' \in Partly(mem, Brought(done))
          PROVE  /\ mem' \in [0 .. req.count - 1 -> Data]
                 /\ \A i \in 0 .. req.count - 1 : mem'[i] = mem[i] \/ i \in DOMAIN Brought(done)
      <4>1. \A i \in DOMAIN Brought(done) : i \in 0 .. req.count - 1 => Brought(done)[i] \in Data
        BY <1>1, <3>1, BroughtData
      <4>2. PICK S \in SUBSET DOMAIN Brought(done) :
               mem' = [i \in DOMAIN mem |-> IF i \in S THEN Brought(done)[i] ELSE mem[i]]
        BY <3>3 DEF Partly
      <4> QED BY <3>1, <4>1, <4>2
    <3> QED BY <1>1, <3>1, <3>2, <3>3, BroughtData
  <2>5. TypeCall'
    BY <1>1, <2>4, AgainCases DEF IndInv, TypeOK, TypeCall
  <2>6. Carried(done)'
    <3>1. ASSUME NEW j \in 0 .. done - 1
          PROVE  mem'[j] = disk[req.first + j]
      <4>1. mem[j] = disk[req.first + j]
        BY <1>1, <3>1 DEF IndInv, IInv, DoneIsCarried, Carried
      <4>2. j \in 0 .. req.count - 1 /\ j \notin done .. done + n - 1
        BY <1>1, <3>1, PieceInts
      <4> QED BY <2>4, <4>1, <4>2
    <3> QED BY <1>1, <2>1, <3>1 DEF Carried
  <2> QED BY <1>1, <1>2, <1>4, <2>2, <2>3, <2>5, <2>6, FailedAttempt
<1> QED BY <1>3, <1>4

\* A refused attempt moves nothing.
LEMMA RefusedIndInv == IndInv /\ Refused => IndInv'
<1> SUFFICES ASSUME IndInv, Refused PROVE IndInv'
  OBVIOUS
<1>1. /\ pc = "run" /\ Again("NOT_SUPPORTED")
      /\ UNCHANGED <<layer, s_retried, s_bounced, disk, caller, done, n, bouncing, trouble>>
  BY DEF Refused
<1>2. busy' \in Nat
  BY BackoffIsNat DEF Refused, Backoff
<1>3. UNCHANGED <<s_card, registered, s_bounce, bmem, s_retried, s_bounced, disk, req, mem, ops,
                  done, n, bouncing, hits, slow>>
  BY <1>1 DEF layer, caller, trouble
<1>4. TypeCard' /\ TypeBounce' /\ hits' \in Nat
  BY <1>2, <1>3 DEF IndInv, TypeOK, TypeCard, TypeBounce, TypeCounts
<1>5. slow' \in BOOLEAN
  BY <1>3 DEF IndInv, TypeOK, TypeFlags
<1>6. TypeCall'
  BY <1>1, <1>3, AgainCases DEF IndInv, TypeOK, TypeCall
<1>7. Carried(done)'
  BY <1>1, <1>3 DEF IndInv, IInv, DoneIsCarried, Carried
<1>8. bouncing /\ req.write => \A i \in 0 .. n - 1 : bmem'[i] = mem'[done + i]
  BY <1>1, <1>3 DEF IndInv, IInv, PieceFits
<1> QED BY <1>1, <1>3, <1>4, <1>5, <1>6, <1>7, <1>8, FailedAttempt

LEMMA ReturnIndInv == IndInv /\ Return => IndInv'
<1> SUFFICES ASSUME IndInv, Return PROVE IndInv'
  OBVIOUS
<1> USE DEF Return, NoCall, layer, counters
<1>1. TypeFlags'
  BY DEF IndInv, TypeOK, TypeFlags
<1>2. TypeBounce' /\ TypeCounts' /\ TypeCard'
  BY DEF IndInv, TypeOK, TypeBounce, TypeCounts, TypeCard
<1>3. TypeCall' /\ TypeAnswer'
  BY DEF TypeCall, TypeAnswer
<1>4. TypeRun'
  BY Tries DEF TypeRun
<1>5. InService' /\ DoneIsCarried' /\ PieceFits'
  BY DEF IndInv, IInv, InService, DoneIsCarried, PieceFits
<1> QED BY <1>1, <1>2, <1>3, <1>4, <1>5 DEF IndInv, TypeOK, IInv

LEMMA RestartIndInv == IndInv /\ Restart => IndInv'
<1> SUFFICES ASSUME IndInv, Restart PROVE IndInv'
  OBVIOUS
<1> USE DEF Restart, NoCall
<1>1. TypeFlags'
  BY DEF TypeFlags
<1>2. TypeBounce' /\ TypeCard'
  BY DEF IndInv, TypeOK, TypeBounce, TypeCard
<1>3. TypeCounts'
  BY SizeAssumption DEF TypeCounts
<1>4. TypeCall' /\ TypeAnswer'
  BY DEF TypeCall, TypeAnswer
<1>5. TypeRun'
  BY Tries DEF TypeRun
<1>6. InService' /\ DoneIsCarried' /\ PieceFits'
  BY DEF InService, DoneIsCarried, PieceFits
<1> QED BY <1>1, <1>2, <1>3, <1>4, <1>5, <1>6 DEF IndInv, TypeOK, IInv

LEMMA StutterIndInv == IndInv /\ UNCHANGED vars => IndInv'
<1> SUFFICES ASSUME IndInv, UNCHANGED vars PROVE IndInv'
  OBVIOUS
<1> USE DEF vars, layer, counters, caller, run, trouble
<1>1. TypeFlags'
  BY DEF IndInv, TypeOK, TypeFlags
<1>2. TypeBounce' /\ TypeCounts' /\ TypeCard'
  BY DEF IndInv, TypeOK, TypeBounce, TypeCounts, TypeCard
<1>3. TypeCall' /\ TypeRun' /\ TypeAnswer'
  BY DEF IndInv, TypeOK, TypeCall, TypeRun, TypeAnswer
<1>4. InService' /\ DoneIsCarried' /\ PieceFits'
  BY DEF IndInv, IInv, InService, DoneIsCarried, PieceFits, Carried
<1> QED BY <1>1, <1>2, <1>3, <1>4 DEF IndInv, TypeOK, IInv

\* Every step keeps the inductive invariant.
LEMMA NextIndInv == IndInv /\ [Next]_vars => IndInv'
BY InstallIndInv, CallIndInv, AllCarriedIndInv, DirectIndInv, AllocIndInv, NoMemoryIndInv,
   BouncedIndInv, SuccessIndInv, DisturbedIndInv, RefusedIndInv, ReturnIndInv, RestartIndInv,
   StutterIndInv
DEF Next, SdStep

THEOREM Invariance == Spec => []IndInv
<1>1. Init => IndInv
  BY InitIndInv
<1>2. IndInv /\ [Next]_vars => IndInv'
  BY NextIndInv
<1> QED BY <1>1, <1>2, PTL DEF Spec

\* The variables keep their types: in particular no piece of sd_transfer reaches
\* outside the caller's buffer, the bounce buffer or the card.
THEOREM TypeCorrect == Spec => []TypeOK
<1>1. IndInv => TypeOK
  BY DEF IndInv
<1> QED BY <1>1, Invariance, PTL

\* sd_transfer answers RES_OK only when every requested sector has been carried.
THEOREM AcknowledgedIsCarried == Spec => []IInv
<1>1. IndInv => IInv
  BY DEF IndInv
<1> QED BY <1>1, Invariance, PTL

-----------------------------------------------------------------------------
(***************************************************************************)
(* SdRetry implements BlockDevice: every step of the retrying layer is a   *)
(* step of the device FatFs expects, or changes nothing FatFs can see.     *)
(***************************************************************************)

\* Attempts of a write store requested sectors only, with the caller's data.
LEMMA StoreStep ==
    ASSUME IndInv, pc = "run", req.write, UNCHANGED mem,
           disk' = Overlay(disk, Sent) \/ disk' \in Partly(disk, Sent)
    PROVE  Device!Store
<1>1. disk' \in [Sectors -> Data]
  BY WriteAttempt
<1>2. ASSUME NEW s \in Sectors, disk'[s] # disk[s]
      PROVE  \E i \in 0 .. req.count - 1 : s = req.first + i /\ disk'[s] = mem[i]
  <2>1. s - req.first \in done .. done + n - 1 /\ disk'[s] = mem[s - req.first]
    BY <1>2, WriteAttempt
  <2>2. s \in Int
    BY SizeAssumption DEF Sectors
  <2>3. s - req.first \in 0 .. req.count - 1 /\ s = req.first + (s - req.first)
    BY <2>1, <2>2, PieceInts
  <2> QED BY <2>1, <2>3
<1> QED BY <1>1, <1>2 DEF Device!Store

\* A step that moves nothing is a store or a fill of nothing.
LEMMA NothingMoved ==
    ASSUME IndInv, pc \in {"loop", "run"}, UNCHANGED <<disk, mem>>
    PROVE  Device!Store \/ Device!Fill
<1>1. req \in Request /\ mem \in [0 .. req.count - 1 -> Data] /\ disk \in [Sectors -> Data]
  BY DEF IndInv, TypeOK, TypeCall, TypeCard
<1>2. CASE req.write
  BY <1>1, <1>2 DEF Device!Store
<1>3. CASE ~req.write
  BY <1>1, <1>3 DEF Device!Fill
<1> QED BY <1>2, <1>3

\* The data an attempt moves, whole or in part.
LEMMA AttemptStep == IndInv /\ IndInv' /\ (Success \/ Disturbed) => Device!Store \/ Device!Fill
<1> SUFFICES ASSUME IndInv, IndInv', Success \/ Disturbed PROVE Device!Store \/ Device!Fill
  OBVIOUS
<1>1. pc = "run" /\ req' = req
  BY DEF Success, Disturbed
<1>2. CASE req.write
  <2>1. UNCHANGED mem /\ (disk' = Overlay(disk, Sent) \/ disk' \in Partly(disk, Sent))
    BY <1>2 DEF Success, Disturbed
  <2> QED BY <1>1, <1>2, <2>1, StoreStep
<1>3. CASE ~req.write
  <2>1. disk' = disk
    BY <1>3 DEF Success, Disturbed
  <2>2. pc' \in {"loop", "run", "ret"}
    BY <1>1 DEF Success, Disturbed, Again, Answer
  <2>3. mem' \in [0 .. req.count - 1 -> Data]
    BY <1>1, <2>2 DEF IndInv, TypeOK, TypeCall
  <2> QED BY <1>3, <2>1, <2>3 DEF Device!Fill
<1> QED BY <1>2, <1>3

\* A failed attempt goes on working or fails the request.
LEMMA FailedStep ==
    ASSUME IndInv, pc = "run", NEW err \in {"TIMEOUT", "NOT_SUPPORTED"}, Again(err),
           Device!Store \/ Device!Fill, req' = req
    PROVE  Device!Work \/ Device!Fail
<1>1. CASE pc' = pc
  BY <1>1 DEF Device!Work
<1>2. CASE pc' = "ret" /\ result' = "ERROR"
  BY <1>2 DEF Device!Fail
<1> QED BY <1>1, <1>2, AgainCases

LEMMA SdStepSimulates == IndInv /\ IndInv' /\ SdStep => [Device!Next]_(Device!vars)
<1> SUFFICES ASSUME IndInv, IndInv', SdStep PROVE [Device!Next]_(Device!vars)
  OBVIOUS
<1>1. CASE AllCarried
  <2>1. /\ pc = "loop" /\ pc' = "ret" /\ result' = "OK" /\ UNCHANGED <<disk, req, mem>>
    BY <1>1 DEF AllCarried, Answer, caller
  <2>2. \A i \in 0 .. req.count - 1 : mem[i] = disk[req.first + i]
    <3>1. \A i \in 0 .. req'.count - 1 : mem'[i] = disk'[req'.first + i]
      BY <2>1 DEF IndInv, IInv, DoneIsCarried, Carried
    <3> QED BY <2>1, <3>1
  <2>3. Device!Succeed
    BY <2>1, <2>2 DEF Device!Succeed
  <2> QED BY <2>3 DEF Device!Next
<1>2. CASE Direct \/ bounce_buffer \/ Bounced
  <2>1. pc = "loop" /\ pc' \in {"loop", "run"} /\ UNCHANGED <<disk, req, mem, result>>
    BY <1>2 DEF Direct, bounce_buffer, Bounced, NeedsBounce, EnterRun, caller
  <2> QED BY <2>1 DEF Device!vars
<1>3. CASE NoBounceMemory
  <2>1. /\ pc = "loop" /\ pc' = "ret" /\ result' = "ERROR" /\ UNCHANGED <<disk, req, mem>>
    BY <1>3 DEF NoBounceMemory, NeedsBounce, Answer, caller
  <2>2. Device!Fail
    BY <2>1, NothingMoved DEF Device!Fail
  <2> QED BY <2>2 DEF Device!Next
<1>4. CASE Success
  <2>1. pc = "run" /\ pc' = "loop" /\ req' = req
    BY <1>4 DEF Success
  <2>2. Device!Work
    BY <1>4, <2>1, AttemptStep DEF Device!Work
  <2> QED BY <2>2 DEF Device!Next
<1>5. CASE Disturbed
  <2>1. pc = "run" /\ req' = req /\ Again("TIMEOUT")
    BY <1>5 DEF Disturbed
  <2> QED BY <1>5, <2>1, AttemptStep, FailedStep DEF Device!Next
<1>6. CASE Refused
  <2>1. pc = "run" /\ UNCHANGED <<disk, req, mem>> /\ Again("NOT_SUPPORTED")
    BY <1>6 DEF Refused, caller
  <2> QED BY <2>1, NothingMoved, FailedStep DEF Device!Next
<1> QED BY <1>1, <1>2, <1>3, <1>4, <1>5, <1>6 DEF SdStep

LEMMA Simulation == IndInv /\ IndInv' /\ [Next]_vars => [Device!Next]_(Device!vars)
<1> SUFFICES ASSUME IndInv, IndInv', [Next]_vars PROVE [Device!Next]_(Device!vars)
  OBVIOUS
<1>1. CASE Install
  BY <1>1 DEF Install, caller, Device!vars
<1>2. CASE Call
  <2>1. /\ pc = "idle" /\ pc' = "loop" /\ disk' = disk
        /\ req' \in Request /\ mem' \in [0 .. req'.count - 1 -> Data]
    BY <1>2 DEF Call
  <2>2. Device!Begin
    BY <2>1 DEF Device!Begin
  <2> QED BY <2>2 DEF Device!Next
<1>3. CASE SdStep
  BY <1>3, SdStepSimulates
<1>4. CASE Return
  <2>1. Device!Return
    BY <1>4 DEF Return, NoCall, Device!Return
  <2> QED BY <2>1 DEF Device!Next
<1>5. CASE Restart
  <2>1. Device!Restart
    BY <1>5 DEF Restart, NoCall, Device!Restart
  <2> QED BY <2>1 DEF Device!Next
<1>6. CASE UNCHANGED vars
  BY <1>6 DEF vars, caller, Device!vars
<1> QED BY <1>1, <1>2, <1>3, <1>4, <1>5, <1>6 DEF Next

\* The retrying layer is the block device FatFs needs: nothing but the requested
\* sectors is ever written, with nothing but the caller's data, and RES_OK means
\* that all of them were carried, whatever is disturbed, refused or cut off.
THEOREM ImplementsDevice == Spec => DeviceSpec
<1>1. Init => Device!Init
  BY DEF Init, Device!Init
<1>2. IndInv /\ IndInv' /\ [Next]_vars => [Device!Next]_(Device!vars)
  BY Simulation
<1> QED BY <1>1, <1>2, Invariance, PTL DEF Spec, DeviceSpec, Device!Spec

-----------------------------------------------------------------------------
(***************************************************************************)
(* What the escalating backoff of sd_run is good for, at the tick rate of  *)
(* the firmware: one disturbance after which the card stays deaf for up to *)
(* 34 ticks (340 ms) never fails a request, for any card and any requests. *)
(***************************************************************************)

TickRate == TickHz = 100
OutagesBounded == \A o \in Outages : o <= 34

\* The most deaf time that one disturbance can still leave before each attempt.
Left == <<34, 34, 34, 33, 24>>

\* While a piece is being tried: only a bounce buffer can be refused, and that
\* before the first attempt is over; a single disturbance has at most Left to
\* run; and without a slow one every attempt so far was disturbed by itself.
TroubleInv ==
    pc = "run" =>
        /\ ~bouncing => usable_for_dma(req.region, req.aligned)
        /\ try > 0 => Accepted
        /\ hits = 0 => try = 0 /\ busy = 0
        /\ hits = 1 => busy <= Left[try + 1]
        /\ ~slow => hits = try /\ busy = 0

BackoffInv == busy <= 34 /\ TroubleInv /\ ErrorsAreEarned

\* The delays in ticks.  The two shortest vanish in pdMS_TO_TICKS.
LEMMA Delays ==
    ASSUME TickRate
    PROVE  /\ Elapsed(pdMS_TO_TICKS(SD_BACKOFF_MS[1])) = {0}
           /\ Elapsed(pdMS_TO_TICKS(SD_BACKOFF_MS[2])) = {0}
           /\ Elapsed(pdMS_TO_TICKS(SD_BACKOFF_MS[3])) = {1, 2}
           /\ Elapsed(pdMS_TO_TICKS(SD_BACKOFF_MS[4])) = {9, 10}
           /\ Elapsed(pdMS_TO_TICKS(SD_BACKOFF_MS[5])) = {24, 25}
BY DEF TickRate, Elapsed, pdMS_TO_TICKS, SD_BACKOFF_MS

\* A buffer the code thinks usable is one the driver takes.
LEMMA UsableIsTaken == \A r, a : usable_for_dma(r, a) => DriverTakes(r, a)
BY DEF usable_for_dma, DriverTakes, cacheable, esp_ptr_internal

\* What is left of a single disturbance after the delay before attempt t: too
\* little to reach the attempt after it, and nothing when it is the last.
LEMMA DelayOutlasts ==
    ASSUME TickRate, NEW t \in 0 .. 4, NEW b \in Nat, b <= Left[t + 1],
           NEW e \in Elapsed(pdMS_TO_TICKS(SD_BACKOFF_MS[t + 1])), Less(b, e) > 0
    PROVE  t < 4 /\ Less(b, e) <= Left[t + 2]
<1>1. CASE t = 0
  BY <1>1, Delays DEF Left, Less
<1>2. CASE t = 1
  BY <1>2, Delays DEF Left, Less
<1>3. CASE t = 2
  BY <1>3, Delays DEF Left, Less
<1>4. CASE t = 3
  BY <1>4, Delays DEF Left, Less
<1>5. CASE t = 4
  BY <1>5, Delays DEF Left, Less
<1> QED BY <1>1, <1>2, <1>3, <1>4, <1>5

\* sd_run begins: a card still deaf counts as the run's first disturbance.
LEMMA EnterRunBackoff ==
    ASSUME IndInv, BackoffInv, pc' = "run", try' = 0, busy' = busy,
           hits' = (IF busy > 0 THEN 1 ELSE 0), slow' = (busy > 0),
           ~bouncing' => usable_for_dma(req'.region, req'.aligned)
    PROVE  BackoffInv'
<1>1. busy \in Nat /\ busy <= 34
  BY DEF IndInv, TypeOK, TypeCard, BackoffInv
<1>2. TroubleInv'
  <2>1. CASE busy > 0
    <3>1. hits' = 1 /\ slow' = TRUE
      BY <2>1
    <3> QED BY <1>1, <3>1 DEF TroubleInv, Left
  <2>2. CASE ~(busy > 0)
    <3>1. hits' = 0 /\ busy' = 0
      BY <1>1, <2>2
    <3> QED BY <3>1 DEF TroubleInv
  <2> QED BY <2>1, <2>2
<1> QED BY <1>1, <1>2 DEF BackoffInv, ErrorsAreEarned

\* A disturbed attempt.
LEMMA DisturbedBackoff ==
    ASSUME TickRate, OutagesBounded, IndInv, BackoffInv, Disturbed
    PROVE  BackoffInv'
<1>1. /\ pc = "run" /\ Accepted /\ Again("TIMEOUT") /\ Accepted'
      /\ UNCHANGED <<s_bounce, req, bouncing>>
  BY DEF Disturbed, Accepted
<1>2. PICK e \in Elapsed(pdMS_TO_TICKS(SD_BACKOFF_MS[try + 1])) :
         IF Less(busy, e) > 0
           THEN busy' = Less(busy, e) /\ UNCHANGED <<hits, slow>>
           ELSE busy' \in Outages /\ hits' = hits + 1 /\ slow' = (slow \/ busy' > 0)
  BY DEF Disturbed
<1>3. /\ try \in 0 .. 4 /\ busy \in Nat /\ busy <= 34 /\ hits \in Nat
      /\ Less(busy, e) \in Nat /\ Less(busy, e) <= busy
  <2>1. try \in 0 .. 4 /\ busy \in Nat /\ busy <= 34 /\ hits \in Nat
    BY Tries DEF IndInv, TypeOK, TypeRun, TypeCard, TypeCounts, BackoffInv
  <2>2. e \in Nat
    BY <2>1, Tries, DelayIsNat
  <2> QED BY <2>1, <2>2 DEF Less
<1>4. /\ hits = 0 => try = 0 /\ busy = 0
      /\ hits = 1 => busy <= Left[try + 1]
      /\ ~slow => hits = try /\ busy = 0
      /\ ~bouncing => usable_for_dma(req.region, req.aligned)
  BY <1>1 DEF BackoffInv, TroubleInv
<1>5. /\ busy' \in Nat /\ busy' <= 34
      /\ hits' = 1 => try < 4 /\ busy' <= Left[try + 2]
      /\ hits' \in Nat /\ hits' > 0
      /\ ~slow' => hits' = try + 1 /\ busy' = 0
  <2>1. CASE Less(busy, e) > 0
    <3>1. busy' = Less(busy, e) /\ hits' = hits /\ slow' = slow /\ busy > 0
      BY <1>2, <1>3, <2>1
    <3>2. hits = 1 => try < 4 /\ Less(busy, e) <= Left[try + 2]
      BY <1>2, <1>3, <1>4, <2>1, DelayOutlasts
    <3> QED BY <1>3, <1>4, <3>1, <3>2
  <2>2. CASE ~(Less(busy, e) > 0)
    <3>1. busy' \in Outages /\ hits' = hits + 1 /\ slow' = (slow \/ busy' > 0)
      BY <1>2, <2>2
    <3>2. busy' \in Nat /\ busy' <= 34
      BY <3>1, SetAssumption DEF OutagesBounded
    <3>3. hits' = 1 => try = 0
      BY <1>3, <1>4, <3>1
    <3>4. ~slow' => hits' = try + 1 /\ busy' = 0
      <4>1. ~slow' => ~slow /\ ~(busy' > 0)
        BY <3>1, Zenon
      <4> QED BY <1>3, <1>4, <3>1, <3>2, <4>1
    <3> QED BY <1>3, <3>1, <3>2, <3>3, <3>4 DEF Left
  <2> QED BY <2>1, <2>2
<1>6. CASE try' = try + 1 /\ pc' = pc /\ try' \in 0 .. 4
  <2>1. TroubleInv'
    BY <1>1, <1>3, <1>4, <1>5, <1>6 DEF TroubleInv
  <2>2. ErrorsAreEarned'
    BY <1>1, <1>6 DEF ErrorsAreEarned
  <2> QED BY <1>5, <2>1, <2>2 DEF BackoffInv
<1>7. CASE try = 4 /\ pc' = "ret" /\ cause' = "TIMEOUT"
  <2>1. hits' >= 2 /\ (~slow' => hits' = SD_TRIES)
    BY <1>3, <1>5, <1>7, Tries
  <2>2. TroubleInv'
    BY <1>7 DEF TroubleInv
  <2>3. ErrorsAreEarned'
    BY <1>7, <2>1 DEF ErrorsAreEarned
  <2> QED BY <1>5, <2>2, <2>3 DEF BackoffInv
<1>8. \/ try' = try + 1 /\ pc' = pc /\ try' \in 0 .. 4
      \/ try = 4 /\ pc' = "ret" /\ cause' = "TIMEOUT"
  BY <1>1, <1>3, Tries DEF Again, Answer, worth_retrying
<1> QED BY <1>6, <1>7, <1>8

\* A refused attempt: the buffer is the bounce buffer, and there is no second attempt.
LEMMA RefusedBackoff ==
    ASSUME TickRate, IndInv, BackoffInv, Refused
    PROVE  BackoffInv'
<1>1. /\ pc = "run" /\ ~Accepted /\ Backoff /\ Again("NOT_SUPPORTED")
      /\ UNCHANGED <<s_bounce, bouncing>>
  BY DEF Refused, layer
<1>2. pc' = "ret" /\ cause' = "NOT_SUPPORTED" /\ try' = try
  BY <1>1 DEF Again, Answer, worth_retrying
<1>3. busy' <= 34
  <2>1. PICK e \in Elapsed(pdMS_TO_TICKS(SD_BACKOFF_MS[try + 1])) : busy' = Less(busy, e)
    BY <1>1 DEF Backoff
  <2>2. busy \in Nat /\ busy <= 34 /\ try \in 0 .. SD_TRIES - 1
    BY DEF IndInv, TypeOK, TypeCard, TypeRun, BackoffInv
  <2>3. e \in Nat
    BY <2>2, DelayIsNat
  <2> QED BY <2>1, <2>2, <2>3 DEF Less
<1>4. bouncing
  BY <1>1, UsableIsTaken DEF Accepted, BackoffInv, TroubleInv
<1>5. try = 0
  BY <1>1 DEF BackoffInv, TroubleInv, IndInv, TypeOK, TypeRun
<1>6. ~cacheable(s_bounce)
  BY <1>1, <1>4, UsableIsTaken DEF Accepted, usable_for_dma
<1>7. TroubleInv'
  BY <1>2 DEF TroubleInv
<1>8. ErrorsAreEarned'
  BY <1>1, <1>2, <1>4, <1>5, <1>6 DEF ErrorsAreEarned
<1> QED BY <1>3, <1>7, <1>8 DEF BackoffInv

\* The other steps begin a run, or leave sd_run with nothing to show.
LEMMA OtherBackoff ==
    ASSUME IndInv, BackoffInv,
           Install \/ Call \/ AllCarried \/ bounce_buffer \/ NoBounceMemory \/ Success \/ Return \/ Restart
    PROVE  BackoffInv'
<1>1. busy' <= 34
  <2>1. busy' \in {0, busy}
    BY DEF Install, Call, AllCarried, bounce_buffer, NoBounceMemory, Success, Return, Restart
  <2> QED BY <2>1 DEF BackoffInv
<1>2. pc' # "run"
  BY DEF Install, Call, AllCarried, Answer, bounce_buffer, NeedsBounce, NoBounceMemory, Success,
         Return, Restart, NoCall, IndInv, IInv, InService
<1>3. TroubleInv'
  BY <1>2 DEF TroubleInv
<1>4. ErrorsAreEarned'
  <2>1. CASE Install
    BY <2>1 DEF Install, ErrorsAreEarned, IndInv, IInv, InService
  <2>2. CASE NoBounceMemory
    BY <2>2 DEF NoBounceMemory, NeedsBounce, Answer, ErrorsAreEarned, layer
  <2>3. CASE AllCarried
    BY <2>3 DEF AllCarried, Answer, ErrorsAreEarned
  <2>4. CASE Call \/ bounce_buffer \/ Success \/ Return \/ Restart
    <3>1. pc' # "ret"
      BY <2>4 DEF Call, bounce_buffer, NeedsBounce, Success, Return, Restart, NoCall
    <3> QED BY <3>1 DEF ErrorsAreEarned
  <2> QED BY <2>1, <2>2, <2>3, <2>4
<1> QED BY <1>1, <1>3, <1>4 DEF BackoffInv

LEMMA NextBackoff ==
    ASSUME TickRate, OutagesBounded, IndInv, BackoffInv, [Next]_vars
    PROVE  BackoffInv'
<1>1. CASE Direct
  <2>1. /\ pc' = "run" /\ try' = 0 /\ busy' = busy /\ bouncing' = FALSE /\ req' = req
        /\ hits' = (IF busy > 0 THEN 1 ELSE 0) /\ slow' = (busy > 0)
        /\ usable_for_dma(req.region, req.aligned)
    BY <1>1 DEF Direct, EnterRun, caller
  <2> QED BY <2>1, EnterRunBackoff
<1>2. CASE Bounced
  <2>1. /\ pc' = "run" /\ try' = 0 /\ busy' = busy /\ bouncing' = TRUE
        /\ hits' = (IF busy > 0 THEN 1 ELSE 0) /\ slow' = (busy > 0)
    BY <1>2 DEF Bounced, EnterRun
  <2> QED BY <2>1, EnterRunBackoff
<1>3. CASE Disturbed
  BY <1>3, DisturbedBackoff
<1>4. CASE Refused
  BY <1>4, RefusedBackoff
<1>5. CASE UNCHANGED vars
  BY <1>5 DEF vars, layer, caller, run, trouble, BackoffInv, TroubleInv, ErrorsAreEarned, Accepted
<1> QED BY <1>1, <1>2, <1>3, <1>4, <1>5, OtherBackoff DEF Next, SdStep

\* No request fails for one disturbance, nor for fewer than five glitches in a row,
\* nor for a caller's buffer that lies in the wrong place.
THEOREM OneOutageSurvived ==
    ASSUME TickRate, OutagesBounded
    PROVE  Spec => []ErrorsAreEarned
<1>1. Init => BackoffInv
  BY DEF Init, BackoffInv, TroubleInv, ErrorsAreEarned
<1>2. IndInv /\ BackoffInv /\ [Next]_vars => BackoffInv'
  BY NextBackoff
<1>3. BackoffInv => ErrorsAreEarned
  BY DEF BackoffInv
<1> QED BY <1>1, <1>2, <1>3, Invariance, PTL DEF Spec
=============================================================================
