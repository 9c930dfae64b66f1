------------------------------ MODULE SdRetry ------------------------------
(***************************************************************************)
(* main/sdcard_retry.c: the FatFs disk layer that retries a disturbed      *)
(* transaction after an escalating backoff, and carries a buffer the DMA   *)
(* engine cannot use through a bounce buffer, in pieces.                   *)
(*                                                                         *)
(* FatFs holds its volume lock around every call of the layer, so one      *)
(* request is in flight at a time (s_bounce and the counters have no lock  *)
(* of their own).  A sector is the unit of the card: an attempt that fails *)
(* has carried any subset of its sectors.  Time is counted in FreeRTOS     *)
(* ticks and passes in vTaskDelay only.                                    *)
(***************************************************************************)
EXTENDS Integers, Sequences

CONSTANTS
    NumSectors,      \* the card's capacity (csd.capacity)
    Data,            \* what a sector can hold
    BOUNCE_SECTORS,  \* sectors in the bounce buffer; 16 in the source
    MaxCount,        \* bound: sectors in one request
    Regions,         \* where a caller's buffer may lie, a subset of Region
    BounceRegions,   \* where heap_caps_aligned_alloc may put the bounce buffer
    Outages,         \* ticks the card may stay deaf after a disturbed transaction
    TickHz,          \* CONFIG_FREERTOS_HZ
    MaxOps           \* bound: requests since boot

Region == {"internal", "psram", "flash", "spm", "lpram"}
NoBounce == "none"

ASSUME SizeAssumption ==
    /\ NumSectors \in Nat \ {0} /\ BOUNCE_SECTORS \in Nat \ {0}
    /\ MaxCount \in Nat \ {0} /\ MaxOps \in Nat /\ TickHz \in Nat \ {0}
ASSUME SetAssumption ==
    /\ Data # {} /\ Outages \subseteq Nat
    /\ Regions \subseteq Region /\ BounceRegions \subseteq Region

Sectors == 0 .. NumSectors - 1

\* A request of FatFs, and the buffer it came with.
Request ==
    { r \in [write : BOOLEAN, first : Sectors, count : 1 .. MaxCount,
             region : Regions, aligned : BOOLEAN] :
        /\ r.first + r.count <= NumSectors
        /\ r.region = "flash" => r.write }

VARIABLES
    s_card,      \* TRUE once s_card points at the card
    registered,  \* TRUE once FatFs calls this layer instead of IDF's
    s_bounce,    \* where the bounce buffer lies, or NoBounce
    bmem,        \* its contents, one element per sector
    s_retried, s_failed, s_bounced,   \* the counters of sdcard_retry_stats
    disk,        \* the card's sectors
    busy,        \* ticks for which the card stays deaf
    req, mem,    \* the request in progress and the caller's buffer
    pc,          \* "idle", "loop" and "run" (sd_transfer, sd_run), "ret"
    done, n,     \* sectors carried; sectors of the current piece
    bouncing,    \* TRUE if the current piece goes through the bounce buffer
    try,         \* index of the next attempt of sd_run
    result,      \* what sd_transfer returned
    hits,        \* history: disturbances that began during this sd_run ...
    slow,        \* ... and whether one of them left the card deaf for a while
    ops,         \* history: requests accepted since boot
    cause        \* history: why the last request failed

layer == <<s_card, registered, s_bounce, bmem>>
counters == <<s_retried, s_failed, s_bounced>>
caller == <<req, mem, ops>>
run == <<done, n, bouncing, try>>
trouble == <<hits, slow>>
vars == <<layer, counters, disk, busy, caller, pc, run, result, trouble, cause>>

-----------------------------------------------------------------------------
(* Delays and buffers *)

EvenBackoff == <<0, 5, 5, 5, 5>>   \* mutant: a fixed 5 ms, which a busy card outlasts
SD_BACKOFF_MS == <<0, 2, 20, 100, 250>>
SD_TRIES == Len(SD_BACKOFF_MS)

\* pdMS_TO_TICKS rounds down: 2 ms is no tick at all at 100 Hz.
pdMS_TO_TICKS(ms) == (ms * TickHz) \div 1000

\* vTaskDelay(k) returns at the k-th tick interrupt, and the first of them may
\* be about to happen.
Elapsed(k) == IF k = 0 THEN {0} ELSE {k - 1, k}

esp_ptr_internal(r) == r \in {"internal", "spm", "lpram"}

cacheable(r) == r = "psram" \/ (r \notin {"spm", "lpram"} /\ esp_ptr_internal(r))

\* Every length is a multiple of 512 bytes, so only the address can be out of line.
usable_for_dma(r, aligned) == cacheable(r) /\ aligned

\* What esp_cache_msync and the alignment check of the host driver accept.
DriverTakes(r, aligned) == aligned /\ r \in {"internal", "psram", "flash"}

worth_retrying(err) == err # "NOT_SUPPORTED"

Least(a, b) == IF a < b THEN a ELSE b
Less(a, b) == IF a < b THEN 0 ELSE a - b

\* What an array may hold after some of the writes of new over old happened.
Partly(old, new) ==
    { [i \in DOMAIN old |-> IF i \in S THEN new[i] ELSE old[i]] : S \in SUBSET DOMAIN new }

\* Sector i of the buffer the transaction runs on.
Buffer(i) == IF bouncing THEN bmem[i] ELSE mem[done + i]

\* Mutant: the sector number does not follow the piece.
SentToFirst == [s \in req.first .. req.first + n - 1 |-> Buffer(s - req.first)]

\* The sectors a write transaction carries to the card ...
Sent == [s \in req.first + done .. req.first + done + n - 1 |-> Buffer(s - req.first - done)]
\* ... and what a read transaction brings into a buffer whose piece begins at base.
Brought(base) == [i \in base .. base + n - 1 |-> disk[req.first + done + i - base]]

\* f with the elements of g in place of its own.
Overlay(f, g) == [i \in DOMAIN f |-> IF i \in DOMAIN g THEN g[i] ELSE f[i]]

\* Mutant: the copy does not follow the piece.
CopiedInStart(from, k) == Overlay(bmem, [i \in 0 .. k - 1 |-> mem[i]])

\* memcpy(b, at, n): the piece of the caller's buffer that begins at from.
CopiedIn(from, k) == Overlay(bmem, [i \in 0 .. k - 1 |-> mem[from + i]])
-----------------------------------------------------------------------------

Init ==
    /\ s_card = FALSE /\ registered = FALSE /\ s_bounce = NoBounce
    /\ bmem = <<>>
    /\ s_retried = 0 /\ s_failed = 0 /\ s_bounced = 0
    /\ disk \in [Sectors -> Data]
    /\ busy = 0
    /\ req = <<>> /\ mem = <<>> /\ ops = 0
    /\ pc = "idle"
    /\ done = 0 /\ n = 0 /\ bouncing = FALSE /\ try = 0
    /\ result = "OK"
    /\ hits = 0 /\ slow = FALSE /\ cause = "none"

\* sdcard_install_retrying_diskio; without a drive number IDF's layer stays.
Install ==
    /\ ~s_card /\ s_card' = TRUE
    /\ \E found \in BOOLEAN : registered' = found
    /\ UNCHANGED <<s_bounce, bmem, counters, disk, busy, caller, pc, run, result, trouble, cause>>

sd_status == IF s_card THEN "ready" ELSE "NOINIT"

\* FatFs calls sd_read or sd_write.  Time has passed since its last call.
Call ==
    /\ pc = "idle" /\ registered /\ sd_status = "ready" /\ ops < MaxOps
    /\ \E r \in Request :
          /\ req' = r
          /\ mem' \in [0 .. r.count - 1 -> Data]
    /\ ops' = ops + 1
    /\ busy' \in {0, busy}
    /\ done' = 0 /\ pc' = "loop"
    /\ UNCHANGED <<layer, counters, disk, n, bouncing, try, result, trouble, cause>>

\* The end of a call: sd_transfer returns to FatFs.
Answer(res, why) ==
    /\ result' = res /\ cause' = why /\ pc' = "ret"
    /\ s_failed' = IF res = "ERROR" THEN s_failed + 1 ELSE s_failed

\* sd_run begins on k sectors; a card still deaf is a disturbance of this run.
EnterRun(k) ==
    /\ n' = k /\ try' = 0 /\ pc' = "run"
    /\ hits' = (IF busy > 0 THEN 1 ELSE 0) /\ slow' = (busy > 0)

AllCarried ==
    /\ pc = "loop" /\ done >= req.count
    /\ Answer("OK", "none")
    /\ UNCHANGED <<layer, s_retried, s_bounced, disk, busy, caller, run, trouble>>

Direct ==
    /\ pc = "loop" /\ done < req.count
    /\ usable_for_dma(req.region, req.aligned)
    /\ bouncing' = FALSE
    /\ EnterRun(req.count - done)
    /\ UNCHANGED <<layer, counters, disk, busy, caller, done, result, cause>>

NeedsBounce == pc = "loop" /\ done < req.count /\ ~usable_for_dma(req.region, req.aligned)

\* bounce_buffer: allocated on first need and kept for ever.
bounce_buffer ==
    /\ NeedsBounce /\ s_bounce = NoBounce
    /\ s_bounce' \in BounceRegions
    /\ bmem' \in [0 .. BOUNCE_SECTORS - 1 -> Data]
    /\ UNCHANGED <<s_card, registered, counters, disk, busy, caller, pc, run, result, trouble, cause>>

NoBounceMemory ==
    /\ NeedsBounce /\ s_bounce = NoBounce
    /\ Answer("ERROR", "no memory")
    /\ UNCHANGED <<layer, s_retried, s_bounced, disk, busy, caller, run, trouble>>

Bounced ==
    /\ NeedsBounce /\ s_bounce # NoBounce
    /\ bouncing' = TRUE /\ s_bounced' = s_bounced + 1
    /\ LET k == Least(req.count - done, BOUNCE_SECTORS) IN
          /\ EnterRun(k)
          /\ bmem' = IF req.write THEN CopiedIn(done, k) ELSE bmem
    /\ UNCHANGED <<s_card, registered, s_bounce, s_retried, s_failed, disk, busy, caller, done, result, cause>>

\* The delay before attempt number try: the card has busy' ticks left when it comes.
Backoff == \E e \in Elapsed(pdMS_TO_TICKS(SD_BACKOFF_MS[try + 1])) : busy' = Less(busy, e)

Accepted == IF bouncing THEN DriverTakes(s_bounce, TRUE) ELSE DriverTakes(req.region, req.aligned)

\* Mutant: only the bounced branch counts what it carried.
DoneIfBounced == IF bouncing THEN done + n ELSE done

\* done += n
DoneAfter == done + n

\* An attempt that works: the whole piece moves, and a read leaves the bounce buffer.
Success ==
    /\ pc = "run" /\ Accepted
    /\ Backoff /\ busy' = 0
    /\ IF req.write
         THEN disk' = Overlay(disk, Sent) /\ UNCHANGED <<mem, bmem>>
         ELSE /\ mem' = Overlay(mem, Brought(done))
              /\ bmem' = IF bouncing THEN Overlay(bmem, Brought(0)) ELSE bmem
              /\ UNCHANGED disk
    /\ s_retried' = IF try > 0 THEN s_retried + 1 ELSE s_retried
    /\ done' = DoneAfter /\ pc' = "loop"
    /\ UNCHANGED <<s_card, registered, s_bounce, s_failed, s_bounced, req, ops,
                   n, bouncing, try, result, trouble, cause>>

\* Mutant: one attempt more than the table of delays has entries.
OneMore(err) ==
    IF worth_retrying(err) /\ try < SD_TRIES
      THEN try' = try + 1 /\ UNCHANGED <<s_failed, pc, result, cause>>
      ELSE UNCHANGED try /\ Answer("ERROR", err)

\* After a failed attempt sd_run goes round again or gives up.
Again(err) ==
    IF worth_retrying(err) /\ try + 1 < SD_TRIES
      THEN try' = try + 1 /\ UNCHANGED <<s_failed, pc, result, cause>>
      ELSE UNCHANGED try /\ Answer("ERROR", err)

\* RTO, DTO or EBE: the attempt meets a deaf card or is disturbed itself, and
\* some of its sectors have moved all the same.
Disturbed ==
    /\ pc = "run" /\ Accepted
    /\ \E e \in Elapsed(pdMS_TO_TICKS(SD_BACKOFF_MS[try + 1])) :
          IF Less(busy, e) > 0
            THEN busy' = Less(busy, e) /\ UNCHANGED <<hits, slow>>
            ELSE /\ busy' \in Outages
                 /\ hits' = hits + 1 /\ slow' = (slow \/ busy' > 0)
    /\ IF req.write
         THEN disk' \in Partly(disk, Sent) /\ UNCHANGED <<mem, bmem>>
         ELSE IF bouncing
                THEN bmem' \in Partly(bmem, Brought(0)) /\ UNCHANGED <<mem, disk>>
                ELSE mem' \in Partly(mem, Brought(done)) /\ UNCHANGED <<bmem, disk>>
    /\ Again("TIMEOUT")
    /\ UNCHANGED <<s_card, registered, s_bounce, s_retried, s_bounced, req, ops, done, n, bouncing>>

\* ESP_ERR_NOT_SUPPORTED: the buffer is refused before the card is asked.
Refused ==
    /\ pc = "run" /\ ~Accepted
    /\ Backoff
    /\ Again("NOT_SUPPORTED")
    /\ UNCHANGED <<layer, s_retried, s_bounced, disk, caller, done, n, bouncing, trouble>>

\* The locals and the caller's arguments, once no call is in progress.
NoCall ==
    /\ pc' = "idle" /\ req' = <<>> /\ mem' = <<>>
    /\ done' = 0 /\ n' = 0 /\ bouncing' = FALSE /\ try' = 0
    /\ result' = "OK" /\ hits' = 0 /\ slow' = FALSE /\ cause' = "none"

\* FatFs takes the answer.
Return ==
    /\ pc = "ret" /\ NoCall
    /\ UNCHANGED <<layer, counters, disk, busy, ops>>

\* A reset or a power cut: only the card's sectors survive.
Restart ==
    /\ s_card
    /\ s_card' = FALSE /\ registered' = FALSE /\ s_bounce' = NoBounce /\ bmem' = <<>>
    /\ s_retried' = 0 /\ s_failed' = 0 /\ s_bounced' = 0
    /\ busy' = 0 /\ ops' = 0 /\ NoCall
    /\ UNCHANGED disk

SdStep ==
    \/ AllCarried \/ Direct \/ bounce_buffer \/ NoBounceMemory \/ Bounced
    \/ Success \/ Disturbed \/ Refused

Next == Install \/ Call \/ SdStep \/ Return \/ Restart

Spec == Init /\ [][Next]_vars

\* The calling task keeps running, and every SDMMC transaction ends.
FairSpec == Spec /\ WF_vars(SdStep)
-----------------------------------------------------------------------------
(* Properties *)

TypeFlags == {s_card, registered, bouncing, slow} \subseteq BOOLEAN
TypeBounce ==
    /\ s_bounce \in BounceRegions \cup {NoBounce}
    /\ s_bounce # NoBounce => bmem \in [0 .. BOUNCE_SECTORS - 1 -> Data]
TypeCounts == {s_retried, s_failed, s_bounced, hits} \subseteq Nat /\ ops \in 0 .. MaxOps
TypeCard == disk \in [Sectors -> Data] /\ busy \in Nat
TypeCall ==
    /\ pc \in {"idle", "loop", "run", "ret"}
    /\ pc # "idle" => req \in Request /\ mem \in [0 .. req.count - 1 -> Data]
TypeRun == done \in Nat /\ n \in Nat /\ try \in 0 .. SD_TRIES - 1
TypeAnswer ==
    result \in {"OK", "ERROR"} /\ cause \in {"none", "no memory", "TIMEOUT", "NOT_SUPPORTED"}

\* The types of the variables; bmem and the request exist only while they are in use.
TypeOK == TypeFlags /\ TypeBounce /\ TypeCounts /\ TypeCard /\ TypeCall /\ TypeRun /\ TypeAnswer

\* The first i sectors of the request are the same on the card and in the caller's buffer.
Carried(i) == \A j \in 0 .. i - 1 : mem[j] = disk[req.first + j]

\* A request is served only by an installed layer, and never runs past its end.
InService ==
    /\ registered => s_card
    /\ pc # "idle" => registered /\ done <= req.count

\* What the layer counts as done has been carried, and OK is the answer for all of it.
DoneIsCarried ==
    /\ pc \in {"loop", "run"} => Carried(done)
    /\ pc = "ret" /\ result = "OK" => Carried(req.count)

\* While a piece runs it fits the request and the buffer it runs on, and however
\* often it has been tried the bounce buffer still holds the caller's sectors.
PieceFits ==
    pc = "run" =>
        /\ n > 0 /\ done + n <= req.count
        /\ bouncing => s_bounce # NoBounce /\ n <= BOUNCE_SECTORS
        /\ bouncing /\ req.write => \A i \in 0 .. n - 1 : bmem[i] = mem[done + i]

\* sd_transfer answers RES_OK only for sectors that are all carried, through any
\* sequence of pieces, failed attempts, partial transfers and retries.
IInv == InService /\ DoneIsCarried /\ PieceFits

\* sd_transfer fails only when it must.  The buffer of the caller is never
\* refused, only a bounce buffer the driver cannot use, and that at the first
\* attempt; glitches alone fail a request only by spoiling all five attempts; and
\* one disturbance, however long the card then stays deaf (up to the largest of
\* Outages), fails none: the backoff outlasts it, rounding of ticks included.
ErrorsAreEarned ==
    pc = "ret" /\ result = "ERROR" =>
        CASE cause = "no memory"     -> s_bounce = NoBounce
          [] cause = "NOT_SUPPORTED" -> bouncing /\ ~cacheable(s_bounce) /\ try = 0
          [] cause = "TIMEOUT"       -> hits >= 2 /\ (~slow => hits = SD_TRIES)

\* The layer is the block device FatFs expects: no sector outside a request is ever
\* written, an acknowledged request is carried whole, and a failed or interrupted
\* one leaves each sector old or new.
Device == INSTANCE BlockDevice WITH
    Requests <- Request,
    phase <- IF pc = "idle" THEN "idle" ELSE IF pc = "ret" THEN "done" ELSE "busy"
DeviceSpec == Device!Spec

\* Every request FatFs makes is answered (or the badge restarts): the pieces and
\* the attempts of sd_transfer come to an end.
Answered == pc \in {"loop", "run"} ~> pc \in {"ret", "idle"}
=============================================================================
