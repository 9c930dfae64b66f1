--------------------------- MODULE PageFlip_proofs ---------------------------
(***************************************************************************)
(* Proofs about PageFlip, for any number of frame buffers and any length   *)
(* of the waits.                                                           *)
(***************************************************************************)
EXTENDS PageFlip, TLAPS

\* The wait that Ended counts down has not been counted down already.
WaitsLeft == pc = "wait" => waits \in {1, 2}

TInv == TypeOK /\ WaitsLeft

\* One callback is enough when it comes in the interrupt that restarts the
\* refresh, two are always.
Covered == SameCore \/ chip = "new"

\* Nothing but the selected buffer is on its way to the screen.
Shown == scanned \subseteq {cur_fb}

\* While the app draws, it has the other buffer to itself.
Free == pc \in {"draw", "select"} => back # cur_fb /\ back \notin scanned

\* A stopped display scans nothing, and an old chip's callback is never due.
Driver ==
  /\ ~refreshing => scanned = {}
  /\ chip = "old" => ~due

\* What says during the wait that the selection has been taken over: a refresh
\* since it began; before the last wait a callback, had or to come; before the
\* first of two waits one of each.
Evidence ==
  pc = "wait" =>
    /\ frames > 0 => Shown
    /\ waits = 1 /\ (due \/ refresh_sem) => Shown
    /\ waits = 2 /\ due /\ refresh_sem => Shown

FlipInv == Free /\ Driver /\ Evidence

IInv == TInv /\ (Covered => FlipInv)

-----------------------------------------------------------------------------
(* Types                                                                    *)

LEMMA TypeInit == Init => TInv
<1> SUFFICES ASSUME Init PROVE TInv
  OBVIOUS
<1>1. waits \in 0..2 /\ frames \in 0..TimeoutFrames
  BY PageFlipAssumption DEF Init
<1>2. scanned \in {{}, {cur_fb}} /\ due \in BOOLEAN /\ refresh_sem \in BOOLEAN
  BY DEF Init
<1> QED BY <1>1, <1>2 DEF Init, TInv, TypeOK, WaitsLeft

\* The end of a wait, whatever ended it, keeps the types.
LEMMA TypeEnded ==
  ASSUME TInv, pc = "wait", refresh_sem' \in BOOLEAN, Ended
  PROVE  TInv'
<1>1. waits \in {1, 2} /\ 0 \in 0..TimeoutFrames
  BY PageFlipAssumption DEF TInv, WaitsLeft
<1>2. waits' \in 0..2 /\ pc' \in {"draw", "wait"} /\ back' \in Buffers
  BY <1>1 DEF Ended, TInv, TypeOK
<1>3. pc' = "wait" => waits' \in {1, 2}
  BY <1>1 DEF Ended
<1> QED BY <1>1, <1>2, <1>3 DEF Ended, driverVars, TInv, TypeOK, WaitsLeft

LEMMA TypeNext == TInv /\ [Next]_vars => TInv'
<1> SUFFICES ASSUME TInv, [Next]_vars PROVE TInv'
  OBVIOUS
<1>1. CASE Drawn
  BY <1>1 DEF Drawn, driverVars, TInv, TypeOK, WaitsLeft
<1>2. CASE DrawBitmap
  BY <1>2 DEF DrawBitmap, driverVars, TInv, TypeOK, WaitsLeft
<1>3. CASE DropOldGive
  <2>1. waits' \in {1, 2} /\ waits' \in 0..2 /\ frames' \in 0..TimeoutFrames
    BY <1>3, PageFlipAssumption DEF DropOldGive
  <2>2. refresh_sem' \in BOOLEAN /\ cacheOn' \in BOOLEAN
    BY <1>3 DEF DropOldGive, TInv, TypeOK
  <2> QED BY <1>3, <2>1, <2>2 DEF DropOldGive, driverVars, TInv, TypeOK, WaitsLeft
<1>4. CASE Taken
  BY <1>4, TypeEnded DEF Taken
<1>5. CASE TimedOut
  BY <1>5, TypeEnded DEF TimedOut, TInv, TypeOK
<1>6. CASE Refresh
  <2>1. frames' \in 0..TimeoutFrames
    BY <1>6, PageFlipAssumption DEF Refresh, TInv, TypeOK
  <2>2. due' \in BOOLEAN /\ refresh_sem' \in BOOLEAN
    BY <1>6 DEF Refresh, OnRefreshDone, TInv, TypeOK
  <2> QED BY <1>6, <2>1, <2>2 DEF Refresh, appVars, TInv, TypeOK, WaitsLeft
<1>7. CASE Callback
  BY <1>7 DEF Callback, OnRefreshDone, appVars, TInv, TypeOK, WaitsLeft
<1>8. CASE SwitchCache
  BY <1>8 DEF SwitchCache, appVars, driverVars, TInv, TypeOK, WaitsLeft
<1>9. CASE SwitchDisplay
  BY <1>9 DEF SwitchDisplay, appVars, TInv, TypeOK, WaitsLeft
<1>10. CASE UNCHANGED vars
  BY <1>10 DEF vars, appVars, driverVars, TInv, TypeOK, WaitsLeft
<1> QED BY <1>1, <1>2, <1>3, <1>4, <1>5, <1>6, <1>7, <1>8, <1>9, <1>10 DEF Next, AppStep

\* The recipe never counts a wait too many, on any chip and from any core.
THEOREM FlipStateIsTyped == Spec => []TypeOK
<1>1. TInv => TypeOK
  BY DEF TInv
<1> QED BY <1>1, TypeInit, TypeNext, PTL DEF Spec

-----------------------------------------------------------------------------
(* Tearing                                                                  *)

LEMMA FlipInit == Init => FlipInv
BY DEF Init, FlipInv, Free, Driver, Evidence

\* When a wait ends, the other buffer is free, or what is known of the first
\* wait is enough for the second.
LEMMA FlipEnded ==
  ASSUME TInv, FlipInv, pc = "wait", Ended,
         waits = 1 => Shown,
         waits = 2 => ((due \/ refresh_sem') => Shown)
  PROVE  FlipInv'
<1>1. waits \in {1, 2}
  BY DEF TInv, WaitsLeft
<1>2. Driver' /\ (Shown <=> Shown')
  BY DEF Ended, driverVars, FlipInv, Driver, Shown
<1>3. CASE waits = 1
  <2>1. pc' = "draw" /\ back' # cur_fb' /\ back' \notin scanned'
    BY <1>3 DEF Ended, driverVars, Shown
  <2> QED BY <2>1, <1>2 DEF FlipInv, Free, Evidence
<1>4. CASE waits = 2
  <2>1. pc' = "wait" /\ waits' = 1 /\ frames' = 0 /\ due' = due
    BY <1>4 DEF Ended, driverVars
  <2> QED BY <1>4, <2>1, <1>2 DEF FlipInv, Free, Evidence
<1> QED BY <1>1, <1>3, <1>4

\* The recipe itself: the callbacks waited for cannot all be older than the
\* selection.
LEMMA FlipNext == TInv /\ Covered /\ FlipInv /\ [Next]_vars => FlipInv'
<1> SUFFICES ASSUME TInv, Covered, FlipInv, [Next]_vars PROVE FlipInv'
  OBVIOUS
<1>1. CASE Drawn
  BY <1>1 DEF Drawn, driverVars, FlipInv, Free, Driver, Evidence
<1>2. CASE DrawBitmap
  BY <1>2 DEF DrawBitmap, driverVars, FlipInv, Free, Driver, Evidence
<1>3. CASE DropOldGive
  <2>1. pc' = "wait" /\ frames' = 0 /\ refresh_sem' = FALSE /\ Driver'
    BY <1>3 DEF DropOldGive, driverVars, FlipInv, Driver
  <2>2. waits' = 1 => ~due'
    BY <1>3 DEF DropOldGive, driverVars, FlipInv, Driver
  <2> QED BY <2>1, <2>2 DEF FlipInv, Free, Evidence
<1>4. CASE Taken
  <2>1. waits = 1 => Shown
    BY <1>4 DEF Taken, FlipInv, Evidence
  <2>2. waits = 2 => ((due \/ refresh_sem') => Shown)
    BY <1>4 DEF Taken, FlipInv, Evidence
  <2> QED BY <1>4, <2>1, <2>2, FlipEnded DEF Taken
<1>5. CASE TimedOut
  <2>1. Shown
    BY <1>5, PageFlipAssumption DEF TimedOut, FlipInv, Driver, Evidence, Shown
  <2> QED BY <1>5, <2>1, FlipEnded DEF TimedOut
<1>6. CASE Refresh
  <2>1. Shown' /\ Free'
    BY <1>6 DEF Refresh, appVars, Shown, FlipInv, Free
  <2>2. Driver'
    BY <1>6 DEF Refresh, Covered, FlipInv, Driver
  <2> QED BY <2>1, <2>2 DEF FlipInv, Evidence
<1>7. CASE Callback
  <2>1. Free' /\ Driver'
    BY <1>7 DEF Callback, appVars, FlipInv, Free, Driver
  <2>2. due /\ ~due' /\ (Shown <=> Shown')
    BY <1>7 DEF Callback, Shown
  <2> QED BY <1>7, <2>1, <2>2 DEF Callback, appVars, FlipInv, Evidence
<1>8. CASE SwitchCache
  BY <1>8 DEF SwitchCache, appVars, driverVars, FlipInv, Free, Driver, Evidence, Shown
<1>9. CASE SwitchDisplay
  BY <1>9 DEF SwitchDisplay, appVars, FlipInv, Free, Driver, Evidence, Shown
<1>10. CASE UNCHANGED vars
  BY <1>10 DEF vars, appVars, driverVars, FlipInv, Free, Driver, Evidence, Shown
<1> QED BY <1>1, <1>2, <1>3, <1>4, <1>5, <1>6, <1>7, <1>8, <1>9, <1>10 DEF Next, AppStep

\* An app that follows the recipe never draws into a buffer on its way to the
\* screen, on later chips from any core, on old ones from the interrupt's core,
\* however often flash operations skip a callback, the display stops or a wait
\* times out.
THEOREM RecipeNeverTears == Spec => [](Covered => NoTearing)
<1>1. Init => IInv
  BY TypeInit, FlipInit DEF IInv
<1>2. IInv /\ [Next]_vars => IInv'
  <2> SUFFICES ASSUME IInv, [Next]_vars PROVE IInv'
    OBVIOUS
  <2>1. chip' = chip
    BY DEF Next, AppStep, Drawn, DrawBitmap, DropOldGive, Taken, TimedOut, Ended,
           Refresh, Callback, SwitchCache, SwitchDisplay, vars
  <2>2. Covered' => Covered
    BY <2>1 DEF Covered
  <2> QED BY <2>2, TypeNext, FlipNext DEF IInv
<1>3. IInv => (Covered => NoTearing)
  BY DEF IInv, FlipInv, Free, NoTearing
<1> QED BY <1>1, <1>2, <1>3, PTL DEF Spec
=============================================================================
