------------------------------ MODULE PageFlip -------------------------------
(***************************************************************************)
(* The page-flipping recipe of main/graceloader.h: an app with two frame   *)
(* buffers, the trampolines of main/display_callbacks.c, and the DPI       *)
(* driver, which scans the selected buffer again and again.  How the       *)
(* driver's callback relates to the restart of a refresh is taken from the *)
(* recipe's comment: the same interrupt before chip revision 3.0, a later  *)
(* one from then on, where the app waits for two callbacks.                *)
(***************************************************************************)
EXTENDS Integers

CONSTANTS Buffers,       \* frame buffers
          TimeoutFrames, \* refreshes within the 100 ms of one wait, at least
          SameCore       \* the app's task runs on the core of the interrupt

ASSUME PageFlipAssumption ==
  /\ TimeoutFrames \in Nat \ {0} /\ SameCore \in BOOLEAN
  /\ \A b \in Buffers : \E c \in Buffers : c # b

VARIABLES
  chip,          \* "old": below revision 3.0
  cur_fb,        \* the buffer that draw_bitmap has selected
  scanned,       \* the buffers being scanned out: one, or none
  due,           \* a refresh was restarted and its callback is still to come
  refresh_sem,   \* the binary semaphore is full
  cacheOn,       \* no flash operation is in progress
  refreshing,    \* the display is running
  pc, back,      \* where the app stands; the buffer it draws into
  waits,         \* callbacks the app still waits for
  frames         \* refreshes since the wait began, up to TimeoutFrames

appVars == <<pc, back, waits>>
driverVars == <<scanned, due, refreshing>>
vars == <<chip, cur_fb, refresh_sem, cacheOn, frames, appVars, driverVars>>

TypeOK ==
  /\ chip \in {"old", "new"} /\ cur_fb \in Buffers /\ back \in Buffers
  /\ \E b \in Buffers : scanned \in {{}, {b}}
  /\ due \in BOOLEAN /\ refresh_sem \in BOOLEAN
  /\ cacheOn \in BOOLEAN /\ refreshing \in BOOLEAN
  /\ pc \in {"draw", "select", "clear", "wait"}
  /\ waits \in 0..2 /\ frames \in 0..TimeoutFrames

Init ==
  /\ chip \in {"old", "new"} /\ cur_fb \in Buffers /\ back \in Buffers \ {cur_fb}
  /\ scanned = {cur_fb} /\ due = FALSE /\ refresh_sem = FALSE
  /\ cacheOn = TRUE /\ refreshing = TRUE
  /\ pc = "draw" /\ waits = 0 /\ frames = 0

-----------------------------------------------------------------------------
(* The app: its code is in PSRAM, it runs only with the cache               *)

Drawn ==
  /\ cacheOn /\ pc = "draw" /\ pc' = "select"
  /\ UNCHANGED <<chip, cur_fb, refresh_sem, cacheOn, frames, back, waits, driverVars>>

\* esp_lcd_panel_draw_bitmap with a frame buffer.
DrawBitmap ==
  /\ cacheOn /\ pc = "select" /\ pc' = "clear" /\ cur_fb' = back
  /\ UNCHANGED <<chip, refresh_sem, cacheOn, frames, back, waits, driverVars>>

\* Mutant: the semaphore is not cleared.
KeepOldGive ==
  /\ cacheOn /\ pc = "clear" /\ pc' = "wait" /\ UNCHANGED refresh_sem
  /\ waits' = (IF chip = "old" THEN 1 ELSE 2) /\ frames' = 0
  /\ UNCHANGED <<chip, cur_fb, cacheOn, back, driverVars>>

\* xSemaphoreTake(refresh_sem, 0)
DropOldGive ==
  /\ cacheOn /\ pc = "clear" /\ pc' = "wait" /\ refresh_sem' = FALSE
  /\ waits' = (IF chip = "old" THEN 1 ELSE 2) /\ frames' = 0
  /\ UNCHANGED <<chip, cur_fb, cacheOn, back, driverVars>>

\* Mutant: one wait too many.
EndedLate ==
  /\ frames' = 0 /\ waits' = waits - 1
  /\ IF waits = 0
     THEN pc' = "draw" /\ back' \in Buffers \ {cur_fb}
     ELSE UNCHANGED <<pc, back>>
  /\ UNCHANGED <<chip, cur_fb, cacheOn, driverVars>>

\* A wait has ended; after the last one the app draws into another buffer.
Ended ==
  /\ frames' = 0
  /\ IF waits = 1
     THEN pc' = "draw" /\ waits' = 0 /\ back' \in Buffers \ {cur_fb}
     ELSE waits' = waits - 1 /\ UNCHANGED <<pc, back>>
  /\ UNCHANGED <<chip, cur_fb, cacheOn, driverVars>>

\* xSemaphoreTake(refresh_sem, pdMS_TO_TICKS(100)): given, or the time has passed.
Taken == cacheOn /\ pc = "wait" /\ refresh_sem /\ refresh_sem' = FALSE /\ Ended

\* Mutant: the app waits for a callback however long it takes.
NoTimeout == FALSE /\ UNCHANGED vars
TimedOut ==
  /\ cacheOn /\ pc = "wait" /\ (frames = TimeoutFrames \/ ~refreshing)
  /\ UNCHANGED refresh_sem /\ Ended

-----------------------------------------------------------------------------
(* The driver and the trampoline                                            *)

\* The trampoline calls the app's callback, unless the cache is disabled.
OnRefreshDone == refresh_sem' = (refresh_sem \/ cacheOn)

\* The end of a refresh restarts it with the selected buffer; the callback comes
\* with it or, on later chips or seen from another core, after it.
Refresh ==
  /\ refreshing /\ ~due /\ scanned' = {cur_fb}
  /\ frames' = (IF frames < TimeoutFrames THEN frames + 1 ELSE frames)
  /\ IF chip = "old" /\ SameCore
     THEN OnRefreshDone /\ UNCHANGED due
     ELSE due' = TRUE /\ UNCHANGED refresh_sem
  /\ UNCHANGED <<chip, cur_fb, cacheOn, refreshing, appVars>>

Callback ==
  /\ due /\ due' = FALSE /\ OnRefreshDone
  /\ UNCHANGED <<chip, cur_fb, cacheOn, frames, scanned, refreshing, appVars>>

\* Flash operations, and a display that is stopped and started.
SwitchCache ==
  /\ cacheOn' = ~cacheOn
  /\ UNCHANGED <<chip, cur_fb, refresh_sem, frames, appVars, driverVars>>
SwitchDisplay ==
  /\ ~due /\ refreshing' = ~refreshing
  /\ scanned' = IF refreshing THEN {} ELSE {cur_fb}
  /\ UNCHANGED <<chip, cur_fb, refresh_sem, cacheOn, frames, due, appVars>>

AppStep == Drawn \/ DrawBitmap \/ DropOldGive \/ Taken \/ TimedOut
Next == AppStep \/ Refresh \/ Callback \/ SwitchCache \/ SwitchDisplay

Spec == Init /\ [][Next]_vars
FairSpec == /\ Spec /\ SF_vars(AppStep) /\ WF_vars(Callback)
            /\ SF_vars(Refresh) /\ WF_vars(~cacheOn /\ SwitchCache)

-----------------------------------------------------------------------------
(* Properties                                                               *)

\* The buffer the app draws into is not on its way to the screen, through flash
\* operations, stops of the display and timeouts (graceloader.h, "the old buffer
\* is free now").
NoTearing == pc \in {"draw", "select"} => back \notin scanned

\* Every flip ends, also when the display is not refreshing at all
\* (graceloader.h, "Still wait with a timeout").
FlipEnds == pc \in {"clear", "wait"} ~> pc = "draw"
=============================================================================
