-------------------------- MODULE DisplayCallbacks --------------------------
(***************************************************************************)
(* main/display_callbacks.c: the BSP's and the app's callbacks share the   *)
(* one callback slot of the DPI driver through trampolines in IRAM.  A     *)
(* registration stores its set under the lock; apply_callbacks then reads  *)
(* both sets without it and writes the driver's slot.  The trampolines run *)
(* in an interrupt that a disabled cache does not stop, possibly on        *)
(* another core than the tasks: they copy under the lock and call what     *)
(* they copied after it.                                                   *)
(***************************************************************************)
EXTENDS Naturals

CONSTANTS
    Tasks,        \* tasks that register callbacks
    Callbacks,    \* callbacks, each with the context it is registered with
    AppCallbacks, \* those an app registers
    IramCode,     \* those whose code is in IRAM
    InternalCtx,  \* those whose context is NULL or in internal RAM
    NULL,
    BspOnce       \* TRUE: the BSP registers once, as bsp_device_initialize does

ASSUME DisplayAssumption ==
    /\ {AppCallbacks, IramCode, InternalCtx} \subseteq SUBSET Callbacks
    /\ NULL \notin Callbacks \cup Tasks /\ BspOnce \in BOOLEAN

Kinds == {"on_color_trans_done", "on_refresh_done"}
Fields == Kinds \cup {"user_ctx"}
Parts == {"primary", "app"}
Stores == Fields \cup {"dpi_panel"}

\* callback_set_t: callback c for some of the kinds, and its context.
Set(c, kinds) == [f \in Fields |-> IF f \in kinds \cup {"user_ctx"} THEN c ELSE NULL]
Unset == [f \in Fields |-> NULL]
SetsOf(S) == {Unset} \cup {Set(c, kinds) : c \in S, kinds \in SUBSET Kinds}
Sets == SetsOf(Callbacks)

VARIABLES
    primary,    \* primary_callbacks
    app,        \* app_callbacks
    dpi_panel,  \* it is not NULL
    callbacks_lock,  \* Free; or the task that has it, and what it stores where and has left
    slot,       \* the driver's slot: for which kinds a trampoline is registered
    cacheOn,    \* spi_flash_cache_enabled()
    pc,         \* per task: "idle", "store" under the lock, "apply" in apply_callbacks,
                \* "register" before the driver's call
    unread,     \* per task: callbacks that apply_callbacks has not read yet
    need,       \* per task: kinds that it found wanted
    isr,        \* the interrupt: its step, and the callbacks it copied
    loaded,     \* the app's code is in memory
    served,     \* history: a registration has reached the driver
    calm,       \* history: none was in progress when the BSP's latest began
    alone,      \* history: none was in progress when the latest began
    overtaken   \* history: the cache has gone off since the interrupt's check of it

sets == <<primary, app, dpi_panel, callbacks_lock>>
task == <<pc, unread, need>>
history == <<served, calm, alone>>
vars == <<sets, slot, cacheOn, task, isr, loaded, history, overtaken>>

Free == [owner |-> NULL]
IsrIdle == [step |-> "idle"]

Init ==
    /\ primary = Unset /\ app = Unset /\ dpi_panel = FALSE /\ callbacks_lock = Free
    /\ slot = {} /\ cacheOn = TRUE /\ loaded = TRUE
    /\ pc = [t \in Tasks |-> "idle"]
    /\ unread = [t \in Tasks |-> {}] /\ need = [t \in Tasks |-> {}]
    /\ isr = IsrIdle
    /\ served = FALSE /\ calm = TRUE /\ alone = TRUE /\ overtaken = FALSE
-----------------------------------------------------------------------------
(* Registration, in a task; tasks do not run while the cache is disabled. *)

\* Mutant: the context is not checked, nor the code of callbacks.
AnyMemory(s) == TRUE

\* The checks of the driver and of the wrapper: a call they refuse changes nothing.
Placed(s) ==
    /\ \A k \in Kinds : s[k] # NULL => s[k] \in IramCode
    /\ s["user_ctx"] # NULL => s["user_ctx"] \in InternalCtx

OthersIdle(t) == \A u \in Tasks \ {t} : pc[u] = "idle"

\* A registration takes the lock, as soon as no one else has it.
Enter(t, which, s, stores) ==
    /\ cacheOn /\ pc[t] = "idle" /\ callbacks_lock = Free
    /\ callbacks_lock' = [owner |-> t, which |-> which, new |-> s, left |-> stores]
    /\ pc' = [pc EXCEPT ![t] = "store"] /\ alone' = OthersIdle(t)
    /\ UNCHANGED <<primary, app, dpi_panel, slot, cacheOn, unread, need, isr, loaded, served, overtaken>>

\* __wrap_esp_lcd_dpi_panel_register_event_callbacks: the BSP's registration.
RegisterPrimary(t, s) ==
    /\ Placed(s) /\ (BspOnce => ~dpi_panel)
    /\ Enter(t, "primary", s, Stores) /\ calm' = OthersIdle(t)

\* graceloader_display_register_callbacks, with NULL for Unset.
RegisterApp(t, s) == loaded /\ Enter(t, "app", s, Fields) /\ UNCHANGED calm

\* What the caller has found out so far is nothing.  Mutant: it is kept.
EnterStale(t) == UNCHANGED <<unread, need>>
EnterApply(t) == unread' = [unread EXCEPT ![t] = Parts \X Kinds] /\ need' = [need EXCEPT ![t] = {}]

\* Plain stores, which the compiler may order as it likes: the lock keeps the
\* trampolines from seeing half of them, but not apply_callbacks.  The last one
\* releases the lock.
Store(t, f) ==
    /\ callbacks_lock # Free /\ callbacks_lock.owner = t /\ f \in callbacks_lock.left
    /\ LET kept(which, set) ==
             IF which = callbacks_lock.which /\ f \in Fields
             THEN [set EXCEPT ![f] = callbacks_lock.new[f]] ELSE set
       IN primary' = kept("primary", primary) /\ app' = kept("app", app)
    /\ dpi_panel' = (dpi_panel \/ f = "dpi_panel")
    /\ IF callbacks_lock.left = {f}
       THEN callbacks_lock' = Free /\ pc' = [pc EXCEPT ![t] = "apply"] /\ EnterApply(t)
       ELSE /\ callbacks_lock' = [callbacks_lock EXCEPT !.left = @ \ {f}]
            /\ UNCHANGED task
    /\ UNCHANGED <<slot, cacheOn, isr, loaded, history, overtaken>>

\* apply_callbacks without a display: the BSP's registration will apply the sets.
ApplyLater(t) ==
    /\ cacheOn /\ pc[t] = "apply" /\ ~dpi_panel
    /\ pc' = [pc EXCEPT ![t] = "idle"] /\ unread' = [unread EXCEPT ![t] = {}]
    /\ UNCHANGED <<sets, slot, cacheOn, need, isr, loaded, history, overtaken>>

\* Mutant: only the app's callbacks count.
AppWants(which, k) == which = "app" /\ app[k] # NULL

Wanted(which, k) == (IF which = "primary" THEN primary ELSE app)[k] # NULL

\* apply_callbacks finds out, without the lock, whether one of the two wants a kind.
ReadWanted(t, which, k) ==
    /\ cacheOn /\ pc[t] = "apply" /\ dpi_panel /\ <<which, k>> \in unread[t]
    /\ unread' = [unread EXCEPT ![t] = @ \ {<<which, k>>}]
    /\ need' = [need EXCEPT ![t] = IF Wanted(which, k) THEN @ \cup {k} ELSE @]
    /\ pc' = [pc EXCEPT ![t] = IF unread[t] = {<<which, k>>} THEN "register" ELSE "apply"]
    /\ UNCHANGED <<sets, slot, cacheOn, isr, loaded, history, overtaken>>

\* Mutant: nothing wanted, nothing done.
SkipNothing(t) ==
    /\ cacheOn /\ pc[t] = "register"
    /\ slot' = (IF need[t] = {} THEN slot ELSE need[t]) /\ served' = TRUE
    /\ pc' = [pc EXCEPT ![t] = "idle"] /\ need' = [need EXCEPT ![t] = {}]
    /\ UNCHANGED <<sets, cacheOn, unread, isr, loaded, calm, alone, overtaken>>

\* The driver's registration, which takes the trampolines as they are in IRAM.
RegisterDriver(t) ==
    /\ cacheOn /\ pc[t] = "register"
    /\ slot' = need[t] /\ served' = TRUE
    /\ pc' = [pc EXCEPT ![t] = "idle"] /\ need' = [need EXCEPT ![t] = {}]
    /\ UNCHANGED <<sets, cacheOn, unread, isr, loaded, calm, alone, overtaken>>
-----------------------------------------------------------------------------
(* Interrupts *)

Copy(k) ==
    isr' = [step |-> "primary", primary_cb |-> primary[k], primary_ctx |-> primary["user_ctx"],
            app_cb |-> app[k], app_ctx |-> app["user_ctx"]]

\* Mutant: the copy is made without the lock.
CopyUnlocked(k) ==
    /\ isr = IsrIdle /\ k \in slot /\ Copy(k)
    /\ UNCHANGED <<sets, slot, cacheOn, task, loaded, history, overtaken>>

\* A trampoline copies both callbacks under the lock, and calls the BSP's.
Trampoline(k) ==
    /\ isr = IsrIdle /\ k \in slot /\ callbacks_lock = Free /\ Copy(k)
    /\ UNCHANGED <<sets, slot, cacheOn, task, loaded, history, overtaken>>

PrimaryReturns ==
    /\ isr.step = "primary" /\ isr' = [isr EXCEPT !.step = "check"]
    /\ UNCHANGED <<sets, slot, cacheOn, task, loaded, history, overtaken>>

\* Mutant: the app's callback is called whatever the cache.
CallAlways == isr.app_cb # NULL

CallsApp == isr.app_cb # NULL /\ cacheOn

\* The cache is looked at once, and the call begins after that.
CheckCache ==
    /\ isr.step = "check"
    /\ isr' = IF CallsApp THEN [isr EXCEPT !.step = "app"] ELSE IsrIdle
    /\ UNCHANGED <<sets, slot, cacheOn, task, loaded, history, overtaken>>

AppReturns ==
    /\ isr.step = "app" /\ isr' = IsrIdle /\ overtaken' = FALSE
    /\ UNCHANGED <<sets, slot, cacheOn, task, loaded, history>>

\* The app has returned, and the loader unloads it: its callbacks stay registered.
Unload ==
    /\ cacheOn /\ loaded /\ loaded' = FALSE
    /\ \A t \in Tasks : pc[t] = "idle"
    /\ UNCHANGED <<sets, slot, cacheOn, task, isr, history, overtaken>>

\* A flash operation stops the tasks of both cores, outside of critical sections, and
\* then the cache; an interrupt of the other core that is cache-safe goes on.
CacheOff ==
    /\ cacheOn /\ callbacks_lock = Free /\ cacheOn' = FALSE
    /\ overtaken' = (overtaken \/ isr.step = "app")
    /\ UNCHANGED <<sets, slot, task, isr, loaded, history>>
CacheBackOn ==
    /\ ~cacheOn /\ cacheOn' = TRUE
    /\ UNCHANGED <<sets, slot, task, isr, loaded, history, overtaken>>

Next ==
    \/ \E t \in Tasks :
        \/ \E s \in Sets : RegisterPrimary(t, s)
        \/ \E s \in SetsOf(AppCallbacks) : RegisterApp(t, s)
        \/ \E f \in Stores : Store(t, f)
        \/ ApplyLater(t) \/ RegisterDriver(t)
        \/ \E which \in Parts, k \in Kinds : ReadWanted(t, which, k)
    \/ \E k \in Kinds : Trampoline(k)
    \/ PrimaryReturns \/ CheckCache \/ AppReturns \/ Unload \/ CacheOff \/ CacheBackOn

Spec == Init /\ [][Next]_vars
-----------------------------------------------------------------------------
(* Properties *)

OrNull(S) == S \cup {NULL}
Copies ==
    [step : {"primary", "check", "app"}, primary_cb : OrNull(Callbacks), primary_ctx : OrNull(Callbacks),
     app_cb : OrNull(Callbacks), app_ctx : OrNull(Callbacks)]
Locks == [owner : Tasks, which : Parts, new : Sets, left : SUBSET Stores]

TypeOK ==
    /\ {primary, app} \subseteq [Fields -> OrNull(Callbacks)] /\ slot \subseteq Kinds
    /\ {dpi_panel, cacheOn, loaded, served, calm, alone, overtaken} \subseteq BOOLEAN
    /\ pc \in [Tasks -> {"idle", "store", "apply", "register"}]
    /\ unread \in [Tasks -> SUBSET (Parts \X Kinds)] /\ need \in [Tasks -> SUBSET Kinds]
    /\ \A t \in Tasks : pc[t] = "apply" <=> unread[t] # {}
    /\ callbacks_lock = Free \/ callbacks_lock \in Locks
    /\ \A t \in Tasks : pc[t] = "store" <=> callbacks_lock.owner = t
    /\ isr = IsrIdle \/ isr \in Copies

Quiet == \A t \in Tasks : pc[t] = "idle"
Heard == \A k \in Kinds : primary[k] # NULL => k \in slot

\* "Register after bsp_device_initialize() or before, either works" (graceloader.h): no
\* registration leaves the BSP without the trampolines that it needs.  Not so for one
\* that is about to read the sets while the BSP's is being stored.
BspNeverMuted == dpi_panel /\ Quiet => Heard

\* If no registration is in progress when the BSP's begins, none of those that follow,
\* by any number of tasks at once, takes away a trampoline that the BSP needs: the
\* semaphore bsp_display_blit waits for is released by it.
CalmBspNeverMuted == served /\ calm => Heard

\* The callback that is being called, or has begun.
Running ==
    CASE isr.step = "primary" -> [cb |-> isr.primary_cb, ctx |-> isr.primary_ctx]
      [] isr.step = "app"     -> [cb |-> isr.app_cb, ctx |-> isr.app_ctx]
      [] OTHER                -> [cb |-> NULL, ctx |-> NULL]

\* A callback is always called with the context it was registered with, also when it
\* is replaced on another core just before or while the interrupt runs.
OwnContext == Running.cb # NULL => Running.ctx = Running.cb

Exposed == Running.cb # NULL /\ ~cacheOn /\ Running.cb \notin IramCode \cap InternalCtx

\* "They are SKIPPED while the cache is disabled" (graceloader.h): with the cache off,
\* only code in IRAM with a context in internal RAM runs.  Not so for a flash operation
\* that begins on the other core after the check of the cache.
CacheSafe == ~Exposed

\* That is the only way: the BSP's callback is safe whatever the cache does, and the
\* app's is exposed only to a flash operation that begins between check and return.
ExposedOnlyIfOvertaken == Exposed => isr.step = "app" /\ overtaken

\* When no registration is in progress, a trampoline is registered exactly while
\* someone wants it: no frame interrupt for nobody, and no callback that never comes.
OnlyWhileWanted ==
    dpi_panel /\ Quiet => slot = {k \in Kinds : \E which \in Parts : Wanted(which, k)}

\* A registration that no other overlaps leaves the driver right, whatever those before
\* it left behind.
RepairedAlone == alone => OnlyWhileWanted

\* The app's code is called only while it is there to be called.
CallsLoadedCode == Running.cb # NULL /\ Running.cb \notin IramCode => loaded
=============================================================================
