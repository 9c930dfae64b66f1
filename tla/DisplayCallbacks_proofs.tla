----------------------- MODULE DisplayCallbacks_proofs -----------------------
(***************************************************************************)
(* For any number of tasks that register callbacks at the same time: the   *)
(* BSP's callbacks stay connected unless its registration has overlapped   *)
(* another; a registration that overlaps none puts the driver's slot       *)
(* right; and what the interrupt calls has its own context, and code that  *)
(* can be fetched unless a flash operation has overtaken the call.         *)
(***************************************************************************)
EXTENDS DisplayCallbacks, TLAPS

\* The stages of a task and of the interrupt, and what they have looked up, have their
\* types.
LEMMA SetsAreTyped ==
  /\ Sets \subseteq [Fields -> OrNull(Callbacks)]
  /\ SetsOf(AppCallbacks) \subseteq Sets
<1>1. \A c \in Callbacks, kinds \in SUBSET Kinds : Set(c, kinds) \in [Fields -> OrNull(Callbacks)]
  BY DEF Set, OrNull
<1>2. Unset \in [Fields -> OrNull(Callbacks)]
  BY DEF Unset, OrNull
<1>3. AppCallbacks \subseteq Callbacks
  BY DisplayAssumption
<1>4. QED
  BY <1>1, <1>2, <1>3 DEF Sets, SetsOf

LEMMA InitTypeOK == Init => TypeOK
<1> SUFFICES ASSUME Init PROVE TypeOK
  OBVIOUS
<1>1. Unset \in [Fields -> OrNull(Callbacks)]
  BY DEF Unset, OrNull
<1>2. \A t \in Tasks : pc[t] = "idle" /\ unread[t] = {} /\ callbacks_lock.owner # t
  BY DisplayAssumption DEF Init, Free
<1>3. /\ pc \in [Tasks -> {"idle", "store", "apply", "register"}]
      /\ unread \in [Tasks -> SUBSET (Parts \X Kinds)] /\ need \in [Tasks -> SUBSET Kinds]
  BY DEF Init
<1>4. QED
  BY <1>1, <1>2, <1>3 DEF Init, TypeOK

\* The lock's owner is the one task that stores.
LEMMA EnterTypeOK ==
  ASSUME TypeOK, NEW t \in Tasks, NEW which \in Parts, NEW s \in Sets, NEW stores \in SUBSET Stores,
         Enter(t, which, s, stores), calm' \in BOOLEAN
  PROVE  TypeOK'
<1>1. callbacks_lock' \in Locks /\ callbacks_lock'.owner = t
  BY DEF Enter, Locks
<1>2. \A u \in Tasks : pc[u] # "store"
  BY DisplayAssumption DEF TypeOK, Enter, Free
<1>3. \A u \in Tasks : pc'[u] = IF u = t THEN "store" ELSE pc[u]
  BY DEF TypeOK, Enter
<1>4. pc' \in [Tasks -> {"idle", "store", "apply", "register"}] /\ alone' \in BOOLEAN
  BY DEF TypeOK, Enter, OthersIdle
<1>5. \A u \in Tasks : pc'[u] = "store" <=> callbacks_lock'.owner = u
  BY <1>1, <1>2, <1>3
<1>6. \A u \in Tasks : pc'[u] = "apply" <=> unread'[u] # {}
  BY <1>3 DEF TypeOK, Enter
<1>7. UNCHANGED <<primary, app, dpi_panel, slot, cacheOn, unread, need, isr, loaded, served, overtaken>>
  BY DEF Enter
<1>8. QED
  BY <1>1, <1>4, <1>5, <1>6, <1>7 DEF TypeOK

\* The last store hands over to apply_callbacks, which has everything to read.
LEMMA StoreTypeOK ==
  ASSUME TypeOK, NEW t \in Tasks, NEW f \in Stores, Store(t, f)
  PROVE  TypeOK'
<1>1. callbacks_lock \in Locks /\ callbacks_lock.owner = t /\ pc[t] = "store"
  BY DEF TypeOK, Store
<1>2. callbacks_lock.new \in [Fields -> OrNull(Callbacks)]
  BY <1>1, SetsAreTyped DEF Locks
<1>3. {primary', app'} \subseteq [Fields -> OrNull(Callbacks)] /\ dpi_panel' \in BOOLEAN
  BY <1>2 DEF TypeOK, Store
<1>4. UNCHANGED <<slot, cacheOn, isr, loaded, served, calm, alone, overtaken>>
  BY DEF Store, history
<1>5. CASE callbacks_lock.left = {f}
  <2>1. /\ callbacks_lock' = Free /\ pc' = [pc EXCEPT ![t] = "apply"]
        /\ unread' = [unread EXCEPT ![t] = Parts \X Kinds] /\ need' = [need EXCEPT ![t] = {}]
    BY <1>5 DEF Store, EnterApply
  <2>2. <<"app", "on_refresh_done">> \in Parts \X Kinds
    BY DEF Parts, Kinds
  <2>3. \A u \in Tasks : pc'[u] = "store" <=> callbacks_lock'.owner = u
    <3>1. NULL \notin Tasks /\ callbacks_lock'.owner = NULL
      BY <2>1, DisplayAssumption DEF Free
    <3>2. \A u \in Tasks : pc'[u] # "store"
      BY <2>1, <1>1 DEF TypeOK
    <3>3. QED
      BY <3>1, <3>2
  <2>4. \A u \in Tasks : pc'[u] = "apply" <=> unread'[u] # {}
    BY <2>1, <2>2 DEF TypeOK
  <2>5. /\ pc' \in [Tasks -> {"idle", "store", "apply", "register"}]
        /\ unread' \in [Tasks -> SUBSET (Parts \X Kinds)] /\ need' \in [Tasks -> SUBSET Kinds]
    BY <2>1 DEF TypeOK
  <2>6. QED
    BY <1>3, <1>4, <2>1, <2>3, <2>4, <2>5 DEF TypeOK
<1>6. CASE callbacks_lock.left # {f}
  <2>1. callbacks_lock' = [callbacks_lock EXCEPT !.left = @ \ {f}] /\ UNCHANGED <<pc, unread, need>>
    BY <1>6 DEF Store, task
  <2>2. callbacks_lock' \in Locks /\ callbacks_lock'.owner = callbacks_lock.owner
    BY <1>1, <2>1 DEF Locks
  <2>3. QED
    BY <1>3, <1>4, <2>1, <2>2 DEF TypeOK
<1>7. QED
  BY <1>5, <1>6

\* What is left of a registration moves the task and the driver's slot.
LEMMA ApplyTypeOK ==
  ASSUME TypeOK, NEW t \in Tasks,
         \/ ApplyLater(t) \/ RegisterDriver(t)
         \/ \E which \in Parts, k \in Kinds : ReadWanted(t, which, k)
  PROVE  TypeOK'
<1>1. CASE ApplyLater(t)
  BY <1>1 DEF ApplyLater, sets, history, TypeOK
<1>2. CASE RegisterDriver(t)
  BY <1>2 DEF RegisterDriver, sets, TypeOK
<1>3. ASSUME NEW which \in Parts, NEW k \in Kinds, ReadWanted(t, which, k) PROVE TypeOK'
  <2>1. UNCHANGED <<primary, app, dpi_panel, callbacks_lock, slot, cacheOn, isr, loaded, served, calm,
                    alone, overtaken>>
    BY <1>3 DEF ReadWanted, sets, history
  <2>2. /\ unread' = [unread EXCEPT ![t] = @ \ {<<which, k>>}]
        /\ need' = [need EXCEPT ![t] = IF Wanted(which, k) THEN @ \cup {k} ELSE @]
        /\ pc' = [pc EXCEPT ![t] = IF unread[t] = {<<which, k>>} THEN "register" ELSE "apply"]
        /\ pc[t] = "apply" /\ <<which, k>> \in unread[t]
    BY <1>3 DEF ReadWanted
  <2>3. \A u \in Tasks : pc'[u] = "apply" <=> unread'[u] # {}
    BY <2>2 DEF TypeOK
  <2>4. \A u \in Tasks : pc'[u] = "store" <=> pc[u] = "store"
    BY <2>2 DEF TypeOK
  <2>5. /\ pc' \in [Tasks -> {"idle", "store", "apply", "register"}]
        /\ unread' \in [Tasks -> SUBSET (Parts \X Kinds)] /\ need' \in [Tasks -> SUBSET Kinds]
    BY <2>2 DEF TypeOK
  <2>6. QED
    BY <2>1, <2>3, <2>4, <2>5 DEF TypeOK
<1>4. QED
  BY <1>1, <1>2, <1>3

\* The interrupt, the cache and the loader leave the tasks alone.
Beside ==
    \/ \E k \in Kinds : Trampoline(k)
    \/ PrimaryReturns \/ CheckCache \/ AppReturns \/ Unload \/ CacheOff \/ CacheBackOn

LEMMA BesideTypeOK == ASSUME TypeOK, Beside PROVE TypeOK'
<1>1. UNCHANGED <<primary, app, dpi_panel, callbacks_lock, slot, pc, unread, need, served, calm, alone>>
  BY DEF Beside, Trampoline, PrimaryReturns, CheckCache, AppReturns, Unload, CacheOff, CacheBackOn,
         sets, task, history
<1>2. {cacheOn', loaded', overtaken'} \subseteq BOOLEAN
  BY DEF Beside, Trampoline, PrimaryReturns, CheckCache, AppReturns, Unload, CacheOff, CacheBackOn, TypeOK
<1>3. isr' = IsrIdle \/ isr' \in Copies
  <2>1. CASE \E k \in Kinds : Trampoline(k)
    BY <2>1 DEF Trampoline, Copy, TypeOK, Copies, Fields
  <2>2. CASE PrimaryReturns
    BY <2>2 DEF PrimaryReturns, TypeOK, Copies, IsrIdle
  <2>3. CASE CheckCache
    BY <2>3 DEF CheckCache, TypeOK, Copies, IsrIdle
  <2>4. CASE AppReturns \/ Unload \/ CacheOff \/ CacheBackOn
    BY <2>4 DEF AppReturns, Unload, CacheOff, CacheBackOn, TypeOK
  <2>5. QED
    BY <2>1, <2>2, <2>3, <2>4 DEF Beside
<1>4. QED
  BY <1>1, <1>2, <1>3 DEF TypeOK

\* Next, by what a step belongs to.
LEMMA NextCases ==
  ASSUME [Next]_vars
  PROVE  \/ \E t \in Tasks, s \in Sets : RegisterPrimary(t, s)
         \/ \E t \in Tasks, s \in SetsOf(AppCallbacks) : RegisterApp(t, s)
         \/ \E t \in Tasks, f \in Stores : Store(t, f)
         \/ \E t \in Tasks :
               \/ ApplyLater(t) \/ RegisterDriver(t)
               \/ \E which \in Parts, k \in Kinds : ReadWanted(t, which, k)
         \/ Beside
         \/ UNCHANGED vars
  BY DEF Next, Beside

LEMMA NextTypeOK == ASSUME TypeOK, [Next]_vars PROVE TypeOK'
<1>1. ASSUME NEW t \in Tasks, NEW s \in Sets, RegisterPrimary(t, s) PROVE TypeOK'
  <2>1. Enter(t, "primary", s, Stores) /\ calm' \in BOOLEAN /\ "primary" \in Parts
    BY <1>1 DEF RegisterPrimary, OthersIdle, Parts
  <2>2. QED
    BY <2>1, EnterTypeOK
<1>2. ASSUME NEW t \in Tasks, NEW s \in SetsOf(AppCallbacks), RegisterApp(t, s) PROVE TypeOK'
  <2>1. /\ Enter(t, "app", s, Fields) /\ calm' \in BOOLEAN /\ "app" \in Parts
        /\ s \in Sets /\ Fields \in SUBSET Stores
    BY <1>2, SetsAreTyped DEF RegisterApp, Parts, TypeOK, Stores
  <2>2. QED
    BY <2>1, EnterTypeOK
<1>3. CASE UNCHANGED vars
  BY <1>3 DEF TypeOK, vars, sets, task, history
<1>4. QED
  BY NextCases, <1>1, <1>2, <1>3, StoreTypeOK, ApplyTypeOK, BesideTypeOK

\* On every run, the sets, the interrupt's copies and the stages of the tasks have their
\* types, exactly the lock's owner stores, and a task is in apply_callbacks exactly while
\* it has something to read.
THEOREM DisplayStateIsTyped == Spec => []TypeOK
  BY InitTypeOK, NextTypeOK, PTL DEF Spec
-----------------------------------------------------------------------------
(* The BSP's callbacks and the driver's slot *)

\* A registration under way has found every wish of the BSP's that it has looked at.
Found ==
    \A t \in Tasks, k \in Kinds : primary[k] # NULL =>
        /\ pc[t] = "apply" /\ <<"primary", k>> \notin unread[t] => k \in need[t]
        /\ pc[t] = "register" => k \in need[t]

\* Only with a display does anything reach the driver.  While a calm registration of
\* the BSP's stores its set, no one reads it and nothing has reached the driver; after
\* that the set is complete, and what is found in it stays right.
MInv ==
    /\ \A t \in Tasks : pc[t] = "register" => dpi_panel
    /\ served => dpi_panel
    /\ calm =>
        /\ Found
        /\ callbacks_lock # Free /\ callbacks_lock.which = "primary" =>
            ~served /\ \A t \in Tasks : pc[t] \in {"idle", "store"}
        /\ served => Heard

\* A calm registration of the BSP's comes first of all, with nobody else under way.
LEMMA PrimaryMStep ==
  ASSUME TypeOK, MInv, BspOnce, NEW t \in Tasks, NEW s \in Sets, RegisterPrimary(t, s)
  PROVE  MInv'
<1>1. /\ ~dpi_panel /\ ~served /\ UNCHANGED <<primary, dpi_panel, slot, unread, need, served>>
      /\ pc' = [pc EXCEPT ![t] = "store"] /\ calm' = OthersIdle(t)
  BY DEF RegisterPrimary, Enter, MInv
<1>2. \A u \in Tasks : pc'[u] = IF u = t THEN "store" ELSE pc[u]
  BY <1>1 DEF TypeOK
<1>3. calm' => \A u \in Tasks : pc'[u] \in {"idle", "store"}
  BY <1>1, <1>2 DEF OthersIdle
<1>4. calm' => Found'
  BY <1>3 DEF Found
<1>5. QED
  BY <1>1, <1>2, <1>3, <1>4 DEF MInv

\* An app's registration leaves the BSP's set alone.
LEMMA AppMStep ==
  ASSUME TypeOK, MInv, NEW t \in Tasks, NEW s \in Sets, RegisterApp(t, s)
  PROVE  MInv'
<1>1. /\ UNCHANGED <<primary, dpi_panel, slot, unread, need, served, calm>>
      /\ pc' = [pc EXCEPT ![t] = "store"] /\ callbacks_lock'.which = "app"
  BY DEF RegisterApp, Enter
<1>2. \A u \in Tasks : pc'[u] = IF u = t THEN "store" ELSE pc[u]
  BY <1>1 DEF TypeOK
<1>3. QED
  BY <1>1, <1>2 DEF MInv, Found, Heard

\* A store into the BSP's set is seen by nobody, if its registration is calm.
LEMMA StoreMStep ==
  ASSUME TypeOK, MInv, NEW t \in Tasks, NEW f \in Stores, Store(t, f)
  PROVE  MInv'
<1>1. /\ callbacks_lock # Free /\ callbacks_lock \in Locks /\ pc[t] = "store"
      /\ UNCHANGED <<slot, served, calm>> /\ (dpi_panel => dpi_panel')
      /\ callbacks_lock.which = "app" => primary' = primary
  BY DEF Store, history, TypeOK
<1>2. \/ /\ callbacks_lock' = Free /\ pc' = [pc EXCEPT ![t] = "apply"]
         /\ unread' = [unread EXCEPT ![t] = Parts \X Kinds] /\ need' = [need EXCEPT ![t] = {}]
      \/ callbacks_lock'.which = callbacks_lock.which /\ UNCHANGED <<pc, unread, need>>
  <2>1. callbacks_lock' = [callbacks_lock EXCEPT !.left = @ \ {f}]
        => callbacks_lock'.which = callbacks_lock.which
    BY <1>1 DEF Locks
  <2>2. QED
    BY <2>1 DEF Store, EnterApply, task
<1>3. \A u \in Tasks : u # t => pc'[u] = pc[u] /\ unread'[u] = unread[u] /\ need'[u] = need[u]
  BY <1>2 DEF TypeOK
<1>4. pc'[t] = "store" \/ (pc'[t] = "apply" /\ unread'[t] = Parts \X Kinds)
  <2>1. pc' = [pc EXCEPT ![t] = "apply"] => pc'[t] = "apply"
    BY DEF TypeOK
  <2>2. unread' = [unread EXCEPT ![t] = Parts \X Kinds] => unread'[t] = Parts \X Kinds
    BY DEF TypeOK
  <2>3. QED
    BY <1>1, <1>2, <2>1, <2>2
<1>5. (\A u \in Tasks : pc[u] = "register" => dpi_panel)' /\ (served => dpi_panel)'
  BY <1>1, <1>3, <1>4 DEF MInv
<1>6. ASSUME calm PROVE Found'
  <2>1. \A k \in Kinds : <<"primary", k>> \in Parts \X Kinds
    BY DEF Parts
  <2>2. CASE callbacks_lock.which = "app"
    BY <1>1, <1>3, <1>4, <1>6, <2>1, <2>2 DEF MInv, Found
  <2>3. CASE callbacks_lock.which = "primary"
    <3>1. \A u \in Tasks : pc[u] \in {"idle", "store"}
      BY <1>1, <1>6, <2>3 DEF MInv
    <3>2. \A u \in Tasks : pc'[u] \in {"idle", "store"} \/ (u = t /\ pc'[t] = "apply" /\ unread'[t] = Parts \X Kinds)
      BY <3>1, <1>3, <1>4
    <3>3. QED
      BY <2>1, <3>2 DEF Found
  <2>4. QED
    BY <1>1, <2>2, <2>3 DEF Locks, Parts
<1>7. ASSUME calm, callbacks_lock' # Free, callbacks_lock'.which = "primary"
      PROVE  ~served /\ \A u \in Tasks : pc'[u] \in {"idle", "store"}
  BY <1>1, <1>2, <1>7 DEF MInv
<1>8. ASSUME calm, served PROVE Heard'
  <2>1. callbacks_lock.which = "app"
    BY <1>1, <1>8 DEF MInv, Locks, Parts
  <2>2. QED
    BY <1>1, <1>8, <2>1 DEF MInv, Heard
<1>9. QED
  BY <1>1, <1>5, <1>6, <1>7, <1>8 DEF MInv

\* Reading finds a wish of the BSP's, and what is written to the driver has all of them.
LEMMA ApplyMStep ==
  ASSUME TypeOK, MInv, NEW t \in Tasks,
         \/ ApplyLater(t) \/ RegisterDriver(t)
         \/ \E which \in Parts, k \in Kinds : ReadWanted(t, which, k)
  PROVE  MInv'
<1>1. CASE ApplyLater(t)
  <2>1. /\ UNCHANGED <<primary, dpi_panel, callbacks_lock, slot, need, served, calm>>
        /\ \A u \in Tasks : pc'[u] = IF u = t THEN "idle" ELSE pc[u]
        /\ \A u \in Tasks \ {t} : unread'[u] = unread[u]
    BY <1>1 DEF ApplyLater, sets, history, TypeOK
  <2>2. QED
    BY <2>1 DEF MInv, Found, Heard
<1>2. CASE RegisterDriver(t)
  <2>1. /\ UNCHANGED <<primary, dpi_panel, callbacks_lock, unread, calm>>
        /\ pc[t] = "register" /\ slot' = need[t] /\ served' = TRUE
        /\ \A u \in Tasks : pc'[u] = IF u = t THEN "idle" ELSE pc[u]
        /\ \A u \in Tasks \ {t} : need'[u] = need[u]
    BY <1>2 DEF RegisterDriver, sets, TypeOK
  <2>2. calm => Heard'
    BY <2>1 DEF MInv, Found, Heard
  <2>3. ASSUME calm, callbacks_lock # Free, callbacks_lock.which = "primary" PROVE FALSE
    BY <2>1, <2>3 DEF MInv
  <2>4. calm => Found'
    BY <2>1 DEF MInv, Found
  <2>5. QED
    BY <2>1, <2>2, <2>3, <2>4 DEF MInv
<1>3. ASSUME NEW which \in Parts, NEW k \in Kinds, ReadWanted(t, which, k) PROVE MInv'
  <2>1. /\ UNCHANGED <<primary, dpi_panel, callbacks_lock, slot, served, calm>>
        /\ dpi_panel /\ pc[t] = "apply" /\ <<which, k>> \in unread[t]
        /\ \A u \in Tasks \ {t} : pc'[u] = pc[u] /\ unread'[u] = unread[u] /\ need'[u] = need[u]
        /\ unread'[t] = unread[t] \ {<<which, k>>}
        /\ need'[t] = (IF Wanted(which, k) THEN need[t] \cup {k} ELSE need[t])
        /\ pc'[t] = (IF unread[t] = {<<which, k>>} THEN "register" ELSE "apply")
    BY <1>3 DEF ReadWanted, sets, history, TypeOK
  <2>2. ASSUME calm, NEW j \in Kinds, primary[j] # NULL, <<"primary", j>> \notin unread'[t]
        PROVE  j \in need'[t]
    <3>1. CASE <<"primary", j>> = <<which, k>>
      BY <2>1, <2>2, <3>1 DEF Wanted
    <3>2. CASE <<"primary", j>> # <<which, k>>
      BY <2>1, <2>2, <3>2 DEF MInv, Found
    <3>3. QED
      BY <3>1, <3>2
  <2>3. pc'[t] = "register" => unread'[t] = {}
    BY <2>1
  <2>4. ASSUME calm PROVE Found'
    <3>1. ASSUME NEW u \in Tasks, NEW j \in Kinds, primary'[j] # NULL
          PROVE  /\ pc'[u] = "apply" /\ <<"primary", j>> \notin unread'[u] => j \in need'[u]
                 /\ pc'[u] = "register" => j \in need'[u]
      <4>1. CASE u = t
        BY <2>1, <2>2, <2>3, <2>4, <3>1, <4>1
      <4>2. CASE u # t
        BY <2>1, <2>4, <3>1, <4>2 DEF MInv, Found
      <4>3. QED
        BY <4>1, <4>2
    <3>2. QED
      BY <3>1 DEF Found
  <2>5. ASSUME calm, callbacks_lock # Free, callbacks_lock.which = "primary" PROVE FALSE
    BY <2>1, <2>5 DEF MInv
  <2>6. calm /\ served => Heard'
    BY <2>1 DEF MInv, Heard
  <2>7. \A u \in Tasks : pc'[u] = "register" => dpi_panel'
    BY <2>1
  <2>8. QED
    BY <2>1, <2>4, <2>5, <2>6, <2>7 DEF MInv
<1>4. QED
  BY <1>1, <1>2, <1>3

\* Every step of the module keeps the invariant.
LEMMA NextMInv == ASSUME TypeOK, MInv, BspOnce, [Next]_vars PROVE MInv'
<1>1. CASE Beside \/ UNCHANGED vars
  <2>1. UNCHANGED <<primary, dpi_panel, callbacks_lock, slot, pc, unread, need, served, calm>>
    BY <1>1 DEF Beside, Trampoline, PrimaryReturns, CheckCache, AppReturns, Unload, CacheOff, CacheBackOn,
                sets, task, history, vars
  <2>2. QED
    BY <2>1 DEF MInv, Found, Heard
<1>2. SetsOf(AppCallbacks) \subseteq Sets
  BY SetsAreTyped
<1>3. QED
  BY <1>1, <1>2, NextCases, PrimaryMStep, AppMStep, StoreMStep, ApplyMStep

\* If the BSP's one registration begins while no other is in progress, then whatever
\* number of tasks register callbacks after that, and however they overlap, the
\* callbacks of the BSP stay connected to the driver once they are.
THEOREM BspStaysConnected == ASSUME BspOnce PROVE Spec => []CalmBspNeverMuted
<1>1. Init => MInv
  BY DEF Init, MInv, Found, Unset, Fields, Free
<1>2. MInv => CalmBspNeverMuted
  BY DEF MInv, CalmBspNeverMuted
<1>3. TypeOK /\ MInv /\ [Next]_vars => MInv'
  BY NextMInv
<1>4. QED
  BY <1>1, <1>2, <1>3, DisplayStateIsTyped, PTL DEF Spec
-----------------------------------------------------------------------------
(* What the interrupt calls *)

Whole(set) == \A k \in Kinds : set[k] # NULL => set["user_ctx"] = set[k]

\* What a registration has stored so far is what it was given, and what is not being
\* stored is whole.
HalfStored(set, which, lock) ==
    IF lock # Free /\ lock.which = which
    THEN \A f \in Fields \ lock.left : set[f] = lock.new[f]
    ELSE Whole(set)

\* The BSP's set has passed the driver's checks, half stored or not; the interrupt has
\* copied each callback with its context; and the cache has gone off under the app's
\* callback only by overtaking it.
CInv ==
    /\ Placed(primary) /\ HalfStored(primary, "primary", callbacks_lock) /\ HalfStored(app, "app", callbacks_lock)
    /\ callbacks_lock # Free /\ callbacks_lock.which = "primary" => Placed(callbacks_lock.new)
    /\ isr # IsrIdle =>
        /\ isr.primary_cb # NULL => isr.primary_ctx = isr.primary_cb
        /\ isr.primary_cb # NULL => isr.primary_cb \in IramCode \cap InternalCtx
        /\ isr.app_cb # NULL => isr.app_ctx = isr.app_cb
    /\ isr.step = "app" /\ ~cacheOn => overtaken

\* Every set pairs each of its callbacks with the one context of the set.
LEMMA SetsAreWhole == ASSUME NEW s \in Sets PROVE Whole(s)
<1>1. Whole(Unset)
  BY DEF Unset, Whole, Fields
<1>2. \A c \in Callbacks, kinds \in SUBSET Kinds : Whole(Set(c, kinds))
  BY DEF Set, Whole, Fields, Kinds
<1>3. QED
  BY <1>1, <1>2 DEF Sets, SetsOf

LEMMA InitCInv == Init => CInv
  BY DEF Init, CInv, Placed, HalfStored, Whole, Unset, Fields, Free, IsrIdle

\* A registration that begins has stored nothing yet.
LEMMA EnterCInv ==
  ASSUME TypeOK, CInv, NEW t \in Tasks, NEW which \in Parts, NEW s \in Sets,
         NEW stores \in SUBSET Stores, Fields \subseteq stores,
         Enter(t, which, s, stores), which = "primary" => Placed(s)
  PROVE  CInv'
<1>1. /\ callbacks_lock = Free
      /\ callbacks_lock' = [owner |-> t, which |-> which, new |-> s, left |-> stores]
      /\ UNCHANGED <<primary, app, cacheOn, isr, overtaken>>
  BY DEF Enter
<1>2. callbacks_lock'.which = which /\ callbacks_lock'.new = s /\ Fields \ callbacks_lock'.left = {}
  BY <1>1
<1>3. Whole(primary) /\ Whole(app)
  BY <1>1 DEF CInv, HalfStored
<1>4. HalfStored(primary, "primary", callbacks_lock)' /\ HalfStored(app, "app", callbacks_lock)'
  BY <1>1, <1>2, <1>3 DEF HalfStored, Whole
<1>5. QED
  BY <1>1, <1>2, <1>4 DEF CInv, Placed

\* A part that is being stored goes on as it was given, and is whole with the last store.
LEMMA HalfStoredStep ==
  ASSUME NEW set, set \in [Fields -> OrNull(Callbacks)], NEW set1, NEW which \in Parts, NEW f \in Stores,
         callbacks_lock \in Locks, HalfStored(set, which, callbacks_lock),
         set1 = (IF which = callbacks_lock.which /\ f \in Fields
                 THEN [set EXCEPT ![f] = callbacks_lock.new[f]] ELSE set),
         \/ callbacks_lock.left = {f} /\ callbacks_lock' = Free
         \/ callbacks_lock' = [callbacks_lock EXCEPT !.left = @ \ {f}]
  PROVE  HalfStored(set1, which, callbacks_lock')
<1>1. callbacks_lock.which = which =>
        callbacks_lock = Free \/ \A g \in Fields : g \notin callbacks_lock.left \/ g = f =>
            set1[g] = callbacks_lock.new[g]
  BY DEF HalfStored
<1>2. callbacks_lock # Free /\ Free # [callbacks_lock EXCEPT !.left = @ \ {f}]
  BY DEF Locks, Free
<1>3. CASE callbacks_lock.which # which
  <2>1. Whole(set1)
    BY <1>2, <1>3 DEF HalfStored
  <2>2. callbacks_lock' = Free \/ callbacks_lock'.which = callbacks_lock.which
    BY DEF Locks
  <2>3. QED
    BY <1>3, <2>1, <2>2 DEF HalfStored
<1>4. CASE callbacks_lock.which = which /\ callbacks_lock' = Free
  <2>1. Whole(callbacks_lock.new)
    BY SetsAreWhole DEF Locks
  <2>2. \A g \in Fields : set1[g] = callbacks_lock.new[g]
    BY <1>1, <1>2, <1>4
  <2>3. Whole(set1)
    BY <2>1, <2>2 DEF Whole, Fields
  <2>4. QED
    BY <1>4, <2>3 DEF HalfStored
<1>5. CASE callbacks_lock.which = which /\ callbacks_lock' = [callbacks_lock EXCEPT !.left = @ \ {f}]
  <2>1. /\ callbacks_lock'.which = which /\ callbacks_lock'.new = callbacks_lock.new
        /\ callbacks_lock'.left = callbacks_lock.left \ {f}
    BY <1>5 DEF Locks
  <2>2. QED
    BY <1>1, <1>2, <1>5, <2>1 DEF HalfStored
<1>6. QED
  BY <1>3, <1>4, <1>5

LEMMA StoreCInv ==
  ASSUME TypeOK, CInv, NEW t \in Tasks, NEW f \in Stores, Store(t, f)
  PROVE  CInv'
<1>1. callbacks_lock \in Locks /\ callbacks_lock # Free /\ UNCHANGED <<cacheOn, isr, overtaken>>
  BY DEF TypeOK, Store
<1>2. /\ primary' = (IF "primary" = callbacks_lock.which /\ f \in Fields
                     THEN [primary EXCEPT ![f] = callbacks_lock.new[f]] ELSE primary)
      /\ app' = (IF "app" = callbacks_lock.which /\ f \in Fields
                 THEN [app EXCEPT ![f] = callbacks_lock.new[f]] ELSE app)
      /\ \/ callbacks_lock.left = {f} /\ callbacks_lock' = Free
         \/ callbacks_lock' = [callbacks_lock EXCEPT !.left = @ \ {f}]
  BY DEF Store
<1>3. {primary, app} \subseteq [Fields -> OrNull(Callbacks)] /\ "primary" \in Parts /\ "app" \in Parts
  BY DEF TypeOK, Parts
<1>4. HalfStored(primary, "primary", callbacks_lock)'
  <2>1. HalfStored(primary', "primary", callbacks_lock')
    BY <1>1, <1>2, <1>3, HalfStoredStep DEF CInv
  <2>2. QED
    BY <2>1 DEF HalfStored, Whole
<1>5. HalfStored(app, "app", callbacks_lock)'
  <2>1. HalfStored(app', "app", callbacks_lock')
    BY <1>1, <1>2, <1>3, HalfStoredStep DEF CInv
  <2>2. QED
    BY <2>1 DEF HalfStored, Whole
<1>6. Placed(primary)'
  <2>1. CASE callbacks_lock.which = "primary"
    BY <1>1, <1>2, <1>3, <2>1 DEF CInv, Placed, Fields
  <2>2. CASE callbacks_lock.which # "primary"
    BY <1>2, <2>2 DEF CInv, Placed
  <2>3. QED
    BY <2>1, <2>2
<1>7. callbacks_lock' # Free /\ callbacks_lock'.which = "primary" => Placed(callbacks_lock'.new)
  <2>1. callbacks_lock' # Free =>
          callbacks_lock'.which = callbacks_lock.which /\ callbacks_lock'.new = callbacks_lock.new
    BY <1>1, <1>2 DEF Locks
  <2>2. QED
    BY <1>1, <2>1 DEF CInv
<1>8. QED
  BY <1>1, <1>4, <1>5, <1>6, <1>7 DEF CInv, Placed

\* The interrupt copies callback and context in one piece, while nobody stores.
LEMMA BesideCInv == ASSUME TypeOK, CInv, Beside PROVE CInv'
<1>1. UNCHANGED <<primary, app, callbacks_lock>>
  BY DEF Beside, Trampoline, PrimaryReturns, CheckCache, AppReturns, Unload, CacheOff, CacheBackOn, sets
<1>2. SUFFICES /\ isr' # IsrIdle =>
                    /\ isr'.primary_cb # NULL => isr'.primary_ctx = isr'.primary_cb
                    /\ isr'.primary_cb # NULL => isr'.primary_cb \in IramCode \cap InternalCtx
                    /\ isr'.app_cb # NULL => isr'.app_ctx = isr'.app_cb
               /\ isr'.step = "app" /\ ~cacheOn' => overtaken'
  BY <1>1 DEF CInv, HalfStored, Placed, Whole
<1>3. ASSUME NEW k \in Kinds, Trampoline(k)
      PROVE  /\ isr' # IsrIdle =>
                    /\ isr'.primary_cb # NULL => isr'.primary_ctx = isr'.primary_cb
                    /\ isr'.primary_cb # NULL => isr'.primary_cb \in IramCode \cap InternalCtx
                    /\ isr'.app_cb # NULL => isr'.app_ctx = isr'.app_cb
             /\ isr'.step # "app"
  <2>1. isr' = [step |-> "primary", primary_cb |-> primary[k], primary_ctx |-> primary["user_ctx"],
                app_cb |-> app[k], app_ctx |-> app["user_ctx"]]
    BY <1>3 DEF Trampoline, Copy
  <2>2. Whole(primary) /\ Whole(app) /\ Placed(primary)
    BY <1>3 DEF Trampoline, CInv, HalfStored
  <2>3. QED
    BY <2>1, <2>2 DEF Whole, Placed
<1>4. CASE PrimaryReturns
  BY <1>4 DEF PrimaryReturns, TypeOK, Copies, IsrIdle, CInv
<1>5. CASE CheckCache
  BY <1>5 DEF CheckCache, CallsApp, TypeOK, Copies, IsrIdle, CInv
<1>6. CASE AppReturns \/ Unload \/ CacheOff \/ CacheBackOn
  <2>1. isr' = isr \/ (isr' = IsrIdle /\ isr'.step # "app")
    BY <1>6 DEF AppReturns, Unload, CacheOff, CacheBackOn, IsrIdle
  <2>2. isr' = isr => (isr'.step = "app" /\ ~cacheOn' => overtaken')
    BY <1>6 DEF AppReturns, Unload, CacheOff, CacheBackOn, CInv, TypeOK, IsrIdle
  <2>3. QED
    BY <2>1, <2>2 DEF CInv
<1>7. QED
  BY <1>3, <1>4, <1>5, <1>6 DEF Beside

LEMMA NextCInv == ASSUME TypeOK, CInv, [Next]_vars PROVE CInv'
<1>1. ASSUME NEW t \in Tasks, NEW s \in Sets, RegisterPrimary(t, s) PROVE CInv'
  <2>1. Placed(s) /\ Enter(t, "primary", s, Stores) /\ "primary" \in Parts /\ Fields \subseteq Stores
    BY <1>1 DEF RegisterPrimary, Parts, Stores
  <2>2. QED
    BY <2>1, EnterCInv
<1>2. ASSUME NEW t \in Tasks, NEW s \in SetsOf(AppCallbacks), RegisterApp(t, s) PROVE CInv'
  <2>1. /\ Enter(t, "app", s, Fields) /\ "app" \in Parts /\ "app" # "primary"
        /\ s \in Sets /\ Fields \in SUBSET Stores
    BY <1>2, SetsAreTyped DEF RegisterApp, Parts, Stores
  <2>2. QED
    BY <2>1, EnterCInv
<1>3. CASE \/ \E t \in Tasks :
                 \/ ApplyLater(t) \/ RegisterDriver(t)
                 \/ \E which \in Parts, k \in Kinds : ReadWanted(t, which, k)
           \/ UNCHANGED vars
  <2>1. UNCHANGED <<primary, app, callbacks_lock, isr, cacheOn, overtaken>>
    BY <1>3 DEF ApplyLater, RegisterDriver, ReadWanted, sets, vars
  <2>2. QED
    BY <2>1 DEF CInv, HalfStored, Placed, Whole
<1>4. QED
  BY NextCases, <1>1, <1>2, <1>3, StoreCInv, BesideCInv

\* On every run.
LEMMA AlwaysCInv == Spec => [](TypeOK /\ CInv)
  BY InitTypeOK, NextTypeOK, InitCInv, NextCInv, PTL DEF Spec

\* Whatever is registered on another core while the interrupt runs, a callback is
\* called with the context of its own registration.
THEOREM ContextIsOwn == Spec => []OwnContext
<1>1. TypeOK /\ CInv => OwnContext
  BY DEF TypeOK, CInv, OwnContext, Running, Copies, IsrIdle
<1>2. QED
  BY <1>1, AlwaysCInv, PTL

\* While the cache is off, nothing runs whose code or context it would take - the BSP's
\* set is checked as a whole, the app's is skipped - but an app's callback that a flash
\* operation has overtaken between the check of the cache and its return.
THEOREM OnlyOvertakenIsExposed == Spec => []ExposedOnlyIfOvertaken
<1>1. TypeOK /\ CInv => ExposedOnlyIfOvertaken
  BY DEF TypeOK, CInv, ExposedOnlyIfOvertaken, Exposed, Running, Copies, IsrIdle
<1>2. QED
  BY <1>1, AlwaysCInv, PTL
-----------------------------------------------------------------------------
(* A registration that nobody overlaps *)

WantedNow == {k \in Kinds : \E which \in Parts : Wanted(which, k)}
WantedRead(t) == {k \in Kinds : \E which \in Parts : Wanted(which, k) /\ <<which, k>> \notin unread[t]}

\* While the latest registration has had no other beside it, it is the only one under
\* way, and what it has found wanted is what is wanted, as nobody changes the sets.
OneAtATime == \A t, u \in Tasks : pc[t] # "idle" /\ pc[u] # "idle" => t = u
FoundAll ==
    \A t \in Tasks :
        /\ pc[t] = "apply" => need[t] = WantedRead(t)
        /\ pc[t] = "register" => need[t] = WantedNow
RInv == alone => OneAtATime /\ FoundAll /\ OnlyWhileWanted

\* A new registration is alone if all others are idle; it has read nothing yet.
LEMMA EnterRInv ==
  ASSUME TypeOK, NEW t \in Tasks, NEW which, NEW s, NEW stores, Enter(t, which, s, stores)
  PROVE  RInv'
<1>1. SUFFICES ASSUME alone' PROVE (OneAtATime /\ FoundAll /\ OnlyWhileWanted)'
  BY DEF RInv
<1>2. \A u \in Tasks \ {t} : pc'[u] = "idle"
  BY <1>1 DEF Enter, OthersIdle, TypeOK
<1>3. pc'[t] = "store"
  BY DEF Enter, TypeOK
<1>4. QED
  BY <1>2, <1>3 DEF OneAtATime, FoundAll, OnlyWhileWanted, Quiet

\* It stores while nobody reads.
LEMMA StoreRInv ==
  ASSUME TypeOK, RInv, NEW t \in Tasks, NEW f \in Stores, Store(t, f)
  PROVE  RInv'
<1>1. pc[t] = "store" /\ alone' = alone
  BY DEF Store, history, TypeOK
<1>2. SUFFICES ASSUME alone PROVE (OneAtATime /\ FoundAll /\ OnlyWhileWanted)'
  BY <1>1 DEF RInv
<1>3. \/ /\ pc' = [pc EXCEPT ![t] = "apply"]
         /\ unread' = [unread EXCEPT ![t] = Parts \X Kinds] /\ need' = [need EXCEPT ![t] = {}]
      \/ pc' = pc
  BY DEF Store, EnterApply, task
<1>4. \A u \in Tasks \ {t} : pc'[u] = "idle"
  BY <1>1, <1>2, <1>3 DEF RInv, OneAtATime, TypeOK
<1>5. pc'[t] = "store" \/ (pc'[t] = "apply" /\ unread'[t] = Parts \X Kinds /\ need'[t] = {})
  <2>1. pc' = [pc EXCEPT ![t] = "apply"] => pc'[t] = "apply"
    BY DEF TypeOK
  <2>2. unread' = [unread EXCEPT ![t] = Parts \X Kinds] => unread'[t] = Parts \X Kinds
    BY DEF TypeOK
  <2>3. need' = [need EXCEPT ![t] = {}] => need'[t] = {}
    BY DEF TypeOK
  <2>4. QED
    BY <1>1, <1>3, <2>1, <2>2, <2>3
<1>6. unread'[t] = Parts \X Kinds => WantedRead(t)' = {}
  BY DEF WantedRead
<1>7. FoundAll'
  BY <1>4, <1>5, <1>6 DEF FoundAll
<1>8. OneAtATime' /\ OnlyWhileWanted'
  BY <1>4, <1>5 DEF OneAtATime, OnlyWhileWanted, Quiet
<1>9. QED
  BY <1>7, <1>8

\* The rest of it looks at sets that do not change.
LEMMA ApplyRInv ==
  ASSUME TypeOK, RInv, NEW t \in Tasks,
         \/ ApplyLater(t) \/ RegisterDriver(t)
         \/ \E which \in Parts, k \in Kinds : ReadWanted(t, which, k)
  PROVE  RInv'
<1>0. UNCHANGED <<primary, app, dpi_panel, alone>> /\ pc[t] # "idle"
  BY DEF ApplyLater, RegisterDriver, ReadWanted, sets, history
<1>1. UNCHANGED <<primary, app, dpi_panel, alone>> /\ WantedNow' = WantedNow /\ pc[t] # "idle"
  BY <1>0 DEF WantedNow, Wanted
<1>2. SUFFICES ASSUME alone PROVE (OneAtATime /\ FoundAll /\ OnlyWhileWanted)'
  BY <1>1 DEF RInv
<1>3. \A u \in Tasks \ {t} : pc[u] = "idle" /\ pc'[u] = "idle"
  BY <1>1, <1>2 DEF RInv, OneAtATime, TypeOK, ApplyLater, RegisterDriver, ReadWanted
<1>4. OneAtATime'
  BY <1>3 DEF OneAtATime
<1>5. CASE ApplyLater(t)
  <2>1. ~dpi_panel /\ pc'[t] = "idle"
    BY <1>5 DEF ApplyLater, TypeOK
  <2>2. QED
    BY <1>1, <1>3, <1>4, <2>1 DEF FoundAll, OnlyWhileWanted
<1>6. CASE RegisterDriver(t)
  <2>1. pc[t] = "register" /\ pc'[t] = "idle" /\ slot' = need[t]
    BY <1>6 DEF RegisterDriver, TypeOK
  <2>2. slot' = WantedNow
    BY <1>2, <2>1 DEF RInv, FoundAll
  <2>3. OnlyWhileWanted'
    BY <1>1, <2>2 DEF OnlyWhileWanted, WantedNow, Wanted
  <2>4. FoundAll'
    BY <1>3, <2>1 DEF FoundAll
  <2>5. QED
    BY <1>4, <2>3, <2>4
<1>7. ASSUME NEW which \in Parts, NEW k \in Kinds, ReadWanted(t, which, k)
      PROVE  (OneAtATime /\ FoundAll /\ OnlyWhileWanted)'
  <2>1. /\ pc[t] = "apply" /\ <<which, k>> \in unread[t]
        /\ unread'[t] = unread[t] \ {<<which, k>>}
        /\ need'[t] = (IF Wanted(which, k) THEN need[t] \cup {k} ELSE need[t])
        /\ pc'[t] = (IF unread[t] = {<<which, k>>} THEN "register" ELSE "apply")
    BY <1>7 DEF ReadWanted, TypeOK
  <2>2. need[t] = WantedRead(t)
    BY <1>2, <2>1 DEF RInv, FoundAll
  <2>3. \A w \in Parts, j \in Kinds : Wanted(w, j)' = Wanted(w, j)
    BY <1>1 DEF Wanted
  <2>4. need'[t] = WantedRead(t)'
    <3>1. \A j \in Kinds : j \in WantedRead(t)' <=> j \in WantedRead(t) \/ (j = k /\ Wanted(which, k))
      BY <2>1, <2>3 DEF WantedRead
    <3>2. need'[t] \subseteq Kinds /\ WantedRead(t)' \subseteq Kinds
      BY <2>1, <2>2 DEF WantedRead
    <3>3. QED
      BY <2>1, <2>2, <3>1, <3>2
  <2>5. pc'[t] = "register" => WantedRead(t)' = WantedNow'
    BY <2>1 DEF WantedRead, WantedNow
  <2>6. FoundAll'
    BY <1>3, <2>1, <2>4, <2>5 DEF FoundAll
  <2>7. OnlyWhileWanted'
    BY <2>1 DEF OnlyWhileWanted, Quiet
  <2>8. QED
    BY <1>4, <2>6, <2>7
<1>8. QED
  BY <1>5, <1>6, <1>7

LEMMA NextRInv == ASSUME TypeOK, RInv, [Next]_vars PROVE RInv'
<1>1. CASE Beside \/ UNCHANGED vars
  <2>1. UNCHANGED <<primary, app, dpi_panel, slot, pc, unread, need, alone>>
    BY <1>1 DEF Beside, Trampoline, PrimaryReturns, CheckCache, AppReturns, Unload, CacheOff, CacheBackOn,
                sets, task, history, vars
  <2>2. QED
    BY <2>1 DEF RInv, OneAtATime, FoundAll, OnlyWhileWanted, Quiet, WantedNow, WantedRead, Wanted
<1>2. QED
  BY NextCases, <1>1, EnterRInv, StoreRInv, ApplyRInv DEF RegisterPrimary, RegisterApp

\* However wrong registrations at the same time have left the driver, the next one that
\* runs with no other beside it registers exactly the trampolines that are wanted.
THEOREM NextRegistrationRepairs == Spec => []RepairedAlone
<1>1. Init => RInv
  BY DEF Init, RInv, OneAtATime, FoundAll, OnlyWhileWanted
<1>2. RInv => RepairedAlone
  BY DEF RInv, RepairedAlone
<1>3. TypeOK /\ RInv /\ [Next]_vars => RInv'
  BY NextRInv
<1>4. QED
  BY <1>1, <1>2, <1>3, DisplayStateIsTyped, PTL DEF Spec
=============================================================================
