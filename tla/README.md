# A TLA+ verification project for tanmatsu-graceloader

graceloader is the ESP32-P4 firmware of the Tanmatsu badge that loads an application (an ELF image) from flash or SD
card, gives it the symbols of the firmware, runs it and restarts the badge when it returns. Most of the repository is
vendored, generated or data; its own logic is a few hundred lines of C each for the SD disk layer, USB keyboard input,
display callbacks, the boot sequence, display commands, and two small libraries under the ELF loader. These modules model that logic.

## 1. Inventory

| Component | Source | State | Operations | Hard behaviour |
|---|---|---|---|---|
| SD retry layer | `main/sdcard_retry.c` | card pointer, bounce buffer, three counters | install, read, write, status, ioctl, stats | disturbed and half-done transactions, backoff in ticks, pieces through a shared bounce buffer, resets |
| SD mount | `main/sdcard.c` | mounted flag, LDO handle | power up, mount, install the retry layer | one SDMMC controller shared with ESP-Hosted, failing steps |
| USB keyboard reports | `components/gl_input/gl_hidhost.c` (mapping, report diff, held state) | previous report, held keys and modifiers | report, disconnect, poll | two tasks, bounded event queue, several devices, unplugging with keys down |
| USB host life cycle | `components/gl_input/gl_hidhost.c` (init, tasks, device callback) | initialised flag, connect-event queue | init, library task, event pump | connect before the queue exists, full queue, unplug before open, failed start |
| Merged input API | `components/gl_input/gl_input.c` | none | init, polls that OR two sources | a failed USB start must not fail input |
| Display callbacks | `main/display_callbacks.c` | loader's and app's callback sets, the driver's slot | wrapped register, app register, two ISR trampolines | ISR against task, two registering tasks, sets read without the lock, flash operations on the other core, the app's code going away |
| Fast open | `components/kbelf/src/fastopen.c` | eight slots of stream and buffer | fastopen, fastclose | full table, out of memory, two tasks without a lock |
| Page flipping | `main/graceloader.h` (the recipe), `main/display_callbacks.c` | semaphore, selected buffer | select, drop an old give, wait | restart of a refresh against its callback, skipped callbacks, a stopped display |
| Loader callbacks | `components/kbelf/src/kbelfx.c` | segment memory, caches | allocate, load, cache sync, free | wrap-around of addresses, alignment, short reads, an incoherent I-cache |
| Boot sequence | `main/main.c` | paths, PM lock, which services are up | `app_main`, `restart_to_launcher` | order of start-up and tear-down, failures on the way |
| MIPI DSI command mode | `components/esp_hal_lcd/mipi_dsi_hal.c` | timed-out flag, the controller's FIFOs | write DCS and long packets, read | payloads cut into words, full FIFOs, an answer later than the 50 ms bound |
| Time zone | `main/timezone.c` | none | read NVS, set TZ | - |
| BSP storage shim | `main/storage_shim.c` | a log-once flag | constant answers | - |
| Symbol export | `tools/`, `main/symbol_export.py` | list of exported symbols | extract, generate | a fixed point over two link passes |
| Exported symbol table | `components/kbelf/src/kbelf_lib_all.c` | none (generated) | - | - |
| LCD hardware layer | `components/esp_hal_lcd/` (rest) | registers | PHY start-up, clocks, setters | vendored |
| ELF loader proper | `lib/kbelf` (submodule, not in the repository) | - | - | external |

Interactions: `main.c` starts the services in order, then loads the app through kbelf, which calls `kbelfx.c` for memory
and file access; file access goes through FatFs to the SD retry layer, one request at a time under FatFs's volume lock.
The app calls back into the firmware through exported symbols: it opens files with `fastopen`, polls or awaits input that
`gl_hidhost.c` produces from the USB host task, and registers display callbacks that the DSI driver calls from an ISR.

What makes each modelled component correct:

- SD retry layer: RES_OK means that every sector was carried; nothing but the requested sectors is ever written, and
  those only with the caller's data; a request fails only for a reason; every request is answered.
- Keyboard reports: the events, replayed, give the keys of the last report; the polled mirror never holds a key of a
  keyboard that is gone; a modifier is announced before the event that carries it; a release arrives.
- Display callbacks: an app never disconnects the BSP's callbacks; a callback runs with its own context; nothing outside
  internal RAM runs while the cache is disabled; a trampoline is registered exactly while someone wants it. The first and
  third hold only within limits, which the properties name (section 5).
- Fast open: a buffer lives as long as the stream that uses it, belongs to one stream, and is freed at the end.
- USB host life cycle: `initialized` is set only over a complete stack; an announced device that stays is started; a panic
  has a cause.
- Boot: before the app has run, only its own file, memory or a failed read makes `app_main` go back to the launcher, and a
  panic has its cause in USB (that there may be one at all is a limit, section 5); a card with a drive number is used only through the
  retry layer; app code runs only while it is loaded; every boot ends.
- Page flipping: the buffer drawn into is not on the screen, and every wait ends.
- Loader callbacks: segments lie in their block at the distances they asked for, hold the file's image and are what the
  instruction fetch sees.
- DSI command mode: the panel gets every packet whole and in order, a read tells the truth, every call ends.

## 2. Modules

Every module is written against the C file in its header comment. A definition keeps the name of the function or variable
it stands for where there is one. "History" variables exist only for the properties and no guard reads
them, but for the bound on `ops`.

### BlockDevice and SdRetry (`main/sdcard_retry.c`)

`BlockDevice` is the abstract specification: what FatFs may expect of a disk. Its actions are `Begin`, `Work` (some sectors
move), `Succeed` (all sectors are equal on both sides), `Fail`, `Return` and `Restart`.

`SdRetry` is the layer itself.

| Code | Model |
|---|---|
| `s_card`, the registered drive | `s_card`, `registered`; `Install`, `sd_status` |
| `s_bounce` and the memory behind it | `s_bounce` (where it lies), `bmem` (its sectors); `bounce_buffer`, `NoBounceMemory` |
| `s_retried`, `s_failed`, `s_bounced` | the same |
| `sd_read`, `sd_write` and the loop of `sd_transfer` | `Call`, then `Direct` or `Bounced` for each piece, `AllCarried`, `Return`; locals `done`, `n`, `bouncing` |
| `sd_run` | `Success`, `Disturbed`, `Refused`; local `try` |
| `vTaskDelay(pdMS_TO_TICKS(...))` | `Elapsed` and `Backoff`: the ticks of `SD_BACKOFF_MS`, rounded down, of which the first may be cut short |
| reset, power cut | `Restart`, at any moment |

A failed attempt has moved any subset of its sectors (`Partly`); the card may then stay deaf for a number of ticks from
`Outages`, during which further attempts fail. Where a buffer lies and whether it is aligned are fields of the request, and
`usable_for_dma` and `DriverTakes` (what the driver accepts) are separate definitions, as they are separate in reality:
the code has to predict the driver. `sd_ioctl` changes nothing and is not an action. FatFs's volume lock, outside the
repository, is taken as given: one request at a time.

### HidKeyboard (`components/gl_input/gl_hidhost.c`, reports)

| Code | Model |
|---|---|
| `prev_keys`, `prev_modifier` (statics of the callback) | `prev` |
| `held_keys`, `held_modifier` | `held`; `gl_hidhost_scancode_held` |
| the report callback | `Report` computes the events (`ReportEvents`), `Inject` writes them one at a time, `Publish` ends it |
| `bsp_input_inject_event`, whose result is ignored | `Write`: stored, or lost if the queue is full |
| `HID_HOST_INTERFACE_EVENT_DISCONNECTED` | `Disconnect`, for any device |
| the app's event loop | `Receive` |

Callbacks run one at a time in the HID host's task, so `Report` and `Disconnect` need `pc = "idle"`; the app runs between
any two events. The mapping tables are excerpts: usages that inject a scancode alone, with a navigation key, with a
character, and two that share a scancode. Mice matter only for their unplugging, as
their reports are ignored. `actual` is what each keyboard has last reported, which the code does not keep:
the properties compare the code's one mirror with it. `adrift` and `lost` record which scancodes lost an event to a full
queue, so that the properties ask nothing impossible. A scancode that two keys share (`SharedCodes`: the two slashes) cannot
say which of them is down: with both down, the release of one is the release of the scancode. `Replay` then asks only that
the scancode is never stuck.

### DisplayCallbacks (`main/display_callbacks.c`)

| Code | Model |
|---|---|
| `primary_callbacks`, `app_callbacks`, `dpi_panel` | the same; the sets are `primary` and `app`, functions of their fields |
| `callbacks_lock` | `Free`, or its owner and the stores that the owner has still to do |
| the driver's registered callbacks | `slot`, the kinds for which a trampoline is registered |
| wrapped registration (the BSP's), `graceloader_display_register_callbacks` | `RegisterPrimary`, `RegisterApp` (`Enter` the lock), then `Store` per variable; the last one releases the lock |
| `apply_callbacks` | `ApplyLater`, or `ReadWanted` per set and kind and `RegisterDriver`, with other tasks between them |
| the two trampolines | `Trampoline` (copies under the lock), `PrimaryReturns`, `CheckCache`, `AppReturns` |
| `spi_flash_cache_enabled()` | `cacheOn`, changed by `CacheOff` and `CacheBackOn` |
| `kbelf_dyn_unload` in `main.c` | `Unload` |

A callback is identified with the context it was registered with, so a callback called with another one's context shows.
The stores under the lock are plain ones, in any order: the lock orders them for the trampolines, which take it, and not for
`apply_callbacks`, which reads without it. A `Store` counts as part of the critical section, which no flash operation
interrupts. From outside the repository three things are taken: the driver's registration is one step; a flash operation
first stops the tasks of both cores, outside of critical sections, and interrupts that are not cache-safe, but neither
stops nor awaits a cache-safe one on the other core (ESP-IDF's `spi_flash_disable_interrupts_caches_and_other_cpu`); and
the DSI interrupt is cache-safe, as `display_callbacks.c:4-5` says.

### FastOpen (`components/kbelf/src/fastopen.c`)

`table` is `fast_file_table`; `open`, `uses` and `heap` are the C library's and the allocator's side. `Fopen`,
`MallocFails` or `Setvbuf`, `Search`, `ClaimFile` and `ClaimBuffer` are `fastopen`; `Fastclose`, `Lookup`, `Fclose`, `Free`,
`ClearFile` and `ClearBuffer` are `fastclose`. Each access to shared state is a step of its own. The build without
`FATFS_USE_FASTOPEN`, where both functions pass through, is not modelled.

### HidHost and Boot (`gl_hidhost.c`, life cycle; `main/main.c`, `main/sdcard.c`, `gl_input.c`)

| Code | Model |
|---|---|
| `initialized`, `app_event_queue` | the same, with `queueThere` for a queue that is not NULL |
| `gl_hidhost_init` | `Call`, `CreateLibTask`, `WaitForLib`, `InstallHid`, `CreateQueue`, `CreatePump`; `InitFails` at any step; `main` is where the caller stands |
| `usb_lib_task`, one per call that gets so far | `LibInstall`, `LibNoClients`, `LibUninstall`; `lib[i]` |
| `hid_host_device_callback` | `Announce`: `Send`, without a wait |
| `event_pump_task`, `hid_host_device_event` | `Receive`, then `Handle` for each of the driver's calls in the order of `NextCall`, or `Refused` |
| `ESP_ERROR_CHECK` | `Panic`: only a reset follows |
| `app_main` | `stage`: `TakeLock`, `MountInt`, `StartInput`, `InputStarted`, `Select`, `Load`, `LoadFails`, `RunApp`, `Unload`, `Restart` |
| `sdcard_init` | `PrepareSd`, `NoSd`, `MountSd`, and `InstallRetrying`, which leaves ESP-IDF's disk layer to a card without a drive number |
| `gl_input_init`, which swallows the error | `StartInput` and `InputStarted` |

`Boot` extends `HidHost`: the USB tasks go on beside `app_main`, so that a panic in the pump ends a boot at any stage, and
an app may call the exported `gl_hidhost_init` again. What the driver accepts (`Accepts`) is external: a handle it knows,
opened once, asked for a protocol while open, started last. A device that comes back gets another handle and is another
element of `Devices`. A file that is there may still not be loaded: memory runs out, or the card or flash fails to be read
after all tries (`LoadFails`, `Select`); `cause` keeps which. `main.c`'s install path and the USB pin switch leave nothing
a later step depends on.

### DsiHost (`components/esp_hal_lcd/mipi_dsi_hal.c`, command mode)

| Code | Model |
|---|---|
| the controller's FIFOs | `payload` (words), `commands`, `answers`; `busy` is `gen_rd_cmd_busy` |
| `..._gen_write_dcs_command`, `..._gen_write_long_packet` | `WriteDcs`, `WriteLong` (`Begin`), `PushWord` per word, `PushHeader` |
| `..._gen_read_short_packet` | `BeginRead`, `SetMaximum`, `Ask`, `NotBusy`, `HasData`, `TimedOut`, `Drain` |
| `s_gen_read_timed_out` | the same |
| controller and panel (external) | `Deliver`, `Answer` |

A command has one to three bytes, which take as much of the first word from the parameters (`AfterMerge`); the LCD driver
uses one. Bytes are numbers, so that a parameter that is lost or sent twice shows; an answer carries the identity of the
read it belongs to.

### PageFlip (the recipe in `main/graceloader.h`)

The app's steps are `Drawn`, `DrawBitmap`, `DropOldGive`, `Taken` or `TimedOut`; `Ended` waits for a second callback on later
chips. `Refresh`, `Callback` and `SwitchDisplay` are the driver's; `OnRefreshDone` is the trampoline, which skips the app's
callback while the cache is off. `SameCore` says that the app's task cannot run between the restart of a refresh and
its callback.

### Segments (`components/kbelf/src/kbelfx.c`)

| Code | Model |
|---|---|
| `kbelfx_seg_alloc` | `Scan` per segment, `Allocate`, `Place` per segment; `Add` and `Sub` are `size_t` arithmetic modulo `Word` |
| `kbelfx_load` | `Load`, `LoadShort`; `Fill` is the `memset` and the `fread` |
| kbelf's relocation (external) | `Relocate` |
| `kbelfx_cache_sync` | `CacheSync`; `dirty` and `stale` are what the two caches hold |
| `kbelfx_seg_free` | `SegFree` |

The assumption on `Layouts` is what a linker lays out: segments do not overlap and end within the address space.

## 3. Runs

The `MC*.tla` modules add symmetry or the set of layouts where a configuration needs it, and nothing else. Deadlock is
checked in all runs but `loader`, in which the load really ends.

| Run | Configuration | What it shows |
|---|---|---|
| `sd` | `MCSdRetry.cfg` | types, the inductive part of correctness (`IInv`), that the layer implements `BlockDevice` (`DeviceSpec`), that a request fails only after two disturbances of a piece, or five if all are glitches (`ErrorsAreEarned`), and that every request ends (`Answered`) |
| `hid` | `MCHidKeyboard.cfg` | `Replay`, `ModifiersAgree`, `NoGhostHeld` and `ReleaseSeen` with two keyboards and a mouse coming and going |
| `hid_replug` | `MCHidReplug.cfg` | counterexample to `EveryPressInjected` (finding) |
| `display` | `MCDisplayCallbacks.cfg` | `CalmBspNeverMuted`, `OwnContext`, `ExposedOnlyIfOvertaken`, `RepairedAlone`: registrations after the BSP's cannot cut it off, contexts match, a callback is exposed only to a flash operation that overtakes it, and a registration without overlap repairs the driver's slot |
| `display_unload` | `MCDisplayUnload.cfg` | counterexample to `CallsLoadedCode` (finding) |
| `fastopen` | `MCFastOpen.cfg` | one task: buffers outlive their streams, nothing leaks, free slots are free |
| `fastopen_untracked` | `MCFastOpenUntracked.cfg` | counterexample to `UntrackedHasNoBuffer` with a full table (finding) |
| `fastopen_tasks` | `MCFastOpenTasks.cfg` | counterexample to `BuffersLive` with two tasks (finding) |
| `boot` | `MCBoot.cfg` | every step of the boot and of the USB start-up failing or not: `ReadyMeansServed`, `PanicHasCause`, `Served`, `RestartIsEarned`, `AppOnSolidGround`, `BootEnds` |
| `dsi` | `MCDsiHost.cfg` | `PanelGetsPackets`, `ReadTellsTruth`, `CallsEnd` with FIFOs that fill up and a panel that answers early, late, at length or never |
| `page_flip` | `MCPageFlip.cfg` | `NoTearing` and `FlipEnds` on both kinds of chip, with flash operations and a display that stops |
| `loader` | `MCSegments.cfg` | `Placement`, `Aligned`, `ImageLoaded`, `FetchSeesCode` for every layout in every block the heap may return |

### Bounds

- `sd`: three sectors of two values, a bounce buffer of two sectors and requests of up to three: a bounced request needs two
  pieces, the second one short; a shorter request has a neighbour that must not change. Outages of 0, 9 and 34 ticks, so
  that a card recovers at different attempts; 34 is the longest outage the backoff outlasts in the worst case at
  100 Hz (0 + 0 + 1 + 9 + 24). One request per boot (`MaxOps`), restarts without limit. A second request in the same
  boot, which meets a bounce buffer already there and perhaps a card still deaf from the first, is left to the proofs, which
  cover any number.
- `hid`: two key slots, a usage that injects both a scancode and a navigation key, one modifier, a queue of one: keys move
  between slots, change two at a time and lose events. Two keys at once in one keyboard, and the two slashes, were run by
  hand with one keyboard; the proofs cover any keys.
- `display`: two tasks are the fewest that can overlap, and no property tells them apart (`TaskSymmetry`); the BSP's callback
  lies in internal RAM, the app's does not. Callbacks with only their code or only their context there are left to the
  proofs. The counterexample of `display_unload` needs one task.
- `fastopen`: three slots and three streams, so that the table is full at times but always large enough; four buffers.
  The violations need two slots.
- `boot`: a boot keyboard that may refuse its protocol and a device that is not a boot device; a queue of one, so that an
  announcement can be lost to a full queue; two calls, the fewest that can repeat a failed or a finished initialisation.
  `HID_PROTOCOL_NONE` devices are left to the proofs and to a run by hand with three devices.
- `dsi`: FIFOs of two words and two commands; commands of one byte and of two with no, three or six parameters: packets
  that fit into their header, fill just one word, or two, or leave a rest, around what is merged with the command; answers
  shorter and longer than the buffer; three reads, so that a late answer meets the next.
- `page_flip`: two buffers as in the recipe; a wait lasts at least two refreshes.
- `loader`: an address space of 32 bytes with blocks aligned to 4 stands for 2^32 and 16: small enough to enumerate
  every block, large enough for blocks below and above what the file asked for; one or two segments in either order.

### Fairness

- `SdRetry!FairSpec` has `WF(SdStep)`: the calling task is in `sd_transfer` and goes on running, `vTaskDelay` returns, and
  the host driver ends each transaction with success or a timeout. Nothing is assumed of FatFs, of the card's health or of
  restarts.
- `HidKeyboard!FairSpec` has `WF(Inject or Publish)`, as the HID task's callback has no blocking call, and `WF(Receive)`: the
  app reads its event queue. The latter is an assumption on the app, without which nothing can be promised to it.
- `Boot!FairSpec` has `WF(MainStep)`, the steps of `app_main` up to the app, whose only wait is bounded, and `WF(PumpStep)` of
  the pump's task. The USB library, devices and the app owe nobody a step.
- `DsiHost!FairSpec` has `WF(HostStep)` and `WF(Deliver)`: the controller sends what it was given. The panel need not answer.
- `PageFlip!FairSpec`: a flash operation ends (`WF` of switching the cache on), a due callback comes, and the app's task and the
  refresh, which flash operations and stops of the display interrupt again and again, run in the end (`SF`). The display
  need not ever be started again.

## 4. Proofs

| Module | Theorems | Assumptions |
|---|---|---|
| `SdRetry_proofs` | `TypeCorrect`, `AcknowledgedIsCarried`: `[]TypeOK`, `[]IInv` | those of the constants |
| | `OneOutageSurvived`: `[]ErrorsAreEarned` | 100 ticks a second, no outage longer than 34 ticks |
| | `ImplementsDevice`: `Spec => DeviceSpec` | those of the constants |
| `HidKeyboard_proofs` | `NoKeyOfTheGone`: `[]NoGhostHeld` | none |
| | `EventsInvariant`, and from it `KeyboardStateIsTyped`, `EventsReplayTheReports`, `ModifiersOfTheEvents`: `[]TypeOK`, `[]Replay`, `[]ModifiersAgree` | those of the constants |
| `DisplayCallbacks_proofs` | `BspStaysConnected`: `[]CalmBspNeverMuted` | the BSP registers once |
| | `DisplayStateIsTyped`, `ContextIsOwn`, `OnlyOvertakenIsExposed`, `NextRegistrationRepairs`: `[]TypeOK`, `[]OwnContext`, `[]ExposedOnlyIfOvertaken`, `[]RepairedAlone` | those of the constants |
| `FastOpen_proofs` | `SequentialBuffersLive`, `FastOpenStateIsTyped`: `[]BuffersLive`, `[]TypeOK` | one task |
| | `SequentialNoLeak`: `[]NoLeak` | one task, no more streams than slots |
| `Boot_proofs` | `BootInvariant`, and from it `HidStateIsTyped`, `BootStateIsTyped`, `ReadyHostIsServed`, `PanicsHaveCauses`, `RestartsAreEarned`, `AppStandsOnSolidGround` | those of the constants |
| `PageFlip_proofs` | `FlipStateIsTyped`: `[]TypeOK` | those of the constants |
| | `RecipeNeverTears`: `[](Covered => NoTearing)` | those of the constants; `Covered` is `SameCore` or a later chip |
| `Segments_proofs` | `SegmentsInvariant`, and from it `SegmentsTypeOK`, `SegmentsPlacement`, `SegmentsImageLoaded`, `SegmentsFetchSeesCode` | those of the constants |
| | `SegmentsAligned`: `[]Aligned` | `AlignmentsNest`: of two alignments, one divides the other |
| `DsiHost_proofs` | `DsiStateIsTyped`, `PanelGetsEveryPacket`, `ReadsTellTheTruth`: `[]TypeOK`, `[]PanelGetsPackets`, `[]ReadTellsTruth` | those of the constants |

The library's induction theorems cannot be used, so an induction goes over a set of numbers: a set that holds 0 and with
each number the next holds all of them (`NatInSet`, from the least element of a well-founded order). What a recursive function
or a fold does to a sequence of any length is proved that way.

**SD.** `IndInv` is `TypeOK /\ IInv` and is inductive. `IInv` has to say more than "RES_OK means carried": that the first
`done` sectors are equal on the card and in memory at every turn of the loop (`DoneIsCarried`), and that the bounce buffer
still holds the caller's piece however often it has been tried (`PieceFits`); a retry that refilled the buffer or a piece
that overran it would break the second before the first. Lemmas on `Overlay`, `Partly`, `Sent` and `Brought` say what a whole
or partial transfer leaves unchanged; there is one lemma per action. The refinement maps `pc` to the three phases of
`BlockDevice` and shows each step to be a device step or a stutter, with `IndInv` supplying what a successful end needs.

**Backoff.** `BackoffInv` bounds what is left of a single outage before each of the five attempts by `Left`,
34, 34, 34, 33 and 24 ticks: two delays vanish in the rounding, the third may last one tick, the fourth nine, and the last
24, which ends it. It also says that without a slow disturbance every attempt so far was disturbed anew, which gives five.

**Keyboards.** `GInv` is inductive: the mirror is empty or the report of a keyboard still plugged in, and so is the report
being handled. It rests on callbacks running one at a time.

The invariant behind `Replay` and `ModifiersAgree` is `HInv /\ RInv`: the types, those of the events in the queue included, and
the properties themselves, scancode by scancode (`FinalInv`, `AlternateInv`, `ModifierInv`). The four kinds of step have a
lemma each. An event that is written stays in flight (`WrittenRInv`). One that is read only moves the app's state along
(`ReceivedRInv`). One that is lost puts the replay wrong for its own scancode and no longer than to its next event: before it
nothing changes, and behind it two replays that agree on a scancode go on agreeing (`SameTrack`, `LostRInv`). A report appends
`ReportEvents` (`ReportRInv`); that these bring each scancode that differs between the two reports, by one event, to where the
new one has it, modifiers first, is `ReportEventsSpell`, built from what each `inject_` function contributes (`Spells`) and two
inductions, over the modifier table and over the slots. A scancode that two keys share may have several events;
for it `Toward` keeps only that nothing is pressed that the report has up.

**Display.** The hard case of `CalmBspNeverMuted` is a registration that reads the BSP's wishes before they are complete.
`Found` (in `MInv`) says that a task that reads, has read or will call the driver has seen every wish of the BSP's that it
looked at. It fails only for one that looks while the BSP's set is half stored, and there is none of those when no
registration was under way as the BSP's took the lock: those that begin later wait for the lock. `CInv` follows the
callbacks through the stores (`HalfStored`: a set under the lock is the new one but for what is left to store) into the
interrupt's copies and from there into the call: a copy is made while the lock is free, so each set is whole (`Whole`) and
each callback keeps its own context; the BSP's is checked before it is stored (`Placed`), so that only the app's can be
exposed, and that only after a look at the cache. `RInv` says that while the latest registration has had no other beside
it, it is the only one under way and what it has found is what is wanted; it needs no assumption on what earlier overlaps
have left behind.

**Fast open.** `LInv` gives the meaning of the locals at each step (`Opening`, `Closing`), with every slot right but the one a
call is writing or clearing, no stream in two slots, and the buffer to be freed used by no open stream. It holds for a full
table too: a buffer nobody remembers leaks but is never freed early. With two tasks it is false, which the run
`fastopen_tasks` shows. For `NoLeak`, `HInv` says that the heap is what open streams use and the buffer being freed,
and that an open stream with a buffer has a slot or is looking for one. The search must then find a slot: it has passed only
slots in use, each has another open stream, and none has the searching one, so that with no more streams than slots the
pigeonhole principle leaves one free (`NeverFull`).

**Boot.** `BootIInv` is inductive. Its part for the USB host, `HidIInv`, adds four things to the types: what each step of the
initialisation stands on (`Layered`), that the library winds down only after a failure (`WindDown`), that a device waits
in the queue once and unopened (`Waiting`), and that the device in hand is as far as the pump's next call needs it
(`InHand`). `ReadyMeansServed` follows since the library's uninstall is refused over an installed driver, and
`PanicHasCause` since the driver accepts the pump's next call by `InHand` unless the device has gone or refuses.
Every step of `Boot` is a step of `HidHost` or leaves it alone (`BootHid`), so that the two invariants are proved
apart. `StageIInv` says what each stage of `app_main` finds done. `RestartIsEarned` is inductive with it: a restart is
reached only from a step that has found the app's file missing or broken or has set `cause`, and a panic's half is
`PanicHasCause`.

**Segments.** `IInv` carries the bounds found by the first loop (`Scanned`), the places given by the second (`PlacedUpTo`) and
that the block ends below the top of the address space. `OffsetCancels` is the heart: the sum modulo `Word` of an address
and a difference modulo `Word` is the true place whether or not either wrapped around, because the place lies in the block.
`FillIInv` says that each later loop has done its work for the segments before `i`: their image is in memory, and after the
synchronisation neither cache hides it. `Apart` shows from the distances that no segment lies over another, so that filling
one leaves the others alone. For `Aligned`, the lowest address has the greatest alignment of all and the block too, so that
the distance to it is a multiple of each segment's (`AlignmentsNest`: alignments are powers of two).

**DSI.** `PacketInv` cuts the payload FIFO by the headers in the command FIFO: some offsets `off` exist such that the words from
`off[j]` on are the payload of packet `j`, word by word, and behind the last of them stand the words of the packet under
way (`Cut`). The code writes a packet's words before its header, so that the cut is what ties the two FIFOs together. A header
is sent with just its words; that these, flattened, give the caller's bytes back is an induction over the words
(`FlattenWords`, `WholePayload`). `ReadInv` says of the answers: before a read asks, none is due if it
began `clean` (`Silent`); after that, only its own is (`OnlyOwn`), and what it has drained are bytes of that one (`Told`).

**Page flipping.** While the app draws, the other buffer is its own (`Free`). During the wait, `Evidence` lists what shows that
the selection has been taken over: a refresh since the wait began, a callback had or due before the last wait, one of each
before the first of two. A callback due when the old give is dropped may be older than the selection, and later chips
need the second wait for it; on old chips with `SameCore` none is ever due. An ended wait is then enough, whether a callback or
the timeout ended it.

Only model-checked is liveness, which is out of the provers' reach: `Answered`, `ReleaseSeen`, `Served`, `BootEnds`,
`CallsEnd`, `FlipEnds`. Every safety property of a passing run is a theorem.

## 5. Findings

1. The previous report survives an unplug: a key held then has no release event, and its first press afterwards has none
   either (`hid_replug`).
2. The loader unloads an app with its display callbacks registered; until the restart each refresh calls freed memory
   (`display_unload`).
3. With all eight slots taken, `fastopen` gives a stream a buffer that nobody will free (`fastopen_untracked`).
4. The table of `fastopen` has no lock: two tasks can claim one slot, and a buffer in use is freed (`fastopen_tasks`).

Known limits, which the properties step around as said and which have no run of their own. Three of them contradict the
repository's comments just as the findings do. Each is an invariant of a module that TLC refutes when it takes the
place of the invariants in the named configuration:

- `BspNeverMuted` (`MCDisplayCallbacks.cfg`): an app's registration that overlaps the BSP's on the other core may see the panel
  (`display_callbacks.c:81`) before the BSP's set is stored and reach the driver last. The BSP's `on_color_trans_done` is
  muted, and `bsp_display_blit` waits, until the app registers again, though `graceloader.h:46` lets an app register "after
  `bsp_device_initialize()` or before". `CalmBspNeverMuted` leaves out just this overlap.
- `CacheSafe` (`MCDisplayCallbacks.cfg`): a flash operation that begins between the trampoline's look at the cache
  (`display_callbacks.c:61`) and the end of the app's callback runs the latter without its code, though `graceloader.h:28` says
  that callbacks are skipped then. This rests on what section 2 takes from ESP-IDF. `ExposedOnlyIfOvertaken` says that there is no
  other way.
- `UsbFailureIsNotFatal` (`MCBoot.cfg`): a failed `usb_host_install` (`gl_hidhost.c:531`) aborts the firmware before the app has
  run, as do a boot keyboard that stalls `set_protocol` or `set_idle` and a device that leaves before it is opened, though
  `gl_input.c:17` calls a USB failure non-fatal. `RestartIsEarned` and `PanicHasCause` ask only that a panic has such a cause.

The others:

- One polled mirror serves all USB keyboards, though `gl_input.h:35` speaks of any connected one: the last report wins, and
  unplugging any device clears it. `NoGhostHeld` asks only that a key in the mirror is held on some keyboard.
- `apply_callbacks` reads the two sets after the lock is released (`display_callbacks.c:85`): of two registrations at once the
  one that changed the sets first may reach the driver last, and the `on_refresh_done` trampoline then stays although nobody
  wants it, or is missing, until the next registration. `RepairedAlone` and `NextRegistrationRepairs` say that this lasts
  no longer, `CalmBspNeverMuted` that the BSP suffers only from an overlap with its own registration.
- The page-flipping recipe for chips below revision 3.0 waits for one callback, "from the same interrupt that restarts the
  refresh". An app on the other core can call `draw_bitmap` between the two; with `SameCore = FALSE`, `NoTearing` has a
  counterexample. The two waits for later chips cover it, as `RecipeNeverTears` says.
- The HID driver is installed (`gl_hidhost.c:598`) before the queue exists (603): a device announced in between is dropped
  (553) and not announced again. `Served` leaves it out (`excused`).
- `gl_hidhost.h` calls `gl_hidhost_init` idempotent; after a failed call another one starts a second library task, whose
  install fails and aborts the firmware. `PanicHasCause` allows a panic after a failure.
- A card that FatFs mounts without a drive number keeps ESP-IDF's disk layer (`sdcard_retry.c:342`), and `sdcard_init` succeeds
  all the same; `AppOnSolidGround` speaks of cards with a number, and of the CPU lock only that it was asked for, since
  `main.c:78` goes on without it.
- FatFs's volume lock, outside the repository, keeps two tasks out of the shared `s_bounce`; the layer has no lock of its own.
- After a timeout, the next DSI read may return the late answer to the one before (`mipi_dsi_hal.c:237`). `ReadTellsTruth`
  speaks of reads that begin with no answer due (`clean`). A payload larger than the payload FIFO would wait for ever, as its
  header comes last; the assumption on `Sizes` excludes it.
- `kbelfx_seg_alloc` aligns the block, not the segments: they keep their alignment only if the lowest requested address
  has that of the most aligned one, which linkers see to and `Aligned` presumes.
- `sdcard.h:23` counts "disk operations", while `s_retried` and `s_bounced` count pieces of an operation, up to one
  per 16 sectors.

## 6. Not modelled

- `timezone.c` and `storage_shim.c`: one pass over NVS calls, and constant answers; no later step depends on them.
- `main.c`'s log of the install path and the switch of the USB pins; strings and their lengths.
- Symbol export: text processing by `grep` and `sort` around two link passes. Its one question, whether the list of symbols
  is a fixed point, is decided by the linker and the libraries.
- The exported symbol table, `kbelf_lib_all.c`, is 9130 generated lines of declarations and one constant table.
- The LCD hardware layer (`*_ll.h`, `lcd_hal.c`, the PHY and clock part of `mipi_dsi_hal.c`) is vendored from ESP-IDF: some 4000
  lines that each write one register field, and clock arithmetic in floating point.
- `lib/kbelf`, FatFs, FreeRTOS, ESP-IDF and the BSP are outside the repository and appear only as the code uses them.
- The build of `fastopen.c` without `FATFS_USE_FASTOPEN`, where both functions pass through.

These make up most of the repository's lines, so that the modules stand for a small share of them: what is
left is the program's own control logic, and all of it is modelled.

## 7. Plan

Done, in order of importance: `BlockDevice` and `SdRetry` with proofs and refinement; `HidKeyboard`; `DisplayCallbacks`;
`FastOpen`; `HidHost` and `Boot` with proofs; `Segments` and `PageFlip` with proofs;
`DsiHost`; the proofs about `HidKeyboard`'s events and about `DsiHost`.

What could follow:

1. `PageFlip` composed with `DisplayCallbacks`: the recipe with registrations that come and go under it.
2. An abstract specification of the event queue that `HidKeyboard` implements up to lost events.
