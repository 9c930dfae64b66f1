-------------------------------- MODULE Boot ---------------------------------
(***************************************************************************)
(* The boot sequence, main/main.c: app_main, and sdcard_init of            *)
(* main/sdcard.c, with the USB host of HidHost running beside it.  Setting *)
(* the time zone and switching the USB pins leave nothing that a later     *)
(* step depends on and have no state here.                                 *)
(***************************************************************************)
EXTENDS HidHost

VARIABLES
  stage,         \* where app_main stands
  cpu_max_lock,  \* "held", or "refused" by the power management
  mounted,       \* "/int", "/sd"
  numbered,      \* FatFs has a drive number for the card
  retrying,      \* FatFs reaches the card through sdcard_retry.c
  dyn,           \* kbelf's context: "none", "created", "open" or "loaded"
  image,         \* the boot selection: a path's file system, and what is there
  ran,           \* history: the app's entry was called
  cause          \* history: what has kept app_main from loading a file that is there

bootVars == <<stage, cpu_max_lock, mounted, numbered, retrying, dyn, image, ran, cause>>
vars == <<hidVars, bootVars>>

Images == [at : {"/int", "/sd"}, kind : {"unset", "missing", "broken", "good"}]
Unread == [at |-> "/int", kind |-> "unread"]

BootTypeOK ==
  /\ stage \in {"lock", "int", "ldo", "buffer", "card", "install", "input", "usb", "select",
                "create", "open", "load", "init", "app", "fini", "unload", "restart"}
  /\ cpu_max_lock \in {"none", "held", "refused"}
  /\ mounted \subseteq {"/int", "/sd"}
  /\ numbered \in BOOLEAN /\ retrying \in BOOLEAN /\ ran \in BOOLEAN
  /\ cause \in {"none", "no memory", "read error"}
  /\ dyn \in {"none", "created", "open", "loaded"} /\ (stage = "restart" => dyn = "none")
  /\ image \in Images \cup {Unread}

BootInit ==
  /\ stage = "lock" /\ cpu_max_lock = "none" /\ mounted = {} /\ numbered = FALSE
  /\ retrying = FALSE /\ dyn = "none" /\ image = Unread /\ ran = FALSE /\ cause = "none"

Init == HidInit /\ BootInit

At(from, to) == stage = from /\ stage' = to
\* Mutant: the context is left behind.
KeepContext == UNCHANGED dyn
Destroy == dyn' = "none"

TakeLock ==
  /\ At("lock", "int") /\ cpu_max_lock' \in {"held", "refused"}
  /\ UNCHANGED <<mounted, numbered, retrying, dyn, image, ran, cause>>

MountInt ==
  /\ At("int", "ldo") /\ mounted' \in {mounted, mounted \cup {"/int"}}
  /\ UNCHANGED <<cpu_max_lock, numbered, retrying, dyn, image, ran, cause>>

\* sdcard_init: the LDO, the DMA buffer and the card; without one of them there
\* is no /sd, and the boot goes on.
PrepareSd ==
  /\ At("ldo", "buffer") \/ At("buffer", "card")
  /\ UNCHANGED <<cpu_max_lock, mounted, numbered, retrying, dyn, image, ran, cause>>
\* Mutant: no card, no boot.
NoSdNoBoot ==
  /\ stage \in {"ldo", "buffer", "card"} /\ stage' = "restart"
  /\ UNCHANGED <<cpu_max_lock, mounted, numbered, retrying, dyn, image, ran, cause>>
NoSd ==
  /\ stage \in {"ldo", "buffer", "card"} /\ stage' = "input"
  /\ UNCHANGED <<cpu_max_lock, mounted, numbered, retrying, dyn, image, ran, cause>>
\* Mutant: the card is left to the disk layer of ESP-IDF.
MountOnly ==
  /\ At("card", "input") /\ mounted' = mounted \cup {"/sd"} /\ numbered' \in BOOLEAN
  /\ UNCHANGED <<cpu_max_lock, retrying, dyn, image, ran, cause>>
\* esp_vfs_fat_sdmmc_mount, which gives the card a drive number.
MountSd ==
  /\ At("card", "install") /\ mounted' = mounted \cup {"/sd"} /\ numbered' \in BOOLEAN
  /\ UNCHANGED <<cpu_max_lock, retrying, dyn, image, ran, cause>>
\* sdcard_install_retrying_diskio: without a number, ESP-IDF's layer stays.
InstallRetrying ==
  /\ At("install", "input") /\ retrying' = numbered
  /\ UNCHANGED <<cpu_max_lock, mounted, numbered, dyn, image, ran, cause>>

\* gl_input_init swallows what gl_hidhost_init returns.
StartInput ==
  /\ At("input", "usb") /\ Call
  /\ UNCHANGED <<cpu_max_lock, mounted, numbered, retrying, dyn, image, ran, cause>>
InputStarted ==
  /\ main = "idle" /\ At("usb", "select")
  /\ UNCHANGED <<cpu_max_lock, mounted, numbered, retrying, dyn, image, ran, cause>>

\* stat finds what the launcher has selected only if its file system is there, and
\* its directories can be read.
Select ==
  /\ stage = "select" /\ image' \in Images
  /\ LET there == image'.kind \in {"broken", "good"} /\ image'.at \in mounted
     IN \/ stage' = (IF there THEN "create" ELSE "restart") /\ UNCHANGED cause
        \/ there /\ stage' = "restart" /\ cause' = "read error"
  /\ UNCHANGED <<cpu_max_lock, mounted, numbered, retrying, dyn, ran>>

\* kbelf_dyn_create, kbelf_dyn_set_exec, kbelf_dyn_load: a broken file is found
\* out by one of the latter two, and a good one may fail to be read.
Load(from, to, state) ==
  /\ At(from, to) /\ dyn' = state /\ (to = "init" => image.kind = "good")
  /\ UNCHANGED <<cpu_max_lock, mounted, numbered, retrying, image, ran, cause>>
LoadFails ==
  /\ stage \in {"create", "open", "load"} /\ stage' = "restart" /\ Destroy
  /\ \/ stage # "create" /\ image.kind = "broken" /\ UNCHANGED cause
     \/ stage # "create" /\ cause' = "read error"
     \/ cause' = "no memory"
  /\ UNCHANGED <<cpu_max_lock, mounted, numbered, retrying, image, ran>>

\* The preinit and init arrays, the app, which may return, and the fini array.
RunApp ==
  /\ At("init", "app") \/ At("app", "fini") \/ At("fini", "unload")
  /\ ran' = (ran \/ stage' = "app")
  /\ UNCHANGED <<cpu_max_lock, mounted, numbered, retrying, dyn, image, cause>>
Unload ==
  /\ At("unload", "restart") /\ Destroy
  /\ UNCHANGED <<cpu_max_lock, mounted, numbered, retrying, image, ran, cause>>

\* bsp_device_restart_to_launcher, or a panic's reset; the launcher selects an
\* app and the next boot begins.  A power cut would leave the same: nothing.
Restart ==
  /\ stage = "restart" \/ panicked
  /\ Reset
  /\ stage' = "lock" /\ cpu_max_lock' = "none" /\ mounted' = {} /\ numbered' = FALSE
  /\ retrying' = FALSE /\ dyn' = "none" /\ image' = Unread /\ ran' = FALSE /\ cause' = "none"

\* The steps of the boot that do not wait for the app to return.
MainStep ==
  /\ ~panicked
  /\ \/ /\ \/ TakeLock \/ MountInt \/ PrepareSd \/ NoSd \/ MountSd \/ InstallRetrying
           \/ InputStarted \/ Select \/ Load("create", "open", "created") \/ Load("open", "load", "open")
           \/ Load("load", "init", "loaded") \/ LoadFails \/ Unload
           \/ stage # "app" /\ RunApp
        /\ UNCHANGED hidVars
     \/ StartInput
     \/ InitStep /\ UNCHANGED bootVars

AppStep ==
  /\ stage = "app" /\ ~panicked
  /\ \/ main = "idle" /\ RunApp /\ UNCHANGED hidVars
     \/ Call /\ UNCHANGED bootVars

Next == MainStep \/ AppStep \/ (UsbStep /\ UNCHANGED bootVars) \/ Restart

Spec == Init /\ [][Next]_vars

\* The tasks that are ready go on running; the USB library, a device and the app
\* owe nobody a step.
FairSpec ==
  /\ Spec /\ WF_vars(MainStep)
  /\ WF_vars(~panicked /\ PumpStep /\ UNCHANGED bootVars)

-----------------------------------------------------------------------------
(* Properties                                                               *)

\* Before the app has run, app_main goes back to the launcher only because the app's
\* file is not there, broken or not to be read, or memory has run out: no failure of
\* power lock, flash, card or gl_hidhost_init makes it.  A panic, which goes back too,
\* has its cause in USB: a failed step of the initialisation, or a device in hand that
\* has left or refuses (app_main, sdcard_init, gl_input_init, event_pump_task).
RestartIsEarned ==
  ~ran =>
    /\ stage = "restart" =>
         image.kind \in {"unset", "missing", "broken"} \/ image.at \notin mounted \/ cause # "none"
    /\ panicked => PanicHasCause

\* "Non-fatal: a USB host failure shouldn't prevent the app from booting" (gl_input.c).
\* Not so for a failure that a task of gl_hidhost.c checks with ESP_ERROR_CHECK.
UsbFailureIsNotFatal == panicked => ran

Preparing == {"lock", "int", "ldo", "buffer", "card", "install"}

\* Files are looked at only after the CPU lock was asked for, whatever the answer, and
\* those of a card with a drive number only through the retrying layer; and the code of
\* the app, its init and fini functions too, runs only while it is loaded (app_main,
\* sdcard_init, sdcard_install_retrying_diskio).
AppOnSolidGround ==
  /\ stage \notin Preparing =>
       cpu_max_lock # "none" /\ ("/sd" \in mounted /\ numbered => retrying)
  /\ stage \in {"init", "app", "fini"} => dyn = "loaded" /\ image.kind = "good"

\* A boot ends in the app, in a restart or in a panic: no step of the start-up,
\* the wait for the USB library included, lasts for ever (app_main,
\* gl_hidhost_init).
BootEnds == stage = "lock" ~> (stage \in {"app", "restart"} \/ panicked)

-----------------------------------------------------------------------------
(* The inductive invariant                                                 *)

Selected == {"create", "open", "load", "init", "app", "fini", "unload"}

\* What each stage of app_main finds done.
StageIInv ==
  /\ stage = "lock" => mounted = {}
  /\ stage \notin Preparing /\ "/sd" \in mounted /\ numbered => retrying
  /\ stage \in Preparing \ {"install"} => "/sd" \notin mounted
  /\ stage # "lock" => cpu_max_lock # "none"
  /\ stage \in {"lock", "int", "ldo", "buffer", "card", "install", "input", "usb", "select",
               "restart"} => dyn = "none"
  /\ stage \in {"init", "app", "fini", "unload"} => dyn = "loaded" /\ image.kind = "good"
  /\ stage \in Selected => image.kind \in {"broken", "good"} /\ image.at \in mounted
  /\ stage \in {"app", "fini", "unload"} => ran

BootIInv ==
  HidIInv /\ BootTypeOK /\ StageIInv /\ RestartIsEarned
=============================================================================
