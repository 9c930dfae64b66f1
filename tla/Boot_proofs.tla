----------------------------- MODULE Boot_proofs -----------------------------
(***************************************************************************)
(* For every set of devices, length of the queue and number of calls of    *)
(* gl_hidhost_init: the USB host is ready only when it is complete, its    *)
(* panics have a cause, and neither card, flash and power management nor   *)
(* an error of gl_hidhost_init make app_main go back to the launcher.      *)
(***************************************************************************)
EXTENDS Boot, SequenceTheorems, TLAPS

\* A boot starts in the invariant of the USB host.
LEMMA HidInitIInv == HidInit => HidIInv
<1> SUFFICES ASSUME HidInit PROVE HidIInv
  OBVIOUS
<1>1. app_event_queue \in Seq(Devices) /\ Len(app_event_queue) = 0
  BY DEF HidInit
<1>2. HidTypeOK
  <2>1. (app_event_queue \in Seq(Devices) /\ Len(app_event_queue) <= QueueLen /\ calls \in 0..MaxCalls)
    BY <1>1, HidHostAssumption DEF HidInit
  <2>2. (lib \in [Calls -> {"none", "install", "loop", "stop", "gone"}])
    BY DEF HidInit
  <2>3. (dev \in [Devices -> {"out", "plugged", "idle", "open", "started", "gone"}])
    BY DEF HidInit
  <2> QED
    BY <2>1, <2>2, <2>3 DEF HidInit, HidTypeOK
<1>3. (Layered /\ WindDown)
  BY DEF HidInit, Layered, WindDown, Calls
<1>4. (Waiting /\ InHand /\ PanicHasCause)
  BY <1>1 DEF HidInit, Waiting, InHand, PanicHasCause
<1> QED
  BY <1>2, <1>3, <1>4 DEF HidIInv

\* And so does the boot after a reset.
LEMMA ResetIInv == Reset => HidIInv'
<1> SUFFICES ASSUME Reset PROVE HidIInv'
  OBVIOUS
<1>1. app_event_queue' \in Seq(Devices) /\ Len(app_event_queue') = 0
  BY DEF Reset
<1>2. HidTypeOK'
  <2>1. (app_event_queue \in Seq(Devices) /\ Len(app_event_queue) <= QueueLen /\ calls \in 0..MaxCalls)'
    BY <1>1, HidHostAssumption DEF Reset
  <2>2. (lib \in [Calls -> {"none", "install", "loop", "stop", "gone"}])'
    BY DEF Reset
  <2>3. (dev \in [Devices -> {"out", "plugged", "idle", "open", "started", "gone"}])'
    BY DEF Reset
  <2> QED
    BY <2>1, <2>2, <2>3 DEF Reset, HidTypeOK
<1>3. (Layered /\ WindDown)'
  BY DEF Reset, Layered, WindDown, Calls
<1>4. (Waiting /\ InHand /\ PanicHasCause)'
  BY <1>1 DEF Reset, Waiting, InHand, PanicHasCause
<1> QED
  BY <1>2, <1>3, <1>4 DEF HidIInv

\* The steps of gl_hidhost_init: each layer is there before the next.
LEMMA InitStepIInv ==
  ASSUME HidIInv, ~panicked, Call \/ InitStep
  PROVE  HidIInv'
<1> USE HidHostAssumption
<1>1. UNCHANGED <<dev, excused, handling, panicked, hid>> \/ InstallHid
  BY DEF Call, InitStep, InitFails, CreateLibTask, WaitForLib, InstallHid, CreateQueue, CreatePump,
         pumpVars, devVars
<1>2. CASE Call
  BY <1>2 DEF Call, readyVars, libVars, pumpVars, devVars, HidIInv, HidTypeOK, Layered, WindDown,
              Waiting, InHand, PanicHasCause
<1>3. CASE InitFails
  BY <1>3 DEF InitFails, Fail, readyVars, libVars, pumpVars, devVars, HidIInv, HidTypeOK, Layered,
              WindDown, Waiting, InHand, PanicHasCause
<1>4. CASE CreateLibTask
  BY <1>4 DEF CreateLibTask, Step, readyVars, pumpVars, devVars, HidIInv, HidTypeOK, Layered,
              WindDown, Waiting, InHand, PanicHasCause
<1>5. CASE WaitForLib
  BY <1>5 DEF WaitForLib, Step, readyVars, libVars, pumpVars, devVars, HidIInv, HidTypeOK, Layered,
              WindDown, Waiting, InHand, PanicHasCause
<1>6. CASE InstallHid
  BY <1>6 DEF InstallHid, Step, readyVars, libVars, pumpVars, devVars, HidIInv, HidTypeOK, Layered,
              WindDown, Waiting, InHand, PanicHasCause
<1>7. CASE CreateQueue
  <2>1. app_event_queue' \in Seq(Devices) /\ Len(app_event_queue') = 0
    BY <1>7 DEF CreateQueue
  <2> QED
    BY <2>1, <1>7 DEF CreateQueue, Step, libVars, devVars, HidIInv, HidTypeOK, Layered,
              WindDown, Waiting, InHand, PanicHasCause
<1>8. CASE CreatePump
  <2>1. pump = "none" /\ handling = NULL
    BY <1>8 DEF CreatePump, Step, HidIInv, HidTypeOK, Layered
  <2> QED
    BY <1>8, <2>1 DEF CreatePump, Step, libVars, devVars, HidIInv, HidTypeOK, Layered,
              WindDown, Waiting, InHand, PanicHasCause
<1> QED
  BY <1>2, <1>3, <1>4, <1>5, <1>6, <1>7, <1>8 DEF InitStep

\* A panic with a cause keeps the invariant.
LEMMA PanicIInv ==
  ASSUME HidIInv, NEW why, Panic(why),
         failed' \/ (handling # NULL /\ (dev[handling] = "gone" \/ handling \in Refusing))
  PROVE  HidIInv'
BY DEF Panic, readyVars, libVars, pumpVars, devVars, HidIInv, HidTypeOK, Layered, WindDown,
       Waiting, InHand, PanicHasCause

\* One usb_lib_task moves: it keeps the library under the driver, and stops only
\* after a failure.
LEMMA LibTaskIInv ==
  ASSUME HidIInv, NEW n \in Calls, NEW s \in {"loop", "stop", "gone"},
         lib' = [lib EXCEPT ![n] = s], s = "stop" => failed,
         host' \in BOOLEAN, hid => host', noClients' \in BOOLEAN, noClients' => noClients,
         notified' \in Nat,
         UNCHANGED <<callVars, readyVars, pumpVars, devVars, hid, panicked>>
  PROVE  HidIInv'
<1> USE DEF callVars, readyVars, pumpVars, devVars
<1>1. lib' \in [Calls -> {"none", "install", "loop", "stop", "gone"}]
  BY DEF HidIInv, HidTypeOK
<1>2. HidTypeOK'
  BY <1>1 DEF HidIInv, HidTypeOK, Calls
<1>3. WindDown'
  <2>1. \A c \in Calls : lib'[c] = "stop" => lib[c] = "stop" \/ failed
    BY DEF HidIInv, HidTypeOK
  <2> QED
    BY <2>1 DEF HidIInv, WindDown
<1>4. Layered'
  BY DEF HidIInv, Layered
<1>5. (Waiting /\ InHand /\ PanicHasCause)'
  BY DEF HidIInv, Waiting, InHand, PanicHasCause
<1> QED
  BY <1>2, <1>3, <1>4, <1>5 DEF HidIInv

\* usb_lib_task: it winds down only after a failure, and never under the driver.
LEMMA LibStepIInv ==
  ASSUME HidIInv, ~panicked, LibStep
  PROVE  HidIInv'
<1> PICK n \in Calls : LibInstall(n) \/ LibNoClients(n) \/ LibUninstall(n)
  BY DEF LibStep
<1>1. CASE LibInstall(n)
  <2>1. CASE Panic("install")
    BY <2>1, PanicIInv DEF Panic
  <2>2. CASE ~Panic("install")
    <3>1. /\ host' = TRUE /\ lib' = [lib EXCEPT ![n] = "loop"] /\ notified' = notified + 1
          /\ UNCHANGED <<callVars, readyVars, noClients, pumpVars, devVars, hid, panicked>>
      BY <1>1, <2>2 DEF LibInstall
    <3>2. /\ host' \in BOOLEAN /\ (hid => host') /\ notified' \in Nat
          /\ noClients' \in BOOLEAN /\ (noClients' => noClients)
      BY <3>1 DEF HidIInv, HidTypeOK, Layered
    <3>3. UNCHANGED <<callVars, readyVars, pumpVars, devVars, hid, panicked>>
      BY <3>1
    <3> QED
      BY <3>1, <3>2, <3>3, LibTaskIInv
  <2> QED
    BY <2>1, <2>2
<1>2. CASE LibNoClients(n)
  <2>1. failed
    BY <1>2 DEF LibNoClients, HidIInv, WindDown
  <2>2. CASE Panic("busy")
    BY <2>1, <2>2, PanicIInv DEF Panic
  <2>3. CASE ~Panic("busy")
    <3>1. /\ lib' = [lib EXCEPT ![n] = "stop"] /\ noClients' = FALSE
          /\ UNCHANGED <<callVars, readyVars, host, pumpVars, devVars, notified, hid, panicked>>
      BY <1>2, <2>3 DEF LibNoClients
    <3>2. /\ host' \in BOOLEAN /\ (hid => host') /\ notified' \in Nat
          /\ noClients' \in BOOLEAN /\ (noClients' => noClients)
      BY <3>1 DEF HidIInv, HidTypeOK, Layered
    <3>3. UNCHANGED <<callVars, readyVars, pumpVars, devVars, hid, panicked>>
      BY <3>1
    <3> QED
      BY <3>1, <3>2, <3>3, <2>1, LibTaskIInv
  <2> QED
    BY <2>2, <2>3
<1>3. CASE LibUninstall(n)
  <2>1. failed
    BY <1>3 DEF LibUninstall, HidIInv, WindDown
  <2>2. CASE Panic("busy")
    BY <2>1, <2>2, PanicIInv DEF Panic
  <2>3. CASE ~Panic("busy")
    <3>1. /\ ~hid /\ host' = FALSE /\ lib' = [lib EXCEPT ![n] = "gone"]
          /\ UNCHANGED <<callVars, readyVars, noClients, pumpVars, devVars, notified, hid, panicked>>
      BY <1>3, <2>3 DEF LibUninstall
    <3> QED
      BY <2>1, <3>1, LibTaskIInv DEF HidIInv, HidTypeOK
  <2> QED
    BY <2>2, <2>3
<1> QED
  BY <1>1, <1>2, <1>3

\* A device comes, goes or is announced: it waits once, if at all.
LEMMA DeviceStepIInv ==
  ASSUME HidIInv, ~panicked, DeviceStep
  PROVE  HidIInv'
<1> USE HidHostAssumption
<1> PICK d \in Devices : Announce(d) \/ ((Plug(d) \/ Leave(d)) /\ UNCHANGED pumpVars)
  BY DEF DeviceStep
<1>0. UNCHANGED <<main, calls, failed, initialized, queueThere, lib, host, noClients, notified,
                  hid, panicked>>
  BY DEF DeviceStep, callVars, readyVars, libVars
<1>1. CASE Plug(d) /\ UNCHANGED pumpVars
  BY <1>0, <1>1 DEF Plug, pumpVars, HidIInv, HidTypeOK, Layered, WindDown, Waiting, InHand,
     PanicHasCause
<1>2. CASE Leave(d) /\ UNCHANGED pumpVars
  BY <1>0, <1>2 DEF Leave, Connected, pumpVars, HidIInv, HidTypeOK, Layered, WindDown, Waiting,
     InHand, PanicHasCause
<1>3. CASE Announce(d)
  <2>1. /\ dev[d] = "plugged" /\ dev' = [dev EXCEPT ![d] = "idle"]
        /\ pump' = pump /\ handling' = handling
        /\ excused' \in SUBSET Devices
        /\ app_event_queue' = app_event_queue \/
             (app_event_queue' = Append(app_event_queue, d) /\ Len(app_event_queue) < QueueLen)
    BY <1>3 DEF Announce, Send, HidIInv, HidTypeOK
  <2>2. /\ app_event_queue \in Seq(Devices) /\ dev \in [Devices -> {"out", "plugged", "idle", "open", "started", "gone"}]
        /\ handling # d \/ pump \in {"none", "receive"}
        /\ \A k \in 1..Len(app_event_queue) : app_event_queue[k] # d
    BY <2>1 DEF HidIInv, HidTypeOK, Waiting, InHand
  <2>3. handling # d
    BY <2>2 DEF HidIInv, HidTypeOK
  <2>4. HidTypeOK'
    <3>1. app_event_queue' \in Seq(Devices) /\ Len(app_event_queue') <= QueueLen
      BY <2>1, <2>2 DEF HidIInv, HidTypeOK
    <3> QED
      BY <1>0, <2>1, <3>1 DEF HidIInv, HidTypeOK
  <2>5. Waiting'
    <3>1. CASE app_event_queue' = app_event_queue
      BY <2>1, <2>2, <2>3, <3>1 DEF HidIInv, HidTypeOK, Waiting
    <3>2. CASE app_event_queue' = Append(app_event_queue, d)
      <4>1. /\ Len(app_event_queue') = Len(app_event_queue) + 1 /\ Len(app_event_queue) \in Nat
            /\ app_event_queue'[Len(app_event_queue) + 1] = d
            /\ \A k \in 1..Len(app_event_queue) :
                 app_event_queue'[k] = app_event_queue[k] /\ app_event_queue[k] \in Devices
        BY <2>2, <3>2
      <4> QED
        BY <4>1, <2>1, <2>2, <2>3 DEF HidIInv, HidTypeOK, Waiting
    <3> QED
      BY <3>1, <3>2, <2>1
  <2> QED
    BY <1>0, <2>1, <2>2, <2>3, <2>4, <2>5
    DEF HidIInv, HidTypeOK, Layered, WindDown, InHand, PanicHasCause
<1> QED
  BY <1>1, <1>2, <1>3

\* event_pump_task: it calls the driver in an order that the driver takes.
LEMMA PumpStepIInv ==
  ASSUME HidIInv, ~panicked, PumpStep
  PROVE  HidIInv'
<1> USE HidHostAssumption
<1>1. CASE Receive /\ UNCHANGED <<callVars, readyVars, libVars, notified, hid, panicked>>
  <2>1. app_event_queue \in Seq(Devices) /\ app_event_queue # <<>>
    BY <1>1 DEF Receive, HidIInv, HidTypeOK
  <2>2. /\ app_event_queue' \in Seq(Devices) /\ Len(app_event_queue) \in Nat
        /\ Len(app_event_queue') = Len(app_event_queue) - 1
        /\ handling' = app_event_queue[1] /\ handling' \in Devices
        /\ \A k \in 1..Len(app_event_queue') : app_event_queue'[k] = app_event_queue[k + 1]
    BY <1>1, <2>1 DEF Receive
  <2>3. pump = "receive" /\ pump' = "params" /\ dev' = dev /\ excused' = excused
    BY <1>1 DEF Receive, devVars
  <2>4. Waiting'
    BY <2>2, <2>3 DEF HidIInv, Waiting
  <2>5. InHand'
    BY <2>1, <2>2, <2>3 DEF HidIInv, Waiting, InHand
  <2>6. HidTypeOK'
    BY <1>1, <2>2, <2>3 DEF callVars, readyVars, libVars, HidIInv, HidTypeOK
  <2> QED
    BY <1>1, <2>3, <2>4, <2>5, <2>6
    DEF callVars, readyVars, libVars, HidIInv, Layered, WindDown, PanicHasCause
<1>2. CASE Handle /\ UNCHANGED <<callVars, readyVars, libVars, notified, hid, panicked>>
  <2>1. /\ handling \in Devices /\ pump \in {"params", "open", "protocol", "start"}
        /\ app_event_queue' = app_event_queue /\ excused' = excused
        /\ handling' = IF pump' = "receive" THEN NULL ELSE handling
    BY <1>2 DEF Handle, HidIInv, HidTypeOK
  <2>2. /\ pump = "params" => pump' \in {"receive", "open"} /\ dev' = dev /\ dev[handling] = "idle"
        /\ pump = "open" => pump' \in {"protocol", "start"} /\ dev' = [dev EXCEPT ![handling] = "open"]
        /\ pump = "protocol" => pump' = "start" /\ dev' = dev
        /\ pump = "start" => pump' = "receive" /\ dev' = [dev EXCEPT ![handling] = "started"]
    BY <1>2, <2>1 DEF Handle, NextCall, Accepts, HidIInv, InHand
  <2>3. HidTypeOK'
    BY <1>2, <2>1, <2>2 DEF callVars, readyVars, libVars, HidIInv, HidTypeOK
  <2>4. Waiting'
    <3>1. \A k \in 1..Len(app_event_queue) : app_event_queue[k] \in Devices
      BY DEF HidIInv, HidTypeOK
    <3>2. \A d \in Devices : d # handling => dev'[d] = dev[d]
      BY <2>1, <2>2 DEF HidIInv, HidTypeOK
    <3> QED
      BY <2>1, <3>1, <3>2 DEF HidIInv, Waiting
  <2>5. InHand'
    BY <2>1, <2>2 DEF HidIInv, HidTypeOK, InHand
  <2> QED
    BY <1>2, <2>1, <2>2, <2>3, <2>4, <2>5
    DEF callVars, readyVars, libVars, HidIInv, Layered, WindDown, PanicHasCause
<1>3. CASE Refused
  <2>1. handling # NULL /\ (~Accepts(pump, handling) \/ (pump = "protocol" /\ handling \in Refusing))
    BY <1>3 DEF Refused
  <2>2. pump \in {"params", "open", "protocol", "start"}
    BY <2>1 DEF HidIInv, HidTypeOK
  <2>3. dev[handling] = "gone" \/ handling \in Refusing
    BY <2>1, <2>2 DEF Accepts, HidIInv, InHand
  <2> QED
    BY <1>3, <2>1, <2>3, PanicIInv DEF Refused
<1> QED
  BY <1>1, <1>2, <1>3 DEF PumpStep

\* Every step of the USB host keeps its invariant.
LEMMA HidNextIInv == HidIInv /\ [HidNext]_hidVars => HidIInv'
<1> SUFFICES ASSUME HidIInv, [HidNext]_hidVars PROVE HidIInv'
  OBVIOUS
<1>1. CASE UNCHANGED hidVars
  BY <1>1 DEF hidVars, callVars, readyVars, libVars, pumpVars, devVars, HidIInv, HidTypeOK,
     Layered, WindDown, Waiting, InHand, PanicHasCause
<1> QED
  BY <1>1, InitStepIInv, LibStepIInv, DeviceStepIInv, PumpStepIInv, ResetIInv
  DEF HidNext, UsbStep

-----------------------------------------------------------------------------

\* A step of the boot is a step of the USB host, or leaves it alone.
LEMMA BootHid == [Next]_vars => [HidNext]_hidVars
<1> SUFFICES ASSUME [Next]_vars PROVE [HidNext]_hidVars
  OBVIOUS
<1>1. CASE MainStep
  BY <1>1 DEF MainStep, StartInput, HidNext
<1>2. CASE AppStep
  BY <1>2 DEF AppStep, HidNext
<1>3. CASE UsbStep
  BY <1>3 DEF HidNext
<1>4. CASE Restart
  BY <1>4 DEF Restart, HidNext
<1>5. CASE UNCHANGED vars
  BY <1>5 DEF vars
<1> QED
  BY <1>1, <1>2, <1>3, <1>4, <1>5 DEF Next

\* What the boot itself keeps true, beside the USB host.
Earned ==
  stage = "restart" /\ ~ran =>
    image.kind \in {"unset", "missing", "broken"} \/ image.at \notin mounted \/ cause # "none"
StageInv == BootTypeOK /\ StageIInv /\ Earned

\* The other half of RestartIsEarned is a matter of the USB host.
LEMMA Halves == BootIInv <=> HidIInv /\ StageInv
  BY DEF BootIInv, StageInv, Earned, RestartIsEarned, HidIInv

\* A boot starts in it, and so does the next one.
LEMMA InitStageInv == BootInit => StageInv
BY DEF BootInit, StageInv, BootTypeOK, StageIInv, Earned, Selected, Preparing, Unread

\* The same, after a restart.
LEMMA RestartStageInv == Restart => StageInv'
<1> SUFFICES ASSUME Restart PROVE StageInv'
  OBVIOUS
<1>1. BootTypeOK'
  BY DEF Restart, BootTypeOK, Unread
<1>2. (StageIInv /\ Earned)'
  BY DEF Restart, StageIInv, Earned, Selected, Preparing
<1> QED
  BY <1>1, <1>2 DEF StageInv

\* Up to the input layer: no failure keeps the boot from going on.
LEMMA StartStageInv ==
  ASSUME StageInv, TakeLock \/ MountInt \/ PrepareSd \/ NoSd \/ MountSd \/ InstallRetrying
         \/ StartInput \/ InputStarted
  PROVE  StageInv'
<1> USE DEF At, StageInv, BootTypeOK, StageIInv, Earned, Selected, Preparing
<1>1. CASE TakeLock
  BY <1>1 DEF TakeLock
<1>2. CASE MountInt
  BY <1>2 DEF MountInt
<1>3. CASE PrepareSd
  BY <1>3 DEF PrepareSd
<1>4. CASE NoSd
  BY <1>4 DEF NoSd
<1>5. CASE MountSd
  BY <1>5 DEF MountSd
<1>6. CASE InstallRetrying
  BY <1>6 DEF InstallRetrying
<1>7. CASE StartInput
  BY <1>7 DEF StartInput
<1>8. CASE InputStarted
  BY <1>8 DEF InputStarted
<1> QED
  BY <1>1, <1>2, <1>3, <1>4, <1>5, <1>6, <1>7, <1>8

\* From the boot selection to the loaded app: a restart has the app's cause.
LEMMA LoadStageInv ==
  ASSUME StageInv,
         \/ Select \/ LoadFails
         \/ Load("create", "open", "created") \/ Load("open", "load", "open")
         \/ Load("load", "init", "loaded")
  PROVE  StageInv'
<1> USE DEF StageInv
<1>1. CASE Select
  <2>1. image' \in Images /\ image'.kind \in {"unset", "missing", "broken", "good"}
    BY <1>1 DEF Select, Images
  <2>2. UNCHANGED <<cpu_max_lock, mounted, numbered, retrying, dyn, ran>> /\ stage = "select"
    BY <1>1 DEF Select
  <2>3. CASE image'.kind \in {"broken", "good"} /\ image'.at \in mounted
    <3>1. (stage' = "create" /\ cause' = cause) \/ (stage' = "restart" /\ cause' = "read error")
      BY <1>1, <2>3 DEF Select
    <3> QED
      BY <2>1, <2>2, <2>3, <3>1 DEF BootTypeOK, StageIInv, Earned, Selected, Preparing
  <2>4. CASE ~(image'.kind \in {"broken", "good"} /\ image'.at \in mounted)
    <3>1. stage' = "restart" /\ cause' = cause
      BY <1>1, <2>4 DEF Select
    <3> QED
      BY <2>1, <2>2, <2>4, <3>1 DEF BootTypeOK, StageIInv, Earned, Selected, Preparing
  <2> QED
    BY <2>3, <2>4
<1>2. CASE LoadFails
  <2>1. /\ stage \in {"create", "open", "load"} /\ stage' = "restart" /\ dyn' = "none"
        /\ UNCHANGED <<cpu_max_lock, mounted, numbered, retrying, image, ran>>
        /\ cause' \in {"none", "no memory", "read error"}
        /\ image.kind = "broken" \/ cause' # "none"
    BY <1>2 DEF LoadFails, Destroy, BootTypeOK
  <2>2. BootTypeOK'
    BY <2>1 DEF BootTypeOK
  <2>3. StageIInv' /\ Earned'
    BY <2>1 DEF StageIInv, Earned, Selected, Preparing
  <2> QED
    BY <2>2, <2>3
<1>3. CASE Load("create", "open", "created") \/ Load("open", "load", "open")
  <2>1. /\ stage \in {"create", "open"} /\ stage' \in {"open", "load"} /\ dyn' \in {"created", "open"}
        /\ UNCHANGED <<cpu_max_lock, mounted, numbered, retrying, image, ran, cause>>
    BY <1>3 DEF Load, At
  <2>2. BootTypeOK' /\ Earned'
    BY <2>1 DEF BootTypeOK, Earned
  <2>3. StageIInv'
    BY <2>1 DEF StageIInv, Selected, Preparing
  <2> QED
    BY <2>2, <2>3
<1>4. CASE Load("load", "init", "loaded")
  BY <1>4 DEF Load, At, BootTypeOK, StageIInv, Earned, Selected, Preparing
<1> QED
  BY <1>1, <1>2, <1>3, <1>4

\* The app runs and is unloaded.
LEMMA RunStageInv ==
  ASSUME StageInv, RunApp \/ Unload
  PROVE  StageInv'
<1> USE DEF At, StageInv, BootTypeOK, StageIInv, Earned, Selected, Preparing
<1>1. CASE RunApp
  BY <1>1 DEF RunApp
<1>2. CASE Unload
  BY <1>2 DEF Unload, Destroy
<1> QED
  BY <1>1, <1>2

\* The whole invariant is inductive.
LEMMA NextBootIInv == BootIInv /\ [Next]_vars => BootIInv'
<1> SUFFICES ASSUME BootIInv, [Next]_vars PROVE BootIInv'
  OBVIOUS
<1>1. HidIInv'
  BY BootHid, HidNextIInv, Halves
<1>2. StageInv
  BY Halves
<1>3. StageInv'
  <2>1. CASE UNCHANGED bootVars
    <3>1. UNCHANGED <<stage, cpu_max_lock, mounted, numbered, retrying, dyn, image, ran, cause>>
      BY <2>1 DEF bootVars
    <3>2. BootTypeOK'
      <4>1. stage' = stage /\ dyn' = dyn /\ image' = image /\ cause' = cause
        BY <3>1
      <4>2. numbered' \in BOOLEAN /\ retrying' \in BOOLEAN /\ ran' \in BOOLEAN
        BY <1>2, <3>1 DEF StageInv, BootTypeOK
      <4> QED
        BY <1>2, <3>1, <4>1, <4>2 DEF StageInv, BootTypeOK
    <3>3. Earned'
      BY <1>2, <3>1 DEF StageInv, Earned
    <3>4. StageIInv'
      <4>1. (stage' \in Preparing <=> stage \in Preparing) /\ (stage' \in Selected <=> stage \in Selected)
            /\ (stage' \in Preparing \ {"install"} <=> stage \in Preparing \ {"install"})
        BY <3>1
      <4> QED
        BY <1>2, <3>1, <4>1 DEF StageInv, StageIInv
    <3> QED
      BY <3>2, <3>3, <3>4 DEF StageInv
  <2>2. CASE ~ UNCHANGED bootVars
    <3>1. CASE MainStep
      <4>1. \/ TakeLock \/ MountInt \/ PrepareSd \/ NoSd \/ MountSd \/ InstallRetrying
            \/ StartInput \/ InputStarted \/ Select
            \/ Load("create", "open", "created") \/ Load("open", "load", "open")
            \/ Load("load", "init", "loaded") \/ LoadFails \/ Unload \/ RunApp
        BY <2>2, <3>1 DEF MainStep
      <4> QED
        BY <1>2, <4>1, StartStageInv, LoadStageInv, RunStageInv
    <3>2. CASE AppStep
      BY <1>2, <2>2, <3>2, RunStageInv DEF AppStep
    <3>3. CASE Restart
      BY <3>3, RestartStageInv
    <3> QED
      BY <2>2, <3>1, <3>2, <3>3 DEF Next, vars
  <2> QED
    BY <2>1, <2>2
<1>4. (BootIInv <=> HidIInv /\ StageInv)'
  BY Halves, PTL
<1> QED
  BY <1>1, <1>3, <1>4

\* Every reachable state of the boot is one of the invariant.
THEOREM BootInvariant == Spec => []BootIInv
<1>1. Init => BootIInv
  BY HidInitIInv, InitStageInv, Halves DEF Init
<1> QED
  BY <1>1, NextBootIInv, PTL DEF Spec

\* Whatever calls of gl_hidhost_init fail and come again, the state of the USB
\* host is well formed and its queue within its bound.
THEOREM HidStateIsTyped == Spec => []HidTypeOK
<1>1. BootIInv => HidTypeOK
  BY DEF BootIInv, HidIInv
<1> QED
  BY <1>1, BootInvariant, PTL

\* A host that is marked initialized has its library, driver, queue and pump, for
\* every number of calls and devices (gl_hidhost_init, usb_lib_task).
THEOREM ReadyHostIsServed == Spec => []ReadyMeansServed
<1>1. BootIInv => ReadyMeansServed
  BY DEF BootIInv, HidIInv, HidTypeOK, Layered, ReadyMeansServed
<1> QED
  BY <1>1, BootInvariant, PTL

\* The firmware panics only for a device that has left or refuses, or after a
\* failed step of the initialisation (event_pump_task, usb_lib_task).
THEOREM PanicsHaveCauses == Spec => []PanicHasCause
<1>1. BootIInv => PanicHasCause
  BY DEF BootIInv, HidIInv
<1> QED
  BY <1>1, BootInvariant, PTL

\* The state of app_main is well formed; it restarts with no kbelf context left.
THEOREM BootStateIsTyped == Spec => []BootTypeOK
<1>1. BootIInv => BootTypeOK
  BY DEF BootIInv
<1> QED
  BY <1>1, BootInvariant, PTL

\* Before the app has run, app_main goes back to the launcher only because the app's
\* file is missing, broken, on no mounted file system or not to be read, or for memory;
\* and a panic that does so has its cause in USB (app_main, gl_input_init).
THEOREM RestartsAreEarned == Spec => []RestartIsEarned
<1>1. BootIInv => RestartIsEarned
  BY DEF BootIInv
<1> QED
  BY <1>1, BootInvariant, PTL

\* Files are looked at after the lock was asked for and, on a card that has a drive
\* number, through the retrying layer; and code of the app runs only while it is
\* loaded (app_main, sdcard_init, sdcard_install_retrying_diskio).
THEOREM AppStandsOnSolidGround == Spec => []AppOnSolidGround
<1>1. BootIInv => AppOnSolidGround
  BY DEF BootIInv, StageIInv, AppOnSolidGround, Preparing
<1> QED
  BY <1>1, BootInvariant, PTL
=============================================================================
