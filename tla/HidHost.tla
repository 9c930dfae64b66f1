------------------------------- MODULE HidHost -------------------------------
(***************************************************************************)
(* The life cycle of the USB HID host: components/gl_input/gl_hidhost.c,   *)
(* gl_hidhost_init, usb_lib_task, hid_host_device_callback and             *)
(* event_pump_task, with the USB host library and the HID driver as the    *)
(* code uses them.  A device that comes back is another element of         *)
(* Devices, as it gets another handle.                                     *)
(***************************************************************************)
EXTENDS Integers, Sequences

CONSTANTS Devices,     \* interfaces that may be plugged in, by handle
          ProtoNone,   \* those with HID_PROTOCOL_NONE, which are not opened
          BootClass,   \* those of HID_SUBCLASS_BOOT_INTERFACE
          Refusing,    \* those that may stall set_protocol or set_idle
          QueueLen,    \* entries of app_event_queue: 10 in the code
          MaxCalls,    \* bound on the calls of gl_hidhost_init per boot
          NULL

ASSUME HidHostAssumption ==
  /\ ProtoNone \subseteq Devices /\ Refusing \subseteq BootClass /\ BootClass \subseteq Devices
  /\ QueueLen \in Nat \ {0} /\ MaxCalls \in Nat \ {0}
  /\ NULL \notin Devices

VARIABLES
  initialized,      \* the static flag
  app_event_queue,  \* the queue of announcements; queueThere: it is not NULL
  queueThere,
  main,             \* where the caller stands in gl_hidhost_init
  notified,         \* the caller's task notification count
  lib,              \* the usb_lib_task that each call has started
  pump, handling,   \* where event_pump_task stands, and with which device
  host, hid,        \* USB host library installed; HID driver installed on it
  noClients,        \* USB_HOST_LIB_EVENT_FLAGS_NO_CLIENTS is pending
  dev,              \* each device, as the HID driver knows it
  panicked,         \* an ESP_ERROR_CHECK has failed
  calls, failed,    \* history: calls so far; a step of one has failed
  excused           \* history: announcements that nobody could take

callVars == <<main, calls, failed>>
readyVars == <<initialized, queueThere>>
libVars == <<lib, host, noClients>>
pumpVars == <<pump, handling, app_event_queue>>
devVars == <<dev, excused>>
hidVars == <<callVars, readyVars, libVars, pumpVars, devVars, notified, hid, panicked>>

Calls == 1..MaxCalls

HidTypeOK ==
  /\ initialized \in BOOLEAN /\ queueThere \in BOOLEAN /\ host \in BOOLEAN /\ hid \in BOOLEAN
  /\ noClients \in BOOLEAN /\ panicked \in BOOLEAN /\ failed \in BOOLEAN
  /\ app_event_queue \in Seq(Devices) /\ Len(app_event_queue) <= QueueLen
  /\ main \in {"idle", "create", "wait", "hid", "queue", "pump"}
  /\ notified \in Nat /\ calls \in 0..MaxCalls
  /\ lib \in [Calls -> {"none", "install", "loop", "stop", "gone"}]
  /\ pump \in {"none", "receive", "params", "open", "protocol", "start"}
  /\ handling \in Devices \cup {NULL} /\ (handling = NULL <=> pump \in {"none", "receive"})
  /\ dev \in [Devices -> {"out", "plugged", "idle", "open", "started", "gone"}]
  /\ excused \subseteq Devices

HidInit ==
  /\ initialized = FALSE /\ queueThere = FALSE /\ app_event_queue = <<>>
  /\ main = "idle" /\ notified = 0 /\ lib = [i \in Calls |-> "none"]
  /\ pump = "none" /\ handling = NULL /\ host = FALSE /\ hid = FALSE /\ noClients = FALSE
  /\ dev = [d \in Devices |-> "out"] /\ panicked = FALSE
  /\ calls = 0 /\ failed = FALSE /\ excused = {}

-----------------------------------------------------------------------------
(* gl_hidhost_init, in its caller's task                                    *)

\* An initialised host is left alone.
Call ==
  /\ main = "idle" /\ calls < MaxCalls /\ calls' = calls + 1
  /\ main' = IF initialized THEN "idle" ELSE "create"
  /\ UNCHANGED <<failed, readyVars, libVars, pumpVars, devVars, notified, hid, panicked>>

\* A step succeeds and the next one follows, or an error is returned.
Step(from, to) == main = from /\ main' = to /\ UNCHANGED <<calls, failed>>
Fail(from) == main = from /\ main' = "idle" /\ failed' = TRUE /\ UNCHANGED calls

\* What was started before an error stays.
InitFails ==
  /\ \/ \E from \in {"create", "hid", "queue", "pump"} : Fail(from) /\ UNCHANGED noClients
     \/ host /\ ~hid /\ Fail("hid") /\ noClients' = TRUE  \* withdrawn as a client
  /\ UNCHANGED <<readyVars, lib, host, pumpVars, devVars, notified, hid, panicked>>

CreateLibTask ==
  /\ Step("create", "wait") /\ lib' = [lib EXCEPT ![calls] = "install"]
  /\ UNCHANGED <<readyVars, host, noClients, pumpVars, devVars, notified, hid, panicked>>

\* Mutant: a wait without a bound.
WaitForEver ==
  /\ Step("wait", "hid") /\ notified > 0 /\ notified' = notified - 1
  /\ UNCHANGED <<readyVars, libVars, pumpVars, devVars, hid, panicked>>

\* ulTaskNotifyTake(pdFALSE, 1000 ms), whose result nobody looks at.
WaitForLib ==
  /\ Step("wait", "hid") /\ notified' = IF notified > 0 THEN notified - 1 ELSE 0
  /\ UNCHANGED <<readyVars, libVars, pumpVars, devVars, hid, panicked>>

InstallHid ==
  /\ Step("hid", "queue") /\ host /\ ~hid /\ hid' = TRUE
  /\ UNCHANGED <<readyVars, libVars, pumpVars, devVars, notified, panicked>>

\* Mutant: ready as soon as there is a queue.
ReadyEarly ==
  /\ Step("queue", "pump") /\ queueThere' = TRUE /\ app_event_queue' = <<>> /\ initialized' = TRUE
  /\ UNCHANGED <<libVars, pump, handling, devVars, notified, hid, panicked>>

CreateQueue ==
  /\ Step("queue", "pump") /\ queueThere' = TRUE /\ app_event_queue' = <<>>
  /\ UNCHANGED <<initialized, libVars, pump, handling, devVars, notified, hid, panicked>>

CreatePump ==
  /\ Step("pump", "idle") /\ pump' = "receive" /\ initialized' = TRUE
  /\ UNCHANGED <<queueThere, libVars, handling, app_event_queue, devVars, notified, hid, panicked>>

-----------------------------------------------------------------------------
(* usb_lib_task of call i                                                   *)

\* ESP_ERROR_CHECK of an error: nothing but a reset follows.
Panic(why) ==
  /\ panicked' = TRUE /\ failed' = (failed \/ why = "install")
  /\ UNCHANGED <<main, calls, readyVars, libVars, pumpVars, devVars, notified, hid>>

LibInstall(i) ==
  /\ lib[i] = "install"
  /\ \/ /\ ~host /\ host' = TRUE /\ notified' = notified + 1
        /\ lib' = [lib EXCEPT ![i] = "loop"]
        /\ UNCHANGED <<callVars, readyVars, noClients, pumpVars, devVars, hid, panicked>>
     \/ Panic("install")

Connected == {d \in Devices : dev[d] \notin {"out", "gone"}}

\* usb_host_device_free_all is not finished while the library has a device.
LibNoClients(i) ==
  /\ lib[i] = "loop" /\ noClients
  /\ \/ /\ lib' = [lib EXCEPT ![i] = "stop"] /\ noClients' = FALSE
        /\ UNCHANGED <<callVars, readyVars, host, pumpVars, devVars, notified, hid, panicked>>
     \/ Connected # {} /\ Panic("busy")

LibUninstall(i) ==
  /\ lib[i] = "stop"
  /\ \/ /\ ~hid /\ host' = FALSE /\ lib' = [lib EXCEPT ![i] = "gone"]
        /\ UNCHANGED <<callVars, readyVars, noClients, pumpVars, devVars, notified, hid, panicked>>
     \/ hid /\ Panic("busy")

-----------------------------------------------------------------------------
(* Devices, the HID driver's task, and event_pump_task                      *)

\* A device appears; or it leaves: the driver closes it if it was opened
\* (hid_host_interface_callback) and refuses its handle from then on.
Plug(d) == dev[d] = "out" /\ dev' = [dev EXCEPT ![d] = "plugged"] /\ UNCHANGED excused
Leave(d) == d \in Connected /\ dev' = [dev EXCEPT ![d] = "gone"] /\ UNCHANGED excused

\* Mutants: a queue that is never full; one that is full an entry early.
SendAlways(d) == Append(app_event_queue, d)
SendIfSpare(d) ==
  IF Len(app_event_queue) + 1 < QueueLen THEN Append(app_event_queue, d) ELSE app_event_queue

\* xQueueSend without a wait.
Send(d) == IF Len(app_event_queue) < QueueLen THEN Append(app_event_queue, d) ELSE app_event_queue

\* hid_host_device_callback.  History: d is excused if QueueLen others were
\* waiting, or nobody had made a queue.
Announce(d) ==
  /\ hid /\ dev[d] = "plugged" /\ dev' = [dev EXCEPT ![d] = "idle"]
  /\ app_event_queue' = IF queueThere THEN Send(d) ELSE app_event_queue
  /\ excused' = IF queueThere /\ Len(app_event_queue) < QueueLen THEN excused ELSE excused \cup {d}
  /\ UNCHANGED <<pump, handling>>

Receive ==
  /\ pump = "receive" /\ app_event_queue # <<>> /\ pump' = "params"
  /\ handling' = Head(app_event_queue) /\ app_event_queue' = Tail(app_event_queue)
  /\ UNCHANGED devVars

\* What the driver accepts: a handle it knows, opened once, asked to change its
\* protocol when open, started last.
Accepts(call, d) ==
  CASE call = "params"   -> dev[d] # "gone"
    [] call = "open"     -> dev[d] = "idle"
    [] call = "protocol" -> dev[d] = "open"
    [] call = "start"    -> dev[d] = "open"

\* Mutant: the protocol is set before the device is open.
ProtocolFirst(call, d) ==
  CASE call = "params"   -> IF d \in ProtoNone THEN "receive" ELSE "protocol"
    [] call = "protocol" -> "open"
    [] call = "open"     -> "start"
    [] call = "start"    -> "receive"

\* hid_host_device_event: the driver's call that follows this one.
NextCall(call, d) ==
  CASE call = "params"   -> IF d \in ProtoNone THEN "receive" ELSE "open"
    [] call = "open"     -> IF d \in BootClass THEN "protocol" ELSE "start"
    [] call = "protocol" -> "start"
    [] call = "start"    -> "receive"

Handle ==
  /\ handling # NULL /\ Accepts(pump, handling)
  /\ pump' = NextCall(pump, handling)
  /\ handling' = IF pump' = "receive" THEN NULL ELSE handling
  /\ dev' = CASE pump = "open"  -> [dev EXCEPT ![handling] = "open"]
              [] pump = "start" -> [dev EXCEPT ![handling] = "started"]
              [] OTHER          -> dev
  /\ UNCHANGED <<app_event_queue, excused>>

Refused ==
  /\ handling # NULL /\ Panic("device")
  /\ ~Accepts(pump, handling) \/ (pump = "protocol" /\ handling \in Refusing)

\* A reset or power cut: another boot begins.
Reset ==
  /\ initialized' = FALSE /\ queueThere' = FALSE /\ app_event_queue' = <<>>
  /\ main' = "idle" /\ notified' = 0 /\ lib' = [i \in Calls |-> "none"]
  /\ pump' = "none" /\ handling' = NULL /\ host' = FALSE /\ hid' = FALSE /\ noClients' = FALSE
  /\ dev' = [d \in Devices |-> "out"] /\ panicked' = FALSE
  /\ calls' = 0 /\ failed' = FALSE /\ excused' = {}

InitStep == InitFails \/ CreateLibTask \/ WaitForLib \/ InstallHid \/ CreateQueue \/ CreatePump
LibStep == \E i \in Calls : LibInstall(i) \/ LibNoClients(i) \/ LibUninstall(i)
DeviceStep ==
  /\ \E d \in Devices : Announce(d) \/ ((Plug(d) \/ Leave(d)) /\ UNCHANGED pumpVars)
  /\ UNCHANGED <<callVars, readyVars, libVars, notified, hid, panicked>>
PumpStep ==
  \/ /\ Receive \/ Handle
     /\ UNCHANGED <<callVars, readyVars, libVars, notified, hid, panicked>>
  \/ Refused
UsbStep == ~panicked /\ (LibStep \/ DeviceStep \/ PumpStep)

HidNext == (~panicked /\ (Call \/ InitStep)) \/ UsbStep \/ Reset
HidSpec == HidInit /\ [][HidNext]_hidVars

-----------------------------------------------------------------------------
(* Properties                                                               *)

\* initialized, which makes every later call a no-op, is set only over a
\* complete stack: library, driver, queue and pump, whatever earlier calls have
\* left behind and whatever the library's tasks do (gl_hidhost_init, usb_lib_task).
ReadyMeansServed == initialized => host /\ hid /\ queueThere /\ pump # "none"

\* The firmware panics only for a device that has left or refuses, or after a
\* step of the initialisation has failed: the pump's own calls are in an order
\* that the driver takes (hid_host_device_event and its ESP_ERROR_CHECKs).
PanicHasCause ==
  panicked => \/ failed
              \/ handling # NULL /\ (dev[handling] = "gone" \/ handling \in Refusing)

\* A device that is announced to a running pump and stays is started, unless
\* QueueLen others were waiting when it was announced (hid_host_device_callback,
\* event_pump_task, hid_host_device_event).
Served ==
  \A d \in Devices \ ProtoNone :
    (dev[d] = "idle" /\ pump # "none" /\ d \notin excused)
      ~> (dev[d] \in {"started", "gone", "out"} \/ panicked)

-----------------------------------------------------------------------------
(* The inductive invariant                                                 *)

\* What each step of gl_hidhost_init, and the flag at its end, has below it.
Layered ==
  /\ hid => host
  /\ initialized \/ main \in {"queue", "pump"} => hid
  /\ initialized \/ main = "pump" => queueThere
  /\ initialized <=> pump # "none"
  /\ main \in {"queue", "pump"} => ~initialized

\* The library winds down only after a failed initialisation.
WindDown == noClients \/ (\E c \in Calls : lib[c] = "stop") => failed

\* A device waits once, unopened, and not while the pump has it in hand.
Waiting ==
  /\ \A k \in 1..Len(app_event_queue) :
       app_event_queue[k] # handling /\ dev[app_event_queue[k]] \in {"idle", "gone"}
  /\ \A j, k \in 1..Len(app_event_queue) : app_event_queue[j] = app_event_queue[k] => j = k

\* The device in hand is as far as the pump's next call needs it, or gone.
InHand ==
  /\ pump \in {"params", "open"} => dev[handling] \in {"idle", "gone"}
  /\ pump \in {"protocol", "start"} => dev[handling] \in {"open", "gone"}

HidIInv == HidTypeOK /\ Layered /\ WindDown /\ Waiting /\ InHand /\ PanicHasCause
=============================================================================
