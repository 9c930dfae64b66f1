---------------------------- MODULE HidKeyboard ----------------------------
(***************************************************************************)
(* components/gl_input/gl_hidhost.c, the keyboard half: a boot report is   *)
(* compared with the previous one, every difference becomes events in the  *)
(* BSP's queue, and a mirror of what is held is published for the polled   *)
(* API.  The previous report and the mirror are one each, shared by all    *)
(* keyboards, and only the mirror is cleared when a device disconnects.    *)
(*                                                                         *)
(* Two actors: the task of the HID host, which runs the callbacks one at a *)
(* time, and the app, which reads the queue and polls between any two      *)
(* events.  The tables are excerpts: four usages that differ in what they  *)
(* inject, and the modifiers chosen by Mods.                               *)
(***************************************************************************)
EXTENDS Naturals, Sequences, SequencesExt

CONSTANTS
    Keyboards, Mice,       \* the devices that may be plugged in
    Usages,                \* key usages the keyboards have, out of Usage
    Mods,                  \* modifier keys they have, out of modifier_map
    HID_KEYBOARD_KEY_MAX,  \* key slots of a report; 6 in the source
    QueueCap               \* room in the BSP's event queue

Usage == {"A", "ENTER", "SLASH", "KP_SLASH"}
modifier_map == << "CTRL_L", "SHIFT_L", "ALT_L", "SUPER_L", "CTRL_R", "SHIFT_R", "ALT_R", "SUPER_R" >>

ASSUME HidAssumption ==
    /\ Usages \subseteq Usage /\ Mods \subseteq ToSet(modifier_map)
    /\ HID_KEYBOARD_KEY_MAX \in Nat \ {0} /\ QueueCap \in Nat \ {0}

Devices == Keyboards \cup Mice
Slot == 1 .. HID_KEYBOARD_KEY_MAX

\* The scancode, navigation key and characters of a usage; "none" injects nothing.
hid_to_bsp_scancode == [A |-> "A", ENTER |-> "ENTER", SLASH |-> "SLASH", KP_SLASH |-> "SLASH"]
hid_to_bsp_nav == [A |-> "none", ENTER |-> "RETURN", SLASH |-> "none", KP_SLASH |-> "none"]
hid_to_ascii_unshifted == [A |-> "a", ENTER |-> "none", SLASH |-> "/", KP_SLASH |-> "none"]
hid_to_ascii_shifted == [A |-> "A", ENTER |-> "none", SLASH |-> "?", KP_SLASH |-> "none"]

\* What a keyboard can report: each slot a usage or nothing, no usage twice, or the
\* rollover error in every slot when too many keys are down.
Reports ==
    { r \in [keys : [Slot -> Usages \cup {"none"}], mods : SUBSET Mods] :
        \A i, j \in Slot : i # j /\ r.keys[i] = r.keys[j] => r.keys[i] = "none" }
    \cup [keys : {[i \in Slot |-> "rollover"]}, mods : SUBSET Mods]
Nothing == [keys |-> [i \in Slot |-> "none"], mods |-> {}]

VARIABLES
    plugged,   \* devices opened and started
    actual,    \* what each device last reported
    prev,      \* prev_keys and prev_modifier
    held,      \* held_keys and held_modifier
    cur,       \* the report being handled
    todo,      \* events its callback has still to inject
    pc,        \* "idle" or "inject": the HID host's task
    queue,     \* the BSP's event queue
    appDown,   \* scancodes that the app takes to be down, from the events it read
    owed,      \* history: keys newly down in the report being handled whose press
               \* is not among its events
    adrift,    \* history: scancodes whose latest event was lost
    lost       \* history: scancodes of which an event was lost at any time

drops == <<adrift, lost>>
vars == <<plugged, actual, prev, held, cur, todo, pc, queue, appDown, owed, drops>>
-----------------------------------------------------------------------------
(* Reports and events *)

\* Keys above HID_KEY_ERROR_UNDEFINED.
Down(r) == {r.keys[i] : i \in Slot} \ {"none", "rollover"}
Codes(r) == {hid_to_bsp_scancode[k] : k \in Down(r)} \cup r.mods

inject_scancode(c, pressed) == <<[type |-> "SCANCODE", code |-> c, pressed |-> pressed]>>
inject_navigation(k, pressed, mods) ==
    IF k = "none" THEN <<>> ELSE <<[type |-> "NAVIGATION", key |-> k, pressed |-> pressed, mods |-> mods]>>
inject_ascii(a, mods) ==
    IF a = "none" THEN <<>> ELSE <<[type |-> "KEYBOARD", ascii |-> a, mods |-> mods]>>

on_key_press(k, mods) ==
    inject_scancode(hid_to_bsp_scancode[k], TRUE) \o inject_navigation(hid_to_bsp_nav[k], TRUE, mods)
      \o inject_ascii(IF mods \cap {"SHIFT_L", "SHIFT_R"} # {}
                        THEN hid_to_ascii_shifted[k] ELSE hid_to_ascii_unshifted[k], mods)

\* Mutant: a release without its scancode.
ReleaseNavigationOnly(k, mods) == inject_navigation(hid_to_bsp_nav[k], FALSE, mods)

on_key_release(k, mods) ==
    inject_scancode(hid_to_bsp_scancode[k], FALSE) \o inject_navigation(hid_to_bsp_nav[k], FALSE, mods)

inject_modifier_changes(was, now) ==
    FlattenSeq([i \in DOMAIN modifier_map |->
                  LET m == modifier_map[i]
                  IN  IF (m \in was) # (m \in now) THEN inject_scancode(m, m \in now) ELSE <<>>])

\* The events of slot i: its old key released, its new key pressed.
SlotEvents(old, new, i) ==
    (IF old.keys[i] \in Down(old) \ Down(new) THEN on_key_release(old.keys[i], new.mods) ELSE <<>>)
      \o (IF new.keys[i] \in Down(new) \ Down(old) THEN on_key_press(new.keys[i], new.mods) ELSE <<>>)

\* Mutant: the modifiers after the keys.
KeysFirst(old, new) ==
    FlattenSeq([i \in Slot |-> SlotEvents(old, new, i)]) \o inject_modifier_changes(old.mods, new.mods)

\* All that hid_host_keyboard_report_callback injects for a report.
ReportEvents(old, new) ==
    inject_modifier_changes(old.mods, new.mods) \o FlattenSeq([i \in Slot |-> SlotEvents(old, new, i)])

\* gl_hidhost_scancode_held
gl_hidhost_scancode_held(c) == c \in Codes(held)
-----------------------------------------------------------------------------

Init ==
    /\ plugged = {} /\ actual = [d \in Devices |-> Nothing]
    /\ prev = Nothing /\ held = Nothing /\ cur = Nothing
    /\ todo = <<>> /\ pc = "idle" /\ queue = <<>> /\ appDown = {} /\ owed = {}
    /\ adrift = {} /\ lost = {}

Connect(d) ==
    /\ d \notin plugged /\ plugged' = plugged \cup {d}
    /\ UNCHANGED <<actual, prev, held, cur, todo, pc, queue, appDown, owed, drops>>

\* A keyboard reports a change, and its callback begins.
Report(d, r) ==
    /\ pc = "idle" /\ d \in plugged \cap Keyboards /\ r # actual[d]
    /\ actual' = [actual EXCEPT ![d] = r]
    /\ cur' = r /\ pc' = "inject"
    /\ todo' = ReportEvents(prev, r)
    /\ owed' = { k \in Down(r) \ Down(actual[d]) :
                   inject_scancode(hid_to_bsp_scancode[k], TRUE)[1] \notin ToSet(todo') }
    /\ UNCHANGED <<plugged, prev, held, queue, appDown, drops>>

\* The scancode that an event is about, if it is about one, and what it does to the
\* scancodes that are down.
Code(e) == IF e.type = "SCANCODE" THEN {e.code} ELSE {}
After(S, e) ==
    IF e.type = "SCANCODE" /\ e.pressed THEN S \cup Code(e) ELSE S \ Code(e)

\* bsp_input_inject_event: without room the event is lost, and the result is ignored.
Write(e) ==
    \/ /\ Len(queue) < QueueCap /\ queue' = Append(queue, e)
       /\ adrift' = adrift \ Code(e)
       /\ UNCHANGED lost
    \/ /\ Len(queue) = QueueCap /\ UNCHANGED queue
       /\ adrift' = adrift \cup Code(e)
       /\ lost' = lost \cup Code(e)

Inject ==
    /\ todo # <<>> /\ todo' = Tail(todo)
    /\ Write(Head(todo))
    /\ UNCHANGED <<plugged, actual, prev, held, cur, pc, appDown, owed>>

\* Mutant: the callback ends with events still to inject.
PublishEarly ==
    /\ pc = "inject" /\ held' = cur /\ prev' = cur
    /\ pc' = "idle" /\ owed' = {}
    /\ UNCHANGED <<plugged, actual, cur, todo, queue, appDown, drops>>

\* The callback publishes what is held and remembers the report.
Publish ==
    /\ pc = "inject" /\ todo = <<>>
    /\ held' = cur /\ prev' = cur
    /\ pc' = "idle" /\ owed' = {}
    /\ UNCHANGED <<plugged, actual, cur, todo, queue, appDown, drops>>

\* Mutant: a disconnect that leaves the mirror alone.
KeepHeld == held

HeldAfterDisconnect == Nothing

\* HID_HOST_INTERFACE_EVENT_DISCONNECTED, for any device: only the mirror is cleared.
Disconnect(d) ==
    /\ pc = "idle" /\ d \in plugged /\ plugged' = plugged \ {d}
    /\ held' = HeldAfterDisconnect
    /\ actual' = [actual EXCEPT ![d] = Nothing]
    /\ UNCHANGED <<prev, cur, todo, pc, queue, appDown, owed, drops>>

\* The app reads an event.
Receive ==
    /\ queue # <<>> /\ queue' = Tail(queue)
    /\ appDown' = After(appDown, Head(queue))
    /\ UNCHANGED <<plugged, actual, prev, held, cur, todo, pc, owed, drops>>

Next ==
    \/ \E d \in Devices : Connect(d) \/ Disconnect(d)
    \/ \E d \in Keyboards, r \in Reports : Report(d, r)
    \/ Inject \/ Publish \/ Receive

Spec == Init /\ [][Next]_vars

\* The HID host's task finishes a callback it has begun, and the app reads its queue.
FairSpec == Spec /\ WF_vars(Inject \/ Publish) /\ WF_vars(Receive)
-----------------------------------------------------------------------------
(* Properties *)

AllCodes == ToSet(modifier_map) \cup {hid_to_bsp_scancode[k] : k \in Usages}

TypeOK ==
    /\ plugged \subseteq Devices
    /\ actual \in [Devices -> Reports] /\ {prev, held, cur} \subseteq Reports
    /\ pc \in {"idle", "inject"}
    /\ pc = "idle" => todo = <<>>
    /\ Len(queue) <= QueueCap
    /\ appDown \cup lost \subseteq AllCodes
    /\ owed \subseteq Usages /\ adrift \subseteq lost

\* The scancodes that two keys inject: of the source's table, that of the slashes.
SharedCodes ==
    {hid_to_bsp_scancode[k] : k \in {l \in Usages :
        \E m \in Usages \ {l} : hid_to_bsp_scancode[m] = hid_to_bsp_scancode[l]}}

\* The events in flight, oldest first, and what the app will take to be down when
\* it has read the first i of them.
Stream == queue \o todo
DownAfter == LET f[i \in 0 .. Len(Stream)] == IF i = 0 THEN appDown ELSE After(f[i - 1], Stream[i]) IN f

\* The events describe the reports, whichever keyboards sent them and whatever was
\* unplugged between them: when the app has read all that are in flight, it takes a key
\* to be down exactly if the last report has it down, unless the latest event of that
\* key was lost; and as long as none was, it never sees a key pressed that is down or
\* released that is up.  A key that shares its scancode may be up for the app while it
\* is down, as the other one's release is taken for its own; but it is never stuck.
Replay ==
    /\ LET reported == Codes(IF pc = "idle" THEN prev ELSE cur)
           pending == {e.code : e \in {f \in ToSet(todo) : f.type = "SCANCODE"}}
           end == DownAfter[Len(Stream)]
       IN  \A c \in AllCodes :
               \/ (c \in end) = (c \in reported)
               \/ c \in SharedCodes \ end
               \/ c \in adrift \ pending
    /\ \A i \in DOMAIN Stream : \A c \in Code(Stream[i]) \ (lost \cup SharedCodes) :
           (c \in DownAfter[i - 1]) = ~Stream[i].pressed

\* The modifiers that a navigation or character event carries are those the
\* scancode events before it have put down, but for those that lost an event.
ModifiersAgree ==
    \A i \in DOMAIN Stream :
        Stream[i].type # "SCANCODE" =>
            Stream[i].mods \ lost = (DownAfter[i - 1] \cap ToSet(modifier_map)) \ lost

\* Between two reports the polled API never reports a key that no connected
\* keyboard holds, whatever was plugged in or out.
NoGhostHeld ==
    pc = "idle" =>
        \A c \in Codes(held) : \E d \in plugged : c \in Codes(actual[d])

\* A key that the last report has up is eventually up for the app too, unless it is
\* pressed again or its latest event was lost.
ReleaseSeen ==
    \A c \in {hid_to_bsp_scancode[k] : k \in Usages} :
        (pc = "idle" /\ c \notin Codes(prev)) ~> (c \notin appDown \/ c \in adrift \/ (pc # "idle" /\ c \in Codes(cur)))

\* gl_hidhost.c: events are injected per keypress.
EveryPressInjected == owed = {}
=============================================================================
