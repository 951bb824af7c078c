------------------------------ MODULE UsbInput ------------------------------
(***************************************************************************)
(* USB gamepads and keyboards (usb_gamepad.cpp, and kbd_parse and hid_parse *)
(* of hidparser.cpp).                                                      *)
(*                                                                         *)
(* usbh_hid_task looks every 100 ms which class instances exist.  For a     *)
(* new one it parses the report descriptor, takes the lowest free joystick *)
(* index and creates a client task; for a vanished one it deletes the task  *)
(* wherever it is.  A client submits a transfer, waits for the callback's  *)
(* semaphore, parses the report and, for the first two indices, stores the *)
(* buttons of player 1 or 2 under state_mutex.  All these tasks have one   *)
(* priority: a tick may switch between any two steps.                      *)
(*                                                                         *)
(* Buttons are one bit.  Which slot a turn of the task looks at first is   *)
(* left open, and so are the start-up packets of an Xbox pad.  hid_state   *)
(* is a union: js_index is the byte a keyboard's report leaves zero.       *)
(***************************************************************************)
EXTENDS Naturals, FiniteSets, FiniteSetsExt

CONSTANTS HidSlots, XboxSlots,  \* /dev/input0.., /dev/xbox0..
          NoDevice,
          Free,                 \* state_mutex is not held
          MapBits,              \* width of joystick_map
          MaxTroubles           \* devices unplugged and clients not created

ASSUME UsbInputAssumption ==
  /\ HidSlots \cap XboxSlots = {} /\ Free \notin HidSlots \cup XboxSlots
  /\ NoDevice \notin HidSlots \cup XboxSlots
  /\ MapBits \in Nat \ {0, 1} /\ MaxTroubles \in Nat
  /\ IsFiniteSet(HidSlots \cup XboxSlots) /\ Cardinality(HidSlots \cup XboxSlots) <= MapBits

Slots == HidSlots \cup XboxSlots

VARIABLES
  dev,       \* the device behind the slot's class instance
  filled,    \* its transfer was set up
  busy,      \* and is submitted
  st,        \* state
  type,      \* report.type
  js,        \* js_index
  task,      \* where the client task is
  sem,       \* sem
  got,       \* nbytes > 0
  buffer,    \* the button in the report
  last,      \* last_state, until it is stored
  gone,      \* the slot whose device the task found missing
  map,       \* joystick_map
  hid,       \* hid1_state, hid2_state
  mutex,     \* who holds state_mutex
  troubles,  \* history: devices unplugged and clients not created
  told,      \* history: a report came since the client was created
  happened   \* history: what the properties make exceptions for

usb == <<dev, filled, busy>>
slot == <<st, type, js>>
client == <<task, sem, got, buffer, last>>
shared == <<map, hid, mutex>>
history == <<troubles, told, happened>>
vars == <<usb, slot, client, gone, shared, history>>

Kinds(s) == IF s \in HidSlots THEN {"pad", "keyboard", "odd"} ELSE {"xpad"}
Players == {0, 1}
TypeOf(k) == CASE k = "pad" -> "joystick" [] k = "keyboard" -> "keyboard" [] k = "xpad" -> "xbox"
Events == {"released", "leaked", "stale", "killed", "unseen"}

TypeOK ==
  /\ \A s \in Slots : dev[s] \in Kinds(s) \cup {NoDevice}
  /\ filled \in [Slots -> BOOLEAN] /\ busy \in [Slots -> BOOLEAN]
  /\ st \in [Slots -> {"none", "detected", "running", "failed"}]
  /\ type \in [Slots -> {"none", "joystick", "keyboard", "xbox"}]
  /\ js \in [Slots -> 0..MapBits]
  /\ task \in [Slots -> {"dead", "submit", "wait", "parse", "lock", "publish", "clear"}]
  /\ sem \in [Slots -> BOOLEAN] /\ got \in [Slots -> BOOLEAN]
  /\ buffer \in [Slots -> BOOLEAN] /\ last \in [Slots -> BOOLEAN]
  /\ gone \in Slots \cup {NoDevice}
  /\ map \subseteq 0..(MapBits - 1)
  /\ hid \in [Players -> BOOLEAN]
  /\ mutex \in Slots \cup {Free}
  /\ troubles \in 0..MaxTroubles /\ told \in [Slots -> BOOLEAN] /\ happened \subseteq Events

No == [s \in Slots |-> FALSE]

Init ==
  /\ dev = [s \in Slots |-> NoDevice] /\ filled = No /\ busy = No
  /\ st = [s \in Slots |-> "none"]
  /\ type = [s \in Slots |-> IF s \in XboxSlots THEN "xbox" ELSE "none"]
  /\ js = [s \in Slots |-> 0]
  /\ task = [s \in Slots |-> "dead"]
  /\ sem = No /\ got = No /\ buffer = No /\ last = No
  /\ gone = NoDevice /\ map = {} /\ hid = [p \in Players |-> FALSE] /\ mutex = Free
  /\ troubles = 0 /\ told = No /\ happened = {}

Note(events) == happened' = happened \cup events /\ UNCHANGED troubles
At(s, from, to) == task[s] = from /\ task' = [task EXCEPT ![s] = to]

-----------------------------------------------------------------------------
(* The bus and the USB stack.                                              *)

(* A device that replaces one whose absence nobody looked at in time keeps  *)
(* the slot's client, descriptor and index, and its transfer is not set up. *)
Plug(s, k) ==
  /\ dev[s] = NoDevice
  /\ dev' = [dev EXCEPT ![s] = k]
  /\ Note(IF st[s] # "none" /\ gone # s THEN {"unseen"} ELSE {})
  /\ UNCHANGED <<filled, busy, slot, client, gone, shared, told>>

(* A transfer in flight is killed, with or without a call of its callback. *)
Unplug(s) ==
  /\ dev[s] # NoDevice
  /\ troubles < MaxTroubles /\ troubles' = troubles + 1
  /\ dev' = [dev EXCEPT ![s] = NoDevice]
  /\ filled' = [filled EXCEPT ![s] = FALSE]
  /\ busy' = [busy EXCEPT ![s] = FALSE]
  /\ \/ UNCHANGED <<sem, got>>
     \/ busy[s] /\ sem' = [sem EXCEPT ![s] = TRUE] /\ got' = [got EXCEPT ![s] = FALSE]
  /\ UNCHANGED <<slot, task, buffer, last, gone, shared, told, happened>>

(* The device reports a change: usbh_hid_callback, usbh_xbox_callback.     *)
Report(s) ==
  /\ busy[s]
  /\ busy' = [busy EXCEPT ![s] = FALSE]
  /\ \E pressed \in BOOLEAN : buffer' = [buffer EXCEPT ![s] = pressed]
  /\ got' = [got EXCEPT ![s] = TRUE]
  /\ sem' = [sem EXCEPT ![s] = TRUE]
  /\ told' = [told EXCEPT ![s] = TRUE]
  /\ UNCHANGED <<dev, filled, slot, task, last, gone, shared, troubles, happened>>

-----------------------------------------------------------------------------
(* usbh_hid_task: usbh_update, then a client for what was detected.        *)

(* Mutant: the index is the number of those in use.                        *)
AllocateCount == Cardinality(map)

(* hid_allocate_joystick: bit MapBits is not in the map, so it is free.    *)
Allocate == Min((0..MapBits) \ map)

(* Mutant: the descriptor of the slot's first device is kept.              *)
LookNewOnce(s) ==
  /\ gone = NoDevice
  /\ dev[s] # NoDevice /\ st[s] = "none"
  /\ type' = [type EXCEPT ![s] = IF @ = "none" /\ dev[s] # "odd" THEN TypeOf(dev[s]) ELSE @]
  /\ st' = [st EXCEPT ![s] = IF dev[s] = "odd" THEN "failed" ELSE "detected"]
  /\ UNCHANGED <<usb, js, client, gone, shared, history>>

(* parse_report_descriptor fails with any type, or is skipped and leaves   *)
(* that of the device before.                                              *)
LookNew(s) ==
  /\ gone = NoDevice
  /\ dev[s] # NoDevice /\ st[s] = "none"
  /\ \E t \in IF dev[s] = "odd" THEN {"none", "joystick", type[s]} ELSE {TypeOf(dev[s])} :
       type' = [type EXCEPT ![s] = t]
  /\ st' = [st EXCEPT ![s] = IF dev[s] = "odd" THEN "failed" ELSE "detected"]
  /\ UNCHANGED <<usb, js, client, gone, shared, history>>

(* Still there, or still not.                                              *)
LookSame(s) ==
  /\ gone = NoDevice
  /\ (dev[s] = NoDevice) = (st[s] = "none")
  /\ UNCHANGED vars

(* A client that could not be created: "task died unexpectedly".           *)
LookDied(s) ==
  /\ gone = NoDevice
  /\ st[s] = "running" /\ task[s] = "dead"
  /\ st' = [st EXCEPT ![s] = "none"]
  /\ Note({"leaked"})
  /\ UNCHANGED <<usb, type, js, client, gone, shared, told>>

(* The instance is missing; the message about it may wait for the link.  A *)
(* detected device is started before the next look.                        *)
LookGone(s) ==
  /\ gone = NoDevice
  /\ dev[s] = NoDevice /\ st[s] \in {"running", "failed"}
  /\ gone' = s
  /\ UNCHANGED <<usb, slot, client, shared, history>>

(* Mutant: a pad's index is not released.                                  *)
DropKeeps(s) ==
  /\ gone = s
  /\ gone' = NoDevice
  /\ task' = [task EXCEPT ![s] = "dead"]
  /\ st' = [st EXCEPT ![s] = "none"]
  /\ UNCHANGED <<usb, type, js, sem, got, buffer, last, shared, history>>

(* vTaskDelete, wherever the client is, and the release of a joystick's    *)
(* index, also for a device that never got one.                            *)
Drop(s) ==
  /\ gone = s
  /\ gone' = NoDevice
  /\ task' = [task EXCEPT ![s] = "dead"]
  /\ st' = [st EXCEPT ![s] = "none"]
  /\ map' = IF type[s] \in {"joystick", "xbox"} THEN map \ {js[s]} ELSE map
  /\ Note((IF st[s] = "failed" /\ type[s] = "joystick" THEN {"released"} ELSE {})
     \cup (IF type[s] = "keyboard" THEN {"leaked"} ELSE {})
     \cup (IF task[s] = "publish" THEN {"killed"} ELSE {}))
  /\ UNCHANGED <<usb, type, js, sem, got, buffer, last, hid, mutex, told>>

(* The transfer is set up, and the client created if there is memory.      *)
Start(s) ==
  /\ gone = NoDevice
  /\ st[s] = "detected"
  /\ st' = [st EXCEPT ![s] = "running"]
  /\ js' = [js EXCEPT ![s] = Allocate]
  /\ map' = map \cup ({Allocate} \ {MapBits})
  /\ filled' = [filled EXCEPT ![s] = dev[s] # NoDevice]
  /\ \/ task' = [task EXCEPT ![s] = "submit"] /\ UNCHANGED troubles
     \/ UNCHANGED task /\ troubles < MaxTroubles /\ troubles' = troubles + 1
  /\ told' = [told EXCEPT ![s] = FALSE]
  /\ happened' = happened \cup IF sem[s] THEN {"stale"} ELSE {}
  /\ UNCHANGED <<dev, busy, type, sem, got, buffer, last, gone, hid, mutex>>

-----------------------------------------------------------------------------
(* The client tasks.                                                       *)

Submit(s) ==
  /\ filled[s] /\ ~busy[s]
  /\ At(s, "submit", "wait")
  /\ busy' = [busy EXCEPT ![s] = TRUE]
  /\ UNCHANGED <<dev, filled, slot, sem, got, buffer, last, gone, shared, history>>

(* It is submitted already or not set up: again in 10 ms.                  *)
SubmitFails(s) ==
  /\ task[s] = "submit"
  /\ busy[s] \/ ~filled[s]
  /\ UNCHANGED vars

(* The length of the report is looked at before it is parsed: any answer   *)
(* for a HID device, the 20 bytes of XBOX_REPORT_SIZE for an Xbox pad; got *)
(* is FALSE for an answer of another length as for an error.  After a      *)
(* timeout the Xbox client also cancels the transfer, which has ended, and *)
(* sends its start-up packets again: no state of the model is touched.     *)
Take(s) ==
  /\ sem[s] /\ sem' = [sem EXCEPT ![s] = FALSE]
  /\ At(s, "wait", IF got[s] THEN "parse" ELSE "clear")
  /\ UNCHANGED <<usb, slot, got, buffer, last, gone, shared, history>>

ParsePad(s) ==
  /\ type[s] \in {"joystick", "xbox"}
  /\ At(s, "parse", IF js[s] \in Players THEN "lock" ELSE "clear")
  /\ last' = [last EXCEPT ![s] = buffer[s]]
  /\ UNCHANGED <<usb, slot, sem, got, buffer, gone, shared, history>>

(* "allow keyboard to double as a gamepad": without the mutex.  Its report *)
(* is copied over js_index.                                                *)
ParseKeyboard(s) ==
  /\ type[s] = "keyboard"
  /\ At(s, "parse", "clear")
  /\ js' = [js EXCEPT ![s] = 0]
  /\ hid' = [hid EXCEPT ![0] = buffer[s]]
  /\ UNCHANGED <<usb, st, type, sem, got, buffer, last, gone, map, mutex, history>>

Lock(s) ==
  /\ mutex = Free /\ mutex' = s
  /\ At(s, "lock", "publish")
  /\ UNCHANGED <<usb, slot, sem, got, buffer, last, gone, map, hid, history>>

(* Mutant: a pad that is let go is not stored.                             *)
PublishPressed(s) ==
  /\ At(s, "publish", "clear")
  /\ hid' = [hid EXCEPT ![js[s]] = last[s] \/ @]
  /\ mutex' = Free
  /\ last' = [last EXCEPT ![s] = FALSE]
  /\ UNCHANGED <<usb, slot, sem, got, buffer, gone, map, history>>

(* Mutant: an early exit keeps the mutex.                                  *)
PublishKeeps(s) ==
  /\ At(s, "publish", "clear")
  /\ hid' = [hid EXCEPT ![js[s]] = last[s]]
  /\ mutex' = IF last[s] THEN mutex ELSE Free
  /\ UNCHANGED <<usb, slot, sem, got, buffer, last, gone, map, history>>

Publish(s) ==
  /\ At(s, "publish", "clear")
  /\ hid' = [hid EXCEPT ![js[s]] = last[s]]
  /\ mutex' = Free
  /\ last' = [last EXCEPT ![s] = FALSE]
  /\ UNCHANGED <<usb, slot, sem, got, buffer, gone, map, history>>

Clear(s) ==
  /\ At(s, "clear", "submit")
  /\ got' = [got EXCEPT ![s] = FALSE]
  /\ UNCHANGED <<usb, slot, sem, buffer, last, gone, shared, history>>

-----------------------------------------------------------------------------
Client(s) ==
  \/ Submit(s) \/ SubmitFails(s) \/ Take(s) \/ ParsePad(s) \/ ParseKeyboard(s)
  \/ Lock(s) \/ Publish(s) \/ Clear(s)

Next ==
  \E s \in Slots :
    \/ \E k \in Kinds(s) : Plug(s, k)
    \/ Unplug(s) \/ Report(s)
    \/ LookNew(s) \/ LookSame(s) \/ LookDied(s) \/ LookGone(s) \/ Drop(s) \/ Start(s)
    \/ Client(s)

Spec == Init /\ [][Next]_vars

-----------------------------------------------------------------------------
Running(s) == st[s] = "running" /\ task[s] # "dead"
Pad(s) == Running(s) /\ type[s] # "keyboard"

(* "keep a map of joysticks to be able to report them individually": two   *)
(* pads never have one index, until a device whose descriptor was not      *)
(* usable goes and releases an index it never had, or indices have leaked. *)
OwnIndex ==
  \/ happened \cap {"released", "leaked"} # {}
  \/ \A s, t \in Slots : Pad(s) /\ Pad(t) /\ s # t => js[s] # js[t]

(* "use first two joysticks": no index is lost, so that the pads that are   *)
(* plugged in stay the first ones.  A keyboard that is unplugged loses one, *)
(* and so does a client that could not be created.                         *)
NoIndexLost ==
  \/ "leaked" \in happened
  \/ Cardinality(map) <= Cardinality({s \in Slots : st[s] = "running"})

(* A player's buttons are those of the last report of the pad, once its    *)
(* client waits for the next one: a release is not missed.  Another device *)
(* of the same player may interfere, and a semaphore left over from the    *)
(* client before makes the new one run ahead of the callback.              *)
LastReportShown ==
  \A s \in Slots :
    /\ Pad(s) /\ js[s] \in Players
    /\ task[s] = "wait" /\ busy[s] /\ told[s]
    /\ happened \cap {"stale", "released", "leaked"} = {}
    /\ \A t \in Slots \ {s} : type[t] # "keyboard"
    => hid[js[s]] = buffer[s]

(* A device that has a client is heard, and read by its own descriptor.  A  *)
(* device that takes the place of another between two looks is not: it is  *)
(* deaf until it is away for a whole turn.                                 *)
HeardAsItself ==
  "unseen" \in happened
  \/ \A s \in Slots : Running(s) /\ dev[s] # NoDevice /\ gone # s => filled[s] /\ type[s] = TypeOf(dev[s])

(* Who holds state_mutex will give it back, which main_task and            *)
(* uart1_rx_task wait for without a limit, unless a pad was unplugged while *)
(* its client held it: then nobody ever does.                              *)
MutexGivenBack ==
  mutex # Free => task[mutex] = "publish" \/ "killed" \in happened
=============================================================================
