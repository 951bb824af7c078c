--------------------------- MODULE UsbInputProofs ---------------------------
(***************************************************************************)
(* What UsbInput promises for any number of interfaces and pads that the   *)
(* joystick map has bits for.                                              *)
(*                                                                         *)
(* The argument: only a slot in state "running" has a client (Clients), so *)
(* that a client dies at the hands of usbh_hid_task alone, which is where  *)
(* the mutex can be lost (Owner).  A device that is looked at before its   *)
(* client starts is parsed then, and nothing but a device nobody has seen  *)
(* go can come in between (Seen).                                          *)
(*                                                                         *)
(* The indices are counted: those in use are the pads' own (Owned), and    *)
(* every other was given to a running keyboard (Counted); so there are no  *)
(* more of them than clients, and a slot without one finds an index free.  *)
(* A transfer is submitted only by the client that waits for it, and then  *)
(* its buffer is what will be stored (Transfers), so that the last report  *)
(* is in hid1_state or hid2_state or on its way there (Shown).             *)
(***************************************************************************)
EXTENDS UsbInput, TLAPS, FiniteSetTheorems, WellFoundedInduction

(* The part of TypeOK that the clients and the looks rest on.              *)
Types ==
  /\ dev \in [Slots -> {"pad", "keyboard", "odd", "xpad", NoDevice}]
  /\ filled \in [Slots -> BOOLEAN]
  /\ st \in [Slots -> {"none", "detected", "running", "failed"}]
  /\ type \in [Slots -> {"none", "joystick", "keyboard", "xbox"}]
  /\ task \in [Slots -> {"dead", "submit", "wait", "parse", "lock", "publish", "clear"}]
  /\ gone \in Slots \cup {NoDevice} /\ mutex \in Slots \cup {Free}

(* Only a running slot has a client task.                                  *)
Clients ==
  /\ \A s \in Slots : st[s] # "running" => task[s] = "dead"
  /\ gone # NoDevice => st[gone] \in {"running", "failed"}

(* state_mutex is held by a client that is about to give it back.          *)
Owner == mutex # Free => task[mutex] = "publish" \/ "killed" \in happened

(* A device that usbh_hid_task has seen was parsed and set up.             *)
Seen ==
  "unseen" \in happened
  \/ \A s \in Slots : dev[s] # NoDevice /\ gone # s =>
       /\ st[s] \in {"detected", "running"} => type[s] = TypeOf(dev[s])
       /\ st[s] = "running" => filled[s]

IInv == Types /\ Clients /\ Owner /\ Seen

(* At start-up no device is there and no client runs.                      *)
LEMMA InitIInv == Init => IInv
BY DEF Init, IInv, Types, Clients, Owner, Seen, No

(* The bus, and usbh_hid_task.                                             *)
LEMMA HostStep ==
  ASSUME IInv, NEW s \in Slots,
         \/ \E k \in Kinds(s) : Plug(s, k)
         \/ Unplug(s) \/ Report(s)
         \/ LookNew(s) \/ LookDied(s) \/ LookGone(s) \/ Drop(s) \/ Start(s)
  PROVE  IInv'
<1>0. Types /\ Clients /\ Owner /\ Seen /\ NoDevice \notin Slots /\ Free \notin Slots
  BY UsbInputAssumption DEF IInv, Slots
<1>1. CASE \E k \in Kinds(s) : Plug(s, k)
  <2>1. Types'
    BY <1>0, <1>1 DEF Types, Plug, slot, client, shared, Kinds
  <2>2. Clients' /\ Owner'
    BY <1>0, <1>1 DEF Clients, Owner, Plug, Note, slot, client, shared
  <2>3. Seen'
    BY <1>0, <1>1 DEF Seen, Plug, Note, slot
  <2> QED
    BY <2>1, <2>2, <2>3 DEF IInv
<1>2. CASE Unplug(s)
  <2>1. Types'
    BY <1>0, <1>2 DEF Types, Unplug, slot, shared
  <2>2. Clients' /\ Owner'
    BY <1>0, <1>2 DEF Clients, Owner, Unplug, slot, shared
  <2>3. Seen'
    BY <1>0, <1>2 DEF Types, Seen, Unplug, slot
  <2> QED
    BY <2>1, <2>2, <2>3 DEF IInv
<1>3. CASE Report(s)
  <2>1. Types'
    BY <1>0, <1>3 DEF Types, Report, slot, shared
  <2>2. Clients' /\ Owner'
    BY <1>0, <1>3 DEF Clients, Owner, Report, slot, shared
  <2>3. Seen'
    BY <1>0, <1>3 DEF Seen, Report, slot
  <2> QED
    BY <2>1, <2>2, <2>3 DEF IInv
<1>4. CASE LookNew(s)
  <2>1. Types'
    BY <1>0, <1>4 DEF Types, LookNew, TypeOf, usb, client, shared
  <2>2. Clients' /\ Owner'
    BY <1>0, <1>4 DEF Clients, Owner, LookNew, client, shared, history
  <2>3. Seen'
    BY <1>0, <1>4 DEF Types, Seen, LookNew, usb, history
  <2> QED
    BY <2>1, <2>2, <2>3 DEF IInv
<1>5. CASE LookDied(s)
  <2>1. Types'
    BY <1>0, <1>5 DEF Types, LookDied, usb, client, shared
  <2>2. Clients' /\ Owner'
    BY <1>0, <1>5 DEF Clients, Owner, LookDied, Note, client, shared
  <2>3. Seen'
    BY <1>0, <1>5 DEF Seen, LookDied, Note, usb
  <2> QED
    BY <2>1, <2>2, <2>3 DEF IInv
<1>6. CASE LookGone(s)
  <2>1. Types'
    BY <1>0, <1>6 DEF Types, LookGone, usb, slot, client, shared
  <2>2. Clients' /\ Owner'
    BY <1>0, <1>6 DEF Clients, Owner, LookGone, slot, client, shared, history
  <2>3. Seen'
    BY <1>0, <1>6 DEF Seen, LookGone, usb, slot, history
  <2> QED
    BY <2>1, <2>2, <2>3 DEF IInv
<1>7. CASE Drop(s)
  <2>1. Types'
    BY <1>0, <1>7 DEF Types, Drop, usb
  <2>2. Clients' /\ Owner'
    BY <1>0, <1>7 DEF Types, Clients, Owner, Drop, Note
  <2>3. Seen'
    BY <1>0, <1>7 DEF Types, Seen, Drop, Note, usb
  <2> QED
    BY <2>1, <2>2, <2>3 DEF IInv
<1>8. CASE Start(s)
  <2>1. Types'
    BY <1>0, <1>8 DEF Types, Start
  <2>2. Clients' /\ Owner'
    BY <1>0, <1>8 DEF Types, Clients, Owner, Start
  <2>3. Seen'
    BY <1>0, <1>8 DEF Types, Seen, Start
  <2> QED
    BY <2>1, <2>2, <2>3 DEF IInv
<1> QED
  BY <1>1, <1>2, <1>3, <1>4, <1>5, <1>6, <1>7, <1>8

(* The clients.                                                            *)
LEMMA ClientStep ==
  ASSUME IInv, NEW s \in Slots, Client(s)
  PROVE  IInv'
<1>0. Types /\ Clients /\ Owner /\ Seen /\ NoDevice \notin Slots /\ Free \notin Slots
  BY UsbInputAssumption DEF IInv, Slots
<1>1. CASE Submit(s)
  <2>1. Types'
    BY <1>0, <1>1 DEF Types, Submit, slot, shared, At
  <2>2. Clients' /\ Owner'
    BY <1>0, <1>1 DEF Clients, Owner, Submit, slot, shared, history, At
  <2>3. Seen'
    BY <1>0, <1>1 DEF Seen, Submit, slot, history
  <2> QED
    BY <2>1, <2>2, <2>3 DEF IInv
<1>2. CASE SubmitFails(s)
  <2>1. Types'
    BY <1>0, <1>2 DEF Types, SubmitFails, vars, usb, slot, client, shared
  <2>2. Clients' /\ Owner'
    BY <1>0, <1>2 DEF Clients, Owner, SubmitFails, vars, slot, client, shared, history
  <2>3. Seen'
    BY <1>0, <1>2 DEF Seen, SubmitFails, vars, usb, slot, history
  <2> QED
    BY <2>1, <2>2, <2>3 DEF IInv
<1>3. CASE Take(s)
  <2>1. Types'
    BY <1>0, <1>3 DEF Types, Take, usb, slot, shared, At
  <2>2. Clients' /\ Owner'
    BY <1>0, <1>3 DEF Clients, Owner, Take, slot, shared, history, At
  <2>3. Seen'
    BY <1>0, <1>3 DEF Seen, Take, usb, slot, history
  <2> QED
    BY <2>1, <2>2, <2>3 DEF IInv
<1>4. CASE ParsePad(s)
  <2>1. Types'
    BY <1>0, <1>4 DEF Types, ParsePad, usb, slot, shared, At
  <2>2. Clients' /\ Owner'
    BY <1>0, <1>4 DEF Clients, Owner, ParsePad, slot, shared, history, At
  <2>3. Seen'
    BY <1>0, <1>4 DEF Seen, ParsePad, usb, slot, history
  <2> QED
    BY <2>1, <2>2, <2>3 DEF IInv
<1>5. CASE ParseKeyboard(s)
  <2>1. Types'
    BY <1>0, <1>5 DEF Types, ParseKeyboard, usb, At
  <2>2. Clients' /\ Owner'
    BY <1>0, <1>5 DEF Clients, Owner, ParseKeyboard, history, At
  <2>3. Seen'
    BY <1>0, <1>5 DEF Seen, ParseKeyboard, usb, history
  <2> QED
    BY <2>1, <2>2, <2>3 DEF IInv
<1>6. CASE Lock(s)
  <2>1. Types'
    BY <1>0, <1>6 DEF Types, Lock, usb, slot, At
  <2>2. Clients' /\ Owner'
    BY <1>0, <1>6 DEF Types, Clients, Owner, Lock, slot, At
  <2>3. Seen'
    BY <1>0, <1>6 DEF Seen, Lock, usb, slot, history
  <2> QED
    BY <2>1, <2>2, <2>3 DEF IInv
<1>7. CASE Publish(s)
  <2>1. Types'
    BY <1>0, <1>7 DEF Types, Publish, usb, slot, At
  <2>2. Clients' /\ Owner'
    BY <1>0, <1>7 DEF Clients, Owner, Publish, slot, At
  <2>3. Seen'
    BY <1>0, <1>7 DEF Seen, Publish, usb, slot, history
  <2> QED
    BY <2>1, <2>2, <2>3 DEF IInv
<1>8. CASE Clear(s)
  <2>1. Types'
    BY <1>0, <1>8 DEF Types, Clear, usb, slot, shared, At
  <2>2. Clients' /\ Owner'
    BY <1>0, <1>8 DEF Clients, Owner, Clear, slot, shared, history, At
  <2>3. Seen'
    BY <1>0, <1>8 DEF Seen, Clear, usb, slot, history
  <2> QED
    BY <2>1, <2>2, <2>3 DEF IInv
<1> QED
  BY <1>1, <1>2, <1>3, <1>4, <1>5, <1>6, <1>7, <1>8 DEF Client

(* The first half of the invariant holds of every behaviour.               *)
LEMMA InvariantHolds == Spec => []IInv
<1>1. IInv /\ [Next]_vars => IInv'
  <2> SUFFICES ASSUME IInv, [Next]_vars PROVE IInv'
    OBVIOUS
  <2>1. CASE UNCHANGED vars
    BY <2>1 DEF vars, usb, slot, client, shared, history, IInv, Types, Clients, Owner, Seen
  <2>2. CASE \E s \in Slots : LookSame(s)
    BY <2>1, <2>2 DEF LookSame
  <2> QED
    BY <2>1, <2>2, HostStep, ClientStep DEF Next
<1> QED
  BY <1>1, InitIInv, PTL DEF Spec

(* state_mutex is given back by whoever holds it, for any number of        *)
(* clients, unless usbh_hid_task deleted a client that was storing its     *)
(* buttons: that is the only way main_task and uart1_rx_task can wait for  *)
(* it for ever.                                                            *)
THEOREM MutexLostOnlyByKill == Spec => []MutexGivenBack
<1>1. IInv => MutexGivenBack
  BY DEF IInv, Owner, MutexGivenBack
<1> QED
  BY <1>1, InvariantHolds, PTL

(* A device with a client is heard and read by its own descriptor, unless  *)
(* it replaced another between two looks of usbh_hid_task.                 *)
THEOREM DevicesHeard == Spec => []HeardAsItself
<1>1. IInv => HeardAsItself
  BY DEF IInv, Seen, HeardAsItself, Running
<1> QED
  BY <1>1, InvariantHolds, PTL

-----------------------------------------------------------------------------
(* The indices and the reports.                                            *)
Has(event) == event \in happened
On(s) == st[s] = "running"
OnPads == {s \in Slots : On(s) /\ type[s] # "keyboard"}
OnKeyboards == {s \in Slots : On(s) /\ type[s] = "keyboard"}
PadIndices == {js[s] : s \in OnPads}

(* What the parse of a descriptor leaves, and what a lost client leaves.   *)
Kinded ==
  \A s \in Slots :
    /\ dev[s] \in Kinds(s) \cup {NoDevice}
    /\ s \in HidSlots => type[s] # "xbox"
    /\ s \in XboxSlots => st[s] # "failed"
    /\ st[s] \in {"detected", "running"} => type[s] # "none"
    /\ type[s] = "keyboard" /\ st[s] = "none" => Has("leaked")

(* An index in use belongs to a pad, or was given to a keyboard.           *)
Counted == Has("leaked") \/ Cardinality(map \ PadIndices) <= Cardinality(OnKeyboards)

(* Every running pad has an index in use, of its own.                      *)
Owned ==
  Has("leaked") \/ Has("released")
  \/ /\ PadIndices \subseteq map
     /\ \A s, t \in OnPads : s # t => js[s] # js[t]

(* A transfer belongs to the client that waits for it.                     *)
Transfers ==
  \A s \in Slots :
    /\ busy[s] => filled[s]
    /\ filled[s] => dev[s] # NoDevice
    /\ gone = s => ~filled[s]
    /\ Has("stale") \/ (busy[s] => task[s] = "wait" /\ ~sem[s])
    /\ Has("stale") \/ (sem[s] => task[s] \in {"wait", "dead"})
    /\ task[s] \in {"lock", "publish"} => type[s] # "keyboard" /\ js[s] \in Players
    /\ Has("stale") \/ (task[s] \in {"lock", "publish"} => last[s] = buffer[s])

(* The report will be stored; no other pad can store one for the player.   *)
Pending(s) ==
  \/ task[s] = "wait" /\ sem[s] /\ got[s]
  \/ task[s] \in {"parse", "lock", "publish"}

Undisturbed(s) ==
  /\ happened \cap {"stale", "released", "leaked"} = {}
  /\ \A t \in Slots \ {s} : type[t] # "keyboard"

Shown ==
  \A s \in Slots :
    Pad(s) /\ js[s] \in Players /\ told[s] /\ Undisturbed(s) =>
      hid[js[s]] = buffer[s] \/ Pending(s)

(* The rest of TypeOK.                                                     *)
Full ==
  /\ sem \in [Slots -> BOOLEAN] /\ got \in [Slots -> BOOLEAN]
  /\ busy \in [Slots -> BOOLEAN] /\ told \in [Slots -> BOOLEAN]
  /\ buffer \in [Slots -> BOOLEAN] /\ last \in [Slots -> BOOLEAN]
  /\ js \in [Slots -> 0..MapBits] /\ map \in SUBSET (0..(MapBits - 1))
  /\ hid \in [Players -> BOOLEAN]
  /\ troubles \in 0..MaxTroubles /\ happened \subseteq Events

(* A step of the bus, of usbh_hid_task for a slot, or of its client.       *)
Step(s) ==
  \/ \E k \in Kinds(s) : Plug(s, k)
  \/ Unplug(s) \/ Report(s)
  \/ LookNew(s) \/ LookDied(s) \/ LookGone(s) \/ Drop(s) \/ Start(s)
  \/ Client(s)

Inv == IInv /\ Full /\ Kinded /\ Counted /\ Owned /\ Transfers /\ Shown

-----------------------------------------------------------------------------
(* Min of a set of numbers, as FiniteSetsExt chooses it, is its least.     *)
LEMMA MinIsLeast ==
  ASSUME NEW S \in SUBSET Nat, S # {}
  PROVE  Min(S) \in S /\ \A n \in S : Min(S) <= n
<1> DEFINE Less == {pair \in Nat \X Nat : pair[1] < pair[2]}
<1>0. Less = OpToRel(<, Nat)
  BY Zenon DEF OpToRel
<1>1. IsWellFoundedOn(Less, Nat)
  BY <1>0, NatLessThanWellFounded, Zenon
<1>2. PICK m \in S : \A n \in S : <<n, m>> \notin Less
  BY <1>1, WFMin
<1>3. ASSUME NEW n \in S PROVE m <= n
  <2>1. m \in Nat /\ n \in Nat /\ <<n, m>> \notin Less
    BY <1>2
  <2>2. ~(<<n, m>>[1] < <<n, m>>[2])
    BY <2>1
  <2> QED
    BY <2>1, <2>2
<1> QED
  BY <1>3 DEF Min

(* usb_js_allocate finds an index nobody uses when the map is not full.    *)
LEMMA AllocateIsFree ==
  ASSUME Full
  PROVE  /\ Allocate \in 0..MapBits /\ Allocate \notin map
         /\ Cardinality(map) < MapBits => Allocate # MapBits
<1>1. Allocate \in (0..MapBits) \ map /\ \A n \in (0..MapBits) \ map : Allocate <= n
  <2>1. (0..MapBits) \ map \in SUBSET Nat /\ MapBits \in (0..MapBits) \ map
    BY UsbInputAssumption DEF Full
  <2> QED
    BY <2>1, MinIsLeast DEF Allocate
<1>2. ASSUME Cardinality(map) < MapBits PROVE Allocate # MapBits
  <2>1. IsFiniteSet(0..(MapBits - 1)) /\ Cardinality(0..(MapBits - 1)) = MapBits
    BY FS_Interval, UsbInputAssumption
  <2>2. PICK n \in 0..(MapBits - 1) : n \notin map
    <3>1. map # 0..(MapBits - 1)
      BY <1>2, <2>1, UsbInputAssumption
    <3> QED
      BY <3>1 DEF Full
  <2> QED
    BY <1>1, <2>2
<1> QED
  BY <1>1, <1>2

(* Everything keeps its type.                                              *)
LEMMA FullStep ==
  ASSUME Inv, NEW s \in Slots, Step(s)
  PROVE  Full'
<1>0. /\ Types /\ Clients /\ Full /\ Kinded /\ Owned /\ Transfers /\ Shown
      /\ NoDevice \notin Slots /\ Free \notin Slots
  BY UsbInputAssumption DEF Inv, IInv, Slots
<1>1. CASE \E k \in Kinds(s) : Plug(s, k)
  <2>1. happened' \subseteq Events
    BY <1>0, <1>1 DEF Full, Plug, Note, Events
  <2> QED
    BY <1>0, <1>1, <2>1 DEF Full, Plug, Note, usb, slot, client, shared, history, vars
<1>2. CASE Unplug(s)
  <2>1. troubles' \in 0..MaxTroubles
    BY <1>0, <1>2, UsbInputAssumption DEF Full, Unplug
  <2> QED
    BY <1>0, <1>2, <2>1 DEF Full, Unplug, slot, shared
<1>3. CASE Report(s)
  BY <1>0, <1>3 DEF Full, Report, slot, shared
<1>4. CASE LookNew(s)
  BY <1>0, <1>4 DEF Full, LookNew, usb, client, shared, history
<1>5. CASE LookDied(s)
  <2>1. happened' \subseteq Events
    BY <1>0, <1>5 DEF Full, LookDied, Note, Events
  <2> QED
    BY <1>0, <1>5, <2>1 DEF Full, LookDied, Note, usb, slot, client, shared, history, vars
<1>6. CASE LookGone(s)
  BY <1>0, <1>6 DEF Full, LookGone, usb, slot, client, shared, history
<1>7. CASE Drop(s)
  <2>1. happened' \subseteq Events
    BY <1>0, <1>7 DEF Full, Drop, Note, Events
  <2> QED
    BY <1>0, <1>7, <2>1 DEF Full, Drop, Note, usb, slot, client, shared, history, vars
<1>8. CASE Start(s)
  <2>1. happened' \subseteq Events
    BY <1>0, <1>8 DEF Full, Start, Note, Events
  <2>2. troubles' \in 0..MaxTroubles
    BY <1>0, <1>8, UsbInputAssumption DEF Full, Start
  <2>3. js' \in [Slots -> 0..MapBits]
    BY <1>0, <1>8, AllocateIsFree DEF Full, Start
  <2>4. map' \in SUBSET (0..(MapBits - 1))
    <3>1. \A n \in {Allocate} \ {MapBits} : n \in 0..(MapBits - 1)
      BY <1>0, AllocateIsFree, UsbInputAssumption
    <3>2. map' = map \cup ({Allocate} \ {MapBits})
      BY <1>8 DEF Start
    <3> QED
      BY <1>0, <3>1, <3>2 DEF Full
  <2> QED
    BY <1>0, <1>8, <2>1, <2>2, <2>3, <2>4 DEF Full, Start, Note, usb, slot, client, shared,
       history, vars
<1>9. CASE Submit(s)
  BY <1>0, <1>9 DEF Full, Submit, slot, shared, history
<1>10. CASE SubmitFails(s)
  BY <1>0, <1>10 DEF Full, SubmitFails, usb, slot, client, shared, history, vars
<1>11. CASE Take(s)
  BY <1>0, <1>11 DEF Full, Take, usb, slot, shared, history
<1>12. CASE ParsePad(s)
  BY <1>0, <1>12 DEF Full, ParsePad, usb, slot, shared, history
<1>13. CASE ParseKeyboard(s)
  <2>1. js' \in [Slots -> 0..MapBits]
    BY <1>0, <1>13, UsbInputAssumption DEF Full, ParseKeyboard
  <2>2. hid' \in [Players -> BOOLEAN]
    BY <1>0, <1>13 DEF Full, ParseKeyboard
  <2> QED
    BY <1>0, <1>13, <2>1, <2>2 DEF Full, ParseKeyboard, usb, history
<1>14. CASE Lock(s)
  BY <1>0, <1>14 DEF Full, Lock, usb, slot, history
<1>15. CASE Publish(s)
  BY <1>0, <1>15 DEF Full, Publish, usb, slot, history
<1>16. CASE Clear(s)
  BY <1>0, <1>16 DEF Full, Clear, usb, slot, shared, history
<1> QED
  BY <1>1, <1>2, <1>3, <1>4, <1>5, <1>6, <1>7, <1>8, <1>9, <1>10, <1>11, <1>12, <1>13, <1>14,
     <1>15, <1>16 DEF Step, Client

(* The parse of the descriptor fits the device and the slot.               *)
LEMMA KindedStep ==
  ASSUME Inv, NEW s \in Slots, Step(s)
  PROVE  Kinded'
<1>0. /\ Types /\ Clients /\ Full /\ Kinded /\ Owned /\ Transfers /\ Shown
      /\ NoDevice \notin Slots /\ Free \notin Slots
  BY UsbInputAssumption DEF Inv, IInv, Slots
<1>1. CASE \E k \in Kinds(s) : Plug(s, k)
  BY <1>0, <1>1 DEF Kinded, Has, Plug, Note, slot
<1>2. CASE Unplug(s)
  BY <1>0, <1>2 DEF Kinded, Has, Unplug, slot
<1>3. CASE Report(s)
  BY <1>0, <1>3 DEF Kinded, Has, Report, slot
<1>4. CASE LookNew(s)
  BY <1>0, <1>4, UsbInputAssumption DEF Kinded, Kinds, TypeOf, Has, Types, LookNew, usb,
     history, Kinds
<1>5. CASE LookDied(s)
  BY <1>0, <1>5 DEF Kinded, Has, LookDied, Note, usb
<1>6. CASE LookGone(s)
  BY <1>0, <1>6 DEF Kinded, Has, LookGone, usb, slot, history
<1>7. CASE Drop(s)
  BY <1>0, <1>7 DEF Kinded, Has, Drop, Note, usb
<1>8. CASE Start(s)
  BY <1>0, <1>8 DEF Kinded, Has, Start
<1>9. CASE Submit(s)
  BY <1>0, <1>9 DEF Kinded, Has, Submit, slot, history
<1>10. CASE SubmitFails(s)
  BY <1>0, <1>10 DEF Kinded, Has, SubmitFails, usb, slot, history, vars
<1>11. CASE Take(s)
  BY <1>0, <1>11 DEF Kinded, Has, Take, usb, slot, history
<1>12. CASE ParsePad(s)
  BY <1>0, <1>12 DEF Kinded, Has, ParsePad, usb, slot, history
<1>13. CASE ParseKeyboard(s)
  BY <1>0, <1>13 DEF Kinded, Has, ParseKeyboard, usb, history
<1>14. CASE Lock(s)
  BY <1>0, <1>14 DEF Kinded, Has, Lock, usb, slot, history
<1>15. CASE Publish(s)
  BY <1>0, <1>15 DEF Kinded, Has, Publish, usb, slot, history
<1>16. CASE Clear(s)
  BY <1>0, <1>16 DEF Kinded, Has, Clear, usb, slot, history
<1> QED
  BY <1>1, <1>2, <1>3, <1>4, <1>5, <1>6, <1>7, <1>8, <1>9, <1>10, <1>11, <1>12, <1>13, <1>14,
     <1>15, <1>16 DEF Step, Client

(* Transfers, callbacks and clients stay together.                         *)
LEMMA TransfersStep ==
  ASSUME Inv, NEW s \in Slots, Step(s)
  PROVE  Transfers'
<1>0. /\ Types /\ Clients /\ Full /\ Kinded /\ Owned /\ Transfers /\ Shown
      /\ NoDevice \notin Slots /\ Free \notin Slots
  BY UsbInputAssumption DEF Inv, IInv, Slots
<1>1. CASE \E k \in Kinds(s) : Plug(s, k)
  BY <1>0, <1>1 DEF Transfers, Has, Plug, Note, slot, client
<1>2. CASE Unplug(s)
  BY <1>0, <1>2 DEF Transfers, Has, Full, Types, Unplug, slot
<1>3. CASE Report(s)
  BY <1>0, <1>3 DEF Transfers, Has, Full, Report, slot
<1>4. CASE LookNew(s)
  BY <1>0, <1>4 DEF Transfers, Has, Clients, LookNew, usb, client, history
<1>5. CASE LookDied(s)
  BY <1>0, <1>5 DEF Transfers, Has, LookDied, Note, usb, client
<1>6. CASE LookGone(s)
  BY <1>0, <1>6 DEF Transfers, Has, LookGone, usb, slot, client, history
<1>7. CASE Drop(s)
  BY <1>0, <1>7 DEF Transfers, Has, Drop, Note, usb
<1>8. CASE Start(s)
  <2>1. Has("stale")' \/ (~Has("stale") /\ ~sem[s])
    <3>1. CASE sem[s]
      <4>1. happened' = happened \cup {"stale"}
        BY <1>8, <3>1 DEF Start
      <4> QED
        BY <4>1 DEF Has
    <3>2. CASE ~sem[s]
      BY <1>8, <3>2 DEF Start, Has
    <3> QED
      BY <3>1, <3>2
  <2>2. task[s] = "dead" /\ (task'[s] = "submit" \/ task'[s] = "dead")
    BY <1>0, <1>8 DEF Start, Clients, Types
  <2>3. Has("stale") => Has("stale")'
    BY <1>8 DEF Start, Has
  <2> QED
    BY <1>0, <1>8, <2>1, <2>2, <2>3 DEF Transfers, Types, Start
<1>9. CASE Submit(s)
  BY <1>0, <1>9 DEF Transfers, Has, Types, Submit, At, slot, history
<1>10. CASE SubmitFails(s)
  BY <1>0, <1>10 DEF Transfers, Has, SubmitFails, usb, slot, client, history, vars
<1>11. CASE Take(s)
  BY <1>0, <1>11 DEF Transfers, Has, Full, Take, At, usb, slot, history
<1>12. CASE ParsePad(s)
  BY <1>0, <1>12 DEF Transfers, Has, Full, ParsePad, At, usb, slot, history
<1>13. CASE ParseKeyboard(s)
  BY <1>0, <1>13 DEF Transfers, Has, ParseKeyboard, At, usb, history
<1>14. CASE Lock(s)
  BY <1>0, <1>14 DEF Transfers, Has, Lock, At, usb, slot, history
<1>15. CASE Publish(s)
  BY <1>0, <1>15 DEF Transfers, Has, Types, Publish, At, usb, slot, shared, history
<1>16. CASE Clear(s)
  BY <1>0, <1>16 DEF Transfers, Has, Clear, At, usb, slot, history
<1> QED
  BY <1>1, <1>2, <1>3, <1>4, <1>5, <1>6, <1>7, <1>8, <1>9, <1>10, <1>11, <1>12, <1>13, <1>14,
     <1>15, <1>16 DEF Step, Client

(* The last report is stored or about to be.                               *)
LEMMA ShownStep ==
  ASSUME Inv, NEW s \in Slots, Step(s)
  PROVE  Shown'
<1>0. /\ Types /\ Clients /\ Full /\ Kinded /\ Owned /\ Transfers /\ Shown
      /\ NoDevice \notin Slots /\ Free \notin Slots
  BY UsbInputAssumption DEF Inv, IInv, Slots
<1>1. CASE \E k \in Kinds(s) : Plug(s, k)
  BY <1>0, <1>1 DEF Shown, Pad, Running, Undisturbed, Pending, Plug, Note, slot, client, shared
<1>2. CASE Unplug(s)
  BY <1>0, <1>2 DEF Shown, Pad, Running, Undisturbed, Pending, Full, Transfers, Has, Unplug,
     slot, shared
<1>3. CASE Report(s)
  BY <1>0, <1>3 DEF Shown, Pad, Running, Undisturbed, Pending, Full, Transfers, Has, Report,
     slot, shared
<1>4. CASE LookNew(s)
  BY <1>0, <1>4 DEF Shown, Pad, Running, Undisturbed, Pending, Kinded, Has, LookNew, client,
     shared, history
<1>5. CASE LookDied(s)
  BY <1>0, <1>5 DEF Shown, Undisturbed, LookDied, Note
<1>6. CASE LookGone(s)
  BY <1>0, <1>6 DEF Shown, Pad, Running, Undisturbed, Pending, LookGone, slot, client, shared,
     history
<1>7. CASE Drop(s)
  BY <1>0, <1>7 DEF Shown, Pad, Running, Undisturbed, Pending, Drop, Note
<1>8. CASE Start(s)
  BY <1>0, <1>8 DEF Shown, Pad, Running, Undisturbed, Pending, Full, Types, Start, usb, slot,
     shared, history
<1>9. CASE Submit(s)
  BY <1>0, <1>9 DEF Shown, Pad, Running, Undisturbed, Pending, Submit, At, slot, shared, history
<1>10. CASE SubmitFails(s)
  BY <1>0, <1>10 DEF Shown, Pad, Running, Undisturbed, Pending, SubmitFails, slot, client,
     shared, history, vars
<1>11. CASE Take(s)
  BY <1>0, <1>11 DEF Shown, Pad, Running, Undisturbed, Pending, Types, Take, At, slot, shared,
     history
<1>12. CASE ParsePad(s)
  BY <1>0, <1>12 DEF Shown, Pad, Running, Undisturbed, Pending, ParsePad, At, slot, shared,
     history
<1>13. CASE ParseKeyboard(s)
  BY <1>0, <1>13 DEF Shown, Pad, Undisturbed, ParseKeyboard
<1>14. CASE Lock(s)
  BY <1>0, <1>14 DEF Shown, Pad, Running, Undisturbed, Pending, Lock, At, slot, history
<1>15. CASE Publish(s)
  BY <1>0, <1>15 DEF Shown, Pad, Running, Undisturbed, Pending, Full, Clients, Transfers, Owned,
     OnPads, On, Has, Publish, At, slot, history
<1>16. CASE Clear(s)
  BY <1>0, <1>16 DEF Shown, Pad, Running, Undisturbed, Pending, Clear, At, slot, shared, history
<1> QED
  BY <1>1, <1>2, <1>3, <1>4, <1>5, <1>6, <1>7, <1>8, <1>9, <1>10, <1>11, <1>12, <1>13, <1>14,
     <1>15, <1>16 DEF Step, Client

(* What the indices rest on does not move.                                 *)
LEMMA Unmoved ==
  ASSUME Counted /\ Owned, UNCHANGED <<map, js>>, happened \subseteq happened',
         OnPads' = OnPads, OnKeyboards' = OnKeyboards
  PROVE  Counted' /\ Owned'
<1>1. PadIndices' = PadIndices
  BY DEF PadIndices
<1> QED
  BY <1>1 DEF Counted, Owned, Has

(* The sets that are counted are finite.                                   *)
LEMMA Finite ==
  ASSUME Full
  PROVE  /\ IsFiniteSet(Slots) /\ Cardinality(Slots) \in Nat /\ Cardinality(Slots) <= MapBits
         /\ IsFiniteSet(map) /\ IsFiniteSet(OnPads) /\ IsFiniteSet(OnKeyboards)
<1>1. IsFiniteSet(Slots) /\ Cardinality(Slots) <= MapBits
  BY UsbInputAssumption DEF Slots
<1>2. IsFiniteSet(0..(MapBits - 1))
  BY FS_Interval, UsbInputAssumption
<1>3. map \in SUBSET (0..(MapBits - 1)) /\ OnPads \in SUBSET Slots /\ OnKeyboards \in SUBSET Slots
  BY DEF Full, OnPads, OnKeyboards
<1> QED
  BY <1>1, <1>2, <1>3, FS_Subset, FS_CardinalityType

(* Counting a union.                                                       *)
LEMMA CardinalityOfParts ==
  ASSUME NEW A, NEW B, IsFiniteSet(A), IsFiniteSet(B)
  PROVE  /\ IsFiniteSet(A \cup B)
         /\ Cardinality(A \cup B) <= Cardinality(A) + Cardinality(B)
         /\ A \cap B = {} => Cardinality(A \cup B) = Cardinality(A) + Cardinality(B)
<1>1. IsFiniteSet(A \cap B) /\ Cardinality(A \cap B) \in Nat
  BY FS_Intersection, FS_CardinalityType
<1>2. Cardinality(A) \in Nat /\ Cardinality(B) \in Nat
  BY FS_CardinalityType
<1>3. /\ IsFiniteSet(A \cup B)
      /\ Cardinality(A \cup B) = Cardinality(A) + Cardinality(B) - Cardinality(A \cap B)
  BY FS_Union
<1>4. A \cap B = {} => Cardinality(A \cap B) = 0
  BY FS_EmptySet
<1> QED
  BY <1>1, <1>2, <1>3, <1>4

(* No more indices are in use than slots run.                              *)
LEMMA IndicesAreFew ==
  ASSUME Full, Counted, ~Has("leaked")
  PROVE  /\ Cardinality(map) <= Cardinality({s \in Slots : On(s)})
         /\ (\E s \in Slots : ~On(s)) => Cardinality(map) < MapBits
<1> DEFINE Busy == {s \in Slots : On(s)}
<1>1. /\ IsFiniteSet(map) /\ IsFiniteSet(Slots) /\ Cardinality(Slots) <= MapBits
      /\ IsFiniteSet(OnPads) /\ IsFiniteSet(OnKeyboards)
  BY Finite
<1>2. IsFiniteSet(PadIndices) /\ Cardinality(PadIndices) <= Cardinality(OnPads)
  <2> DEFINE f == [s \in OnPads |-> js[s]]
  <2>1. f \in Surjection(OnPads, PadIndices)
    BY DEF Surjection, PadIndices
  <2> QED
    BY <1>1, <2>1, FS_Surjection
<1>3. /\ IsFiniteSet(map \ PadIndices)
      /\ Cardinality(map) <= Cardinality(map \ PadIndices) + Cardinality(PadIndices)
  <2>1. IsFiniteSet(map \ PadIndices)
    BY <1>1, FS_Subset
  <2>2. /\ IsFiniteSet((map \ PadIndices) \cup PadIndices)
        /\ Cardinality((map \ PadIndices) \cup PadIndices)
             <= Cardinality(map \ PadIndices) + Cardinality(PadIndices)
    BY <1>2, <2>1, CardinalityOfParts
  <2>3. map \subseteq (map \ PadIndices) \cup PadIndices
    OBVIOUS
  <2>4. Cardinality(map) <= Cardinality((map \ PadIndices) \cup PadIndices)
    BY <2>2, <2>3, FS_Subset
  <2>5. /\ Cardinality(map) \in Nat /\ Cardinality((map \ PadIndices) \cup PadIndices) \in Nat
        /\ Cardinality(map \ PadIndices) \in Nat /\ Cardinality(PadIndices) \in Nat
    BY <1>1, <1>2, <2>1, <2>2, FS_CardinalityType
  <2> QED
    BY <2>1, <2>2, <2>4, <2>5
<1>4. /\ Busy = OnPads \cup OnKeyboards /\ IsFiniteSet(Busy)
      /\ Cardinality(Busy) = Cardinality(OnPads) + Cardinality(OnKeyboards)
  <2>1. Busy = OnPads \cup OnKeyboards /\ OnPads \cap OnKeyboards = {}
    BY DEF OnPads, OnKeyboards
  <2> QED
    BY <1>1, <2>1, CardinalityOfParts
<1>5. /\ Cardinality(map) \in Nat /\ Cardinality(map \ PadIndices) \in Nat
      /\ Cardinality(PadIndices) \in Nat /\ Cardinality(Busy) \in Nat
      /\ Cardinality(OnPads) \in Nat /\ Cardinality(OnKeyboards) \in Nat
      /\ Cardinality(Slots) \in Nat
  BY <1>1, <1>2, <1>3, <1>4, FS_CardinalityType
<1>6. Cardinality(map) <= Cardinality(Busy)
  BY <1>2, <1>3, <1>4, <1>5 DEF Counted
<1>7. ASSUME NEW s \in Slots, ~On(s) PROVE Cardinality(Busy) < Cardinality(Slots)
  <2>1. Busy \in SUBSET Slots /\ Busy # Slots
    BY <1>7
  <2> QED
    BY <1>1, <1>5, <2>1, FS_Subset
<1> QED
  BY <1>1, <1>5, <1>6, <1>7, UsbInputAssumption

(* Starting a client takes an index, dropping one gives its own back.      *)
LEMMA IndicesStep ==
  ASSUME Inv, NEW s \in Slots, Step(s)
  PROVE  Counted' /\ Owned'
<1>0. Types /\ Clients /\ Full /\ Kinded /\ Counted /\ Owned /\ Transfers
  BY DEF Inv, IInv
<1>1. CASE UNCHANGED <<map, js, st, type>> /\ happened \subseteq happened'
  <2>1. OnPads' = OnPads /\ OnKeyboards' = OnKeyboards
    BY <1>1 DEF OnPads, OnKeyboards, On
  <2> QED
    BY <1>0, <1>1, <2>1, Unmoved
<1>2. CASE LookNew(s)
  <2>1. OnPads' = OnPads /\ OnKeyboards' = OnKeyboards
    BY <1>0, <1>2 DEF OnPads, OnKeyboards, On, LookNew
  <2> QED
    BY <1>0, <1>2, <2>1, Unmoved DEF LookNew, shared, history
<1>3. CASE LookDied(s)
  BY <1>3 DEF LookDied, Note, Counted, Owned, Has
<1>4. CASE Drop(s)
  <2>1. CASE Has("leaked")'
    BY <2>1 DEF Counted, Owned
  <2>2. CASE ~Has("leaked")'
    <3>1. type[s] # "keyboard" /\ ~Has("leaked") /\ (Has("released") => Has("released")')
      BY <1>4, <2>2 DEF Drop, Note, Has
    <3>2. CASE st[s] = "failed"
      <4>1. OnPads' = OnPads /\ OnKeyboards' = OnKeyboards /\ js' = js
        BY <1>0, <1>4, <3>2 DEF OnPads, OnKeyboards, On, Drop
      <4>2. PadIndices' = PadIndices
        BY <4>1 DEF PadIndices
      <4>3. map' = map \/ Has("released")'
        BY <1>0, <1>4, <3>2 DEF Drop, Note, Has, Kinded, Slots
      <4>4. Owned'
        BY <1>0, <3>1, <4>1, <4>2, <4>3 DEF Owned
      <4>5. Counted'
        <5>1. map' \ PadIndices' \in SUBSET (map \ PadIndices)
          BY <1>4, <4>2 DEF Drop
        <5>2. IsFiniteSet(map \ PadIndices) /\ IsFiniteSet(OnKeyboards)
          BY <1>0, Finite, FS_Subset
        <5>3. Cardinality(map' \ PadIndices') <= Cardinality(map \ PadIndices)
          BY <5>1, <5>2, FS_Subset
        <5>4. /\ Cardinality(map' \ PadIndices') \in Nat /\ Cardinality(map \ PadIndices) \in Nat
              /\ Cardinality(OnKeyboards) \in Nat
          BY <5>1, <5>2, FS_Subset, FS_CardinalityType
        <5> QED
          BY <1>0, <3>1, <4>1, <5>3, <5>4 DEF Counted
      <4> QED
        BY <4>4, <4>5
    <3>3. CASE st[s] = "running"
      <4>1. OnPads' = OnPads \ {s} /\ OnKeyboards' = OnKeyboards /\ js' = js /\ s \in OnPads
        BY <1>0, <1>4, <3>1, <3>3 DEF OnPads, OnKeyboards, On, Drop, Types
      <4>2. map' = map \ {js[s]}
        BY <1>0, <1>4, <3>1, <3>3 DEF Drop, Kinded, Types
      <4>3. Owned'
        BY <1>0, <3>1, <4>1, <4>2 DEF Owned, PadIndices
      <4>4. Counted'
        <5>1. map' \ PadIndices' \in SUBSET (map \ PadIndices)
          BY <4>1, <4>2 DEF PadIndices
        <5>2. IsFiniteSet(map \ PadIndices) /\ IsFiniteSet(OnKeyboards)
          BY <1>0, Finite, FS_Subset
        <5>3. Cardinality(map' \ PadIndices') <= Cardinality(map \ PadIndices)
          BY <5>1, <5>2, FS_Subset
        <5>4. /\ Cardinality(map' \ PadIndices') \in Nat /\ Cardinality(map \ PadIndices) \in Nat
              /\ Cardinality(OnKeyboards) \in Nat
          BY <5>1, <5>2, FS_Subset, FS_CardinalityType
        <5> QED
          BY <1>0, <3>1, <4>1, <5>3, <5>4 DEF Counted
      <4> QED
        BY <4>3, <4>4
    <3>4. st[s] \in {"running", "failed"}
      BY <1>0, <1>4, UsbInputAssumption DEF Drop, Clients, Slots
    <3> QED
      BY <3>2, <3>3, <3>4
  <2> QED
    BY <2>1, <2>2
<1>5. CASE Start(s)
  <2>1. /\ happened \subseteq happened' /\ ~On(s) /\ On(s)' /\ js' = [js EXCEPT ![s] = Allocate]
        /\ map' = map \cup ({Allocate} \ {MapBits}) /\ type' = type
        /\ \A t \in Slots : t # s => (On(t)' <=> On(t)) /\ js'[t] = js[t]
        /\ js'[s] = Allocate
    BY <1>0, <1>5 DEF Start, On, Types, Full
  <2>2. CASE Has("leaked")
    BY <2>1, <2>2 DEF Counted, Owned, Has
  <2>3. CASE ~Has("leaked")
    <3>1. Allocate \notin map /\ Allocate # MapBits /\ map' = map \cup {Allocate}
      BY <1>0, <2>1, <2>3, AllocateIsFree, IndicesAreFew
    <3>2. CASE type[s] = "keyboard"
      <4>1. OnPads' = OnPads /\ OnKeyboards' = OnKeyboards \cup {s} /\ s \notin OnKeyboards
        BY <2>1, <3>2 DEF OnPads, OnKeyboards
      <4>2. PadIndices' = PadIndices
        BY <2>1, <4>1 DEF PadIndices, OnPads
      <4>3. Owned'
        BY <1>0, <2>1, <3>1, <4>1, <4>2 DEF Owned, Has, OnPads
      <4>4. Counted'
        <5>1. map' \ PadIndices' \in SUBSET ((map \ PadIndices) \cup {Allocate})
          BY <3>1, <4>2
        <5>2. IsFiniteSet(map \ PadIndices) /\ IsFiniteSet(OnKeyboards)
          BY <1>0, Finite, FS_Subset
        <5>3. /\ IsFiniteSet((map \ PadIndices) \cup {Allocate})
              /\ Cardinality((map \ PadIndices) \cup {Allocate})
                   <= Cardinality(map \ PadIndices) + 1
          <6>1. IsFiniteSet({Allocate}) /\ Cardinality({Allocate}) = 1
            BY FS_Singleton
          <6> QED
            BY <5>2, <6>1, CardinalityOfParts
        <5>4. Cardinality(OnKeyboards') = Cardinality(OnKeyboards) + 1
          BY <4>1, <5>2, FS_AddElement
        <5>5. Cardinality(map' \ PadIndices') <= Cardinality((map \ PadIndices) \cup {Allocate})
              /\ IsFiniteSet(map' \ PadIndices')
          BY <5>1, <5>3, FS_Subset
        <5>6. /\ Cardinality(map' \ PadIndices') \in Nat /\ Cardinality(map \ PadIndices) \in Nat
              /\ Cardinality(OnKeyboards) \in Nat
              /\ Cardinality((map \ PadIndices) \cup {Allocate}) \in Nat
          BY <5>2, <5>3, <5>5, FS_CardinalityType
        <5> QED
          BY <1>0, <2>3, <5>3, <5>4, <5>5, <5>6 DEF Counted
      <4> QED
        BY <4>3, <4>4
    <3>3. CASE type[s] # "keyboard"
      <4>1. OnPads' = OnPads \cup {s} /\ OnKeyboards' = OnKeyboards /\ s \notin OnPads
        BY <2>1, <3>3 DEF OnPads, OnKeyboards
      <4>2. PadIndices' = PadIndices \cup {Allocate}
        <5>1. PadIndices' = {js'[t] : t \in OnPads'}
          BY DEF PadIndices
        <5>2. \A t \in OnPads : js'[t] = js[t]
          BY <2>1, <4>1
        <5>3. {js'[t] : t \in OnPads \cup {s}} = {js[t] : t \in OnPads} \cup {Allocate}
          <6>1. {js'[t] : t \in OnPads \cup {s}} = {js'[t] : t \in OnPads} \cup {js'[s]}
            OBVIOUS
          <6>2. {js'[t] : t \in OnPads} = {js[t] : t \in OnPads}
            BY <5>2
          <6>3. js'[s] = Allocate
            BY <2>1
          <6> QED
            BY <6>1, <6>2, <6>3
        <5> QED
          BY <4>1, <5>1, <5>3 DEF PadIndices
      <4>3. Owned'
        BY <1>0, <2>1, <3>1, <4>1, <4>2 DEF Owned, Has, PadIndices
      <4>4. Counted'
        <5>1. map' \ PadIndices' \in SUBSET (map \ PadIndices)
          BY <3>1, <4>2
        <5>2. IsFiniteSet(map \ PadIndices) /\ IsFiniteSet(OnKeyboards)
          BY <1>0, Finite, FS_Subset
        <5>3. Cardinality(map' \ PadIndices') <= Cardinality(map \ PadIndices)
          BY <5>1, <5>2, FS_Subset
        <5>4. /\ Cardinality(map' \ PadIndices') \in Nat /\ Cardinality(map \ PadIndices) \in Nat
              /\ Cardinality(OnKeyboards) \in Nat
          BY <5>1, <5>2, FS_Subset, FS_CardinalityType
        <5> QED
          BY <1>0, <2>3, <4>1, <5>3, <5>4 DEF Counted
      <4> QED
        BY <4>3, <4>4
    <3> QED
      BY <3>2, <3>3
  <2> QED
    BY <2>2, <2>3
<1>6. CASE ParseKeyboard(s)
  <2>1. OnPads' = OnPads /\ OnKeyboards' = OnKeyboards /\ s \notin OnPads
    BY <1>6 DEF OnPads, OnKeyboards, On, ParseKeyboard
  <2>2. \A t \in OnPads : js'[t] = js[t]
    BY <1>0, <1>6, <2>1 DEF ParseKeyboard
  <2>3. PadIndices' = PadIndices
    BY <2>1, <2>2 DEF PadIndices
  <2> QED
    BY <1>0, <1>6, <2>1, <2>2, <2>3 DEF Counted, Owned, Has, ParseKeyboard, history
<1> QED
  BY <1>1, <1>2, <1>3, <1>4, <1>5, <1>6 DEF Step, Plug, Unplug, Report, LookGone, Note, Client,
     Submit, SubmitFails, Take, ParsePad, Lock, Publish, Clear, slot, shared, history, vars

-----------------------------------------------------------------------------
(* Nothing is in use at start-up.                                          *)
LEMMA InitInv == Init => Inv
<1> SUFFICES ASSUME Init PROVE Inv
  OBVIOUS
<1>1. IInv
  BY InitIInv
<1>2. Full
  BY UsbInputAssumption DEF Init, Full, No
<1>3. Kinded /\ Owned /\ Transfers /\ Shown
  BY UsbInputAssumption DEF Init, No, Kinded, Owned, Transfers, Shown, PadIndices, OnPads, On
<1>4. Counted
  <2>1. map \ PadIndices = {} /\ OnKeyboards = {}
    BY DEF Init, OnKeyboards
  <2> QED
    BY <2>1, FS_EmptySet DEF Counted
<1> QED
  BY <1>1, <1>2, <1>3, <1>4 DEF Inv

(* The whole invariant holds of every behaviour.                           *)
LEMMA InvHolds == Spec => []Inv
<1>1. Inv /\ [Next]_vars => Inv'
  <2> SUFFICES ASSUME Inv, [Next]_vars PROVE Inv'
    OBVIOUS
  <2>1. CASE UNCHANGED vars
    BY <2>1 DEF vars, usb, slot, client, shared, history, Inv, IInv, Types, Clients, Owner,
       Seen, Full, Kinded, Counted, Owned, Transfers, Shown, Has, On, OnPads, OnKeyboards,
       PadIndices, Pad, Running, Undisturbed, Pending
  <2>2. CASE \E s \in Slots : LookSame(s)
    BY <2>1, <2>2 DEF LookSame
  <2> QED
    BY <2>1, <2>2, HostStep, ClientStep, FullStep, KindedStep, TransfersStep, ShownStep,
       IndicesStep DEF Next, Inv, Step
<1> QED
  BY <1>1, InitInv, PTL DEF Spec

(* Every variable keeps its type; the index is within the map or says      *)
(* that there was none.                                                    *)
THEOREM TypeCorrect == Spec => []TypeOK
<1>1. Inv => TypeOK
  BY DEF Inv, IInv, Types, Full, Kinded, TypeOK
<1> QED
  BY <1>1, InvHolds, PTL

(* usb_js_release gives every index back that usb_js_allocate gave, unless *)
(* a keyboard was unplugged or a client not created; until then a new pad  *)
(* is never refused one.                                                   *)
THEOREM NoIndexIsLost == Spec => []NoIndexLost
<1>1. Inv => NoIndexLost
  BY IndicesAreFew DEF Inv, NoIndexLost, Has, On
<1> QED
  BY <1>1, InvHolds, PTL

(* Two running pads never have one index, unless usb_js_release was told   *)
(* an index that is another's.                                             *)
THEOREM IndicesAreOwn == Spec => []OwnIndex
<1>1. Inv => OwnIndex
  BY DEF Inv, Owned, OwnIndex, Pad, Running, OnPads, On, Has
<1> QED
  BY <1>1, InvHolds, PTL

(* What player 1 or 2 pressed last is what hid1_state or hid2_state says,  *)
(* whenever the client is waiting for the next report, unless the causes   *)
(* that LastReportShown names had a hand in it.                            *)
THEOREM LastReportIsShown == Spec => []LastReportShown
<1>1. Inv => LastReportShown
  BY DEF Inv, Transfers, Shown, LastReportShown, Undisturbed, Pending, Has
<1> QED
  BY <1>1, InvHolds, PTL
=============================================================================
