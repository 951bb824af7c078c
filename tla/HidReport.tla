----------------------------- MODULE HidReport -----------------------------
(* What the firmware makes of a HID report descriptor and of the reports   *)
(* it describes (src/usb/hidparser.cpp).  Pure operators.  A descriptor is *)
(* a sequence of items, its bytes already taken apart; the usages have     *)
(* names, those of the button page the name "button", and usages and pages *)
(* the parser passes over are "other".                                     *)
(* Physical ranges, report numbers beyond one and mice's wheel are left    *)
(* out.                                                                    *)
EXTENDS Integers, Sequences, SequencesExt, FiniteSetsExt

Axes == 0..3
Nowhere == -1
MaxButtons == 12

Item(kind, value) == [kind |-> kind, value |-> value]

(* The variables of parse_report_descriptor, and the fields of conf.       *)
Start ==
  [done |-> "no", type |-> "none", id |-> 0,
   app |-> 0, inner |-> 0, skip |-> 0, depth |-> 0,
   size |-> 0, count |-> 0, bits |-> 0, usages |-> 0, min |-> 0, max |-> 0,
   btns |-> FALSE, seen |-> [a \in Axes |-> Nowhere], hat |-> Nowhere,
   parts |-> {}, buttons |-> <<>>, axis |-> <<>>, hatAt |-> <<>>]

Pad(st) == st.type \in {"joystick", "mouse"}

(* The buttons an input adds: its first bits, as long as its count exceeds *)
(* what there is already.                                                  *)
ButtonsOf(st) ==
  LET have == Len(st.buttons)
      room == IF st.count > have THEN st.count - have ELSE 0
      new == IF room < MaxButtons THEN room ELSE MaxButtons
  IN [b \in 1..new |-> st.bits + b - 1]

Placed(st, usage) ==
  [offset |-> st.bits + st.size * usage, size |-> st.size, min |-> st.min, max |-> st.max]

FoundAxes(st) == {a \in Axes : st.seen[a] # Nowhere /\ Pad(st)}

Buttons(st) == st.btns /\ Pad(st)

(* What report_is_usable asks for.                                         *)
Gives(st) == [x |-> 0 \in FoundAxes(st), y |-> 1 \in FoundAxes(st),
              button |-> Buttons(st), button2 |-> Buttons(st) /\ st.count > 1]

(* INPUT: what the usages before it have named is found here.              *)
Input(st) ==
  [st EXCEPT
    !.buttons = IF Buttons(st) THEN @ \o ButtonsOf(st) ELSE @,
    !.axis = [a \in FoundAxes(st) |-> Placed(st, st.seen[a])] @@ @,
    !.hatAt = IF st.hat # Nowhere /\ st.type = "joystick" THEN <<Placed(st, st.hat)>> ELSE @,
    !.parts = @ \cup {p \in DOMAIN Gives(st) : Gives(st)[p]},
    !.bits = @ + st.count * st.size,
    !.usages = 0, !.btns = FALSE, !.seen = [a \in Axes |-> Nowhere], !.hat = Nowhere]

Collection(st, value) ==
  [st EXCEPT !.depth = @ + 1, !.usages = 0,
             !.app = IF value = 1 THEN @ + 1 ELSE @,
             !.inner = IF value \in {0, 2} THEN @ + 1 ELSE @,
             !.skip = IF value > 2 THEN @ + 1 ELSE @]

(* report_is_usable.                                                       *)
Usable(st) ==
  \/ st.type = "joystick" /\ {"x", "y", "button"} \subseteq st.parts
  \/ st.type = "mouse" /\ {"x", "y", "button", "button2"} \subseteq st.parts
  \/ st.type = "keyboard"

(* END COLLECTION: the end of an application collection with a usable      *)
(* report ends the search; otherwise it goes on with the next report.      *)
EndCollection(st) ==
  LET up == [st EXCEPT !.depth = @ - 1]
  IN IF st.inner > 0 THEN [up EXCEPT !.inner = @ - 1]
     ELSE IF st.app = 0 THEN [up EXCEPT !.done = "bad"]
     ELSE IF Usable(st) THEN [up EXCEPT !.app = @ - 1, !.done = "usable"]
     ELSE [up EXCEPT !.app = @ - 1, !.bits = 0, !.parts = {}]

(* Inside a collection of an unknown kind only the depth is followed.      *)
Skip(st, it) ==
  CASE it.kind = "collection" -> [st EXCEPT !.skip = @ + 1, !.depth = @ + 1]
    [] it.kind = "end" -> [st EXCEPT !.skip = @ - 1, !.depth = @ - 1]
    [] OTHER -> st

See(st, a, always) ==
  IF Pad(st) /\ (always \/ st.seen[a] = Nowhere) THEN [st EXCEPT !.seen[a] = st.usages] ELSE st

Usage(st, n) ==
  LET named ==
        CASE n \in {"keyboard", "mouse"} /\ st.depth = 0 -> [st EXCEPT !.type = n]
          [] n = "gamepad" /\ st.depth = 0 -> [st EXCEPT !.type = "joystick"]
          [] n = "x" /\ st.app > 0 -> See(st, 0, TRUE)
          [] n = "y" /\ st.app > 0 -> See(st, 1, TRUE)
          [] n = "wheel" /\ st.app > 0 -> See(st, 2, TRUE)
          [] n = "z" /\ st.app > 0 -> See(st, 2, FALSE)
          [] n = "r" /\ st.app > 0 -> See(st, 3, FALSE)
          [] n = "hat" /\ st.app > 0 /\ st.type = "joystick" -> [st EXCEPT !.hat = st.usages]
          [] OTHER -> st
  IN [named EXCEPT !.usages = @ + 1]

(* USAGE_PAGE; and a usage in its extended form, which carries its page,   *)
(* has the effect of both items.                                           *)
Page(st, page) == [st EXCEPT !.btns = @ \/ page = "button"]
Extended(st, n) == Usage(Page(st, n), n)

(* One turn of the loop.                                                   *)
Read(st, it) ==
  CASE st.done # "no" -> st
    [] st.done = "no" /\ st.skip > 0 -> Skip(st, it)
    [] OTHER ->
         CASE it.kind = "input" -> Input(st)
           [] it.kind = "collection" -> Collection(st, it.value)
           [] it.kind = "end" -> EndCollection(st)
           [] it.kind = "usage" -> Usage(st, it.value)
           [] it.kind = "page" -> Page(st, it.value)
           [] it.kind = "extended" -> Extended(st, it.value)
           [] it.kind = "size" -> [st EXCEPT !.size = it.value % 256]
           [] it.kind = "count" -> [st EXCEPT !.count = it.value % 256]
           [] it.kind = "min" -> [st EXCEPT !.min = it.value]
           [] it.kind = "max" -> [st EXCEPT !.max = it.value]
           [] it.kind = "id" -> [st EXCEPT !.id = it.value]
           [] it.kind = "first" -> [st EXCEPT !.usages = @ - (it.value - 1)]
           [] it.kind = "last" -> [st EXCEPT !.usages = @ + it.value]
           [] it.kind \in {"output", "feature", "local", "unit"} -> st
           [] OTHER -> [st EXCEPT !.done = "bad"]

Parse(items) == FoldLeft(Read, Start, items)

(* The parts of conf that are used, with report_size in whole bytes.       *)
Conf(items) ==
  LET st == Parse(items)
  IN [usable |-> st.done = "usable", type |-> st.type, id |-> st.id, size |-> st.bits \div 8,
      buttons |-> st.buttons, axis |-> st.axis, hat |-> st.hatAt]

-----------------------------------------------------------------------------
(* Reports: sequences of bytes.                                            *)

(* hid_parse: whose bytes are used, after the report number if there is    *)
(* one.                                                                    *)
Body(conf, data) ==
  LET numbered == conf.id # 0 /\ Len(data) - 1 = conf.size
      body == IF numbered THEN Tail(data) ELSE data
  IN IF (numbered /\ data[1] # conf.id) \/ Len(body) # conf.size THEN <<>> ELSE body

(* collect_bits, byte by byte, into a 16-bit word.                         *)
CollectBits(bytes, offset, size, signed) ==
  LET shift == offset % 8
      first == bytes[offset \div 8 + 1] \div 2^shift
      More[n \in 0..2] ==          \* the bits of the n bytes after the first
        IF n = 0 THEN first
        ELSE LET have == 8 * n - shift
                 left == size - have
             IN IF left <= 0 THEN More[n - 1]
                ELSE More[n - 1] + (bytes[offset \div 8 + n + 1]
                                      % 2^(IF left < 8 THEN left ELSE 8)) * 2^have
      word == IF 8 - shift > size THEN first % 2^size ELSE More[2] % 2^16
  IN IF signed /\ word >= 2^(size - 1) THEN word + 2^16 - 2^size ELSE word

AxisValue(bytes, axis) == CollectBits(bytes, axis.offset, axis.size, axis.min > axis.max)

BitAt(bytes, i) == (bytes[i \div 8 + 1] \div 2^(i % 8)) % 2

(* joystick_parse: the directions and the numbers of the buttons pressed.  *)
Directions(x, y) ==
  {d \in {"right", "left", "down", "up"} :
     CASE d = "right" -> x > 192 [] d = "left" -> x < 64
       [] d = "down" -> y > 192 [] OTHER -> y < 64}
Pressed(conf, bytes) == {b \in DOMAIN conf.buttons : BitAt(bytes, conf.buttons[b]) = 1}
Joystick(conf, bytes) ==
  [directions |-> Directions(AxisValue(bytes, conf.axis[0]), AxisValue(bytes, conf.axis[1])),
   buttons |-> Pressed(conf, bytes)]

-----------------------------------------------------------------------------
(* kbd_parse: a report is the set of keys it shows, modifiers included.    *)
(* What the core has been told of each key, and whether the OSD is open,   *)
(* which the key F12 changes.  Scan codes are those of their keys.         *)
KbdParse(kbd, now, F12) ==
  LET pressed == now \ kbd.last
      released == kbd.last \ now
  IN [last |-> now,
      osd |-> IF F12 \in pressed THEN ~kbd.osd ELSE kbd.osd,
      core |-> IF kbd.osd THEN kbd.core ELSE ((kbd.core \cup pressed) \ released) \ {F12}]
=============================================================================
