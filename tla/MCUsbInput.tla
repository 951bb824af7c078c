------------------------------ MODULE MCUsbInput ------------------------------
(* One HID interface and one Xbox pad.                                     *)
EXTENDS UsbInput, Integers, Sequences

CONSTANTS Hid, Xbox

(* Descriptors and reports are HidReport's, checked below over small ones. *)
R == INSTANCE HidReport

(* A pad lays its fields out one after the other.                          *)
Fields == {"x", "y", "xy", "buttons", "hat", "padding"}
Width(f) == IF f = "xy" THEN 16 ELSE 8

Item(kind, value) == R!Item(kind, value)
FieldItems(f, usage) ==
  CASE f = "x" -> <<Item(usage, "x"), Item("size", 8), Item("count", 1), Item("input", 2)>>
    [] f = "y" -> <<Item(usage, "y"), Item("size", 8), Item("count", 1), Item("input", 2)>>
    [] f = "xy" -> <<Item(usage, "x"), Item(usage, "y"),
                     Item("size", 8), Item("count", 2), Item("input", 2)>>
    [] f = "hat" -> <<Item(usage, "hat"), Item("size", 8), Item("count", 1), Item("input", 2)>>
    [] f = "buttons" -> <<Item("page", "button"), Item("first", 1), Item("last", 8),
                          Item("size", 1), Item("count", 8), Item("input", 2)>>
    [] OTHER -> <<Item("size", 1), Item("count", 8), Item("input", 3)>>

Layout(fields, usage) == R!FlattenSeq([i \in DOMAIN fields |-> FieldItems(fields[i], usage)])
Application(items) == <<Item("usage", "gamepad"), Item("collection", 1)>> \o items \o <<Item("end", 0)>>
Vendor == <<Item("usage", "other"), Item("collection", 128), Item("usage", "x"),
            Item("size", 8), Item("count", 3), Item("input", 2), Item("end", 0)>>

Layouts == [1..3 -> Fields]
Offset(fields, i) == R!FoldLeft(LAMBDA sum, f : sum + Width(f), 0, SubSeq(fields, 1, i - 1))
Last(fields, names) == R!Max({i \in DOMAIN fields : fields[i] \in names} \cup {0})

(* A pad is usable when it has both axes and a button; each axis and the   *)
(* hat is found where the fields before it end, the buttons likewise.      *)
ASSUME FoundWhereLaid ==
  \A fields \in Layouts :
    LET conf == R!Conf(Application(Layout(fields, "usage")))
        Has(names) == Last(fields, names) # 0
        y == Last(fields, {"y", "xy"})
    IN /\ conf.usable <=> Has({"x", "xy"}) /\ Has({"y", "xy"}) /\ Has({"buttons"})
       /\ Has({"x", "xy"}) => conf.axis[0].offset = Offset(fields, Last(fields, {"x", "xy"}))
       /\ y # 0 => conf.axis[1].offset = Offset(fields, y) + (IF fields[y] = "xy" THEN 8 ELSE 0)
       /\ Has({"hat"}) => conf.hat[1].offset = Offset(fields, Last(fields, {"hat"}))
       /\ conf.usable => conf.size * 8 = Offset(fields, 4)

(* "Fold an extended usage [...] back to its short form": the same pad is  *)
(* found whichever form its usages have, inside a physical collection or   *)
(* not, with collections of other kinds around its fields, and after an    *)
(* application that is no pad.                                             *)
ASSUME SamePadHoweverWritten ==
  \A fields \in Layouts :
    LET short == Layout(fields, "usage")
        conf == R!Conf(Application(short))
    IN /\ R!Conf(Application(Layout(fields, "extended"))) = conf
       /\ R!Conf(Application(<<Item("collection", 0)>> \o short \o <<Item("end", 0)>>)) = conf
       /\ R!Conf(Application(Vendor \o short \o Vendor)) = conf
       /\ R!Conf(Application(FieldItems("padding", "usage")) \o Application(short)) = conf

(* collect_bits gives the bits of a field, the first the lowest, whatever  *)
(* bytes it crosses; a signed field keeps its sign in 16 bits.             *)
Bytes == <<165, 60, 150>>
ASSUME BitsCollected ==
  \A offset \in 0..8, size \in 1..16 :
    LET Bits == R!MapThenSumSet(LAMBDA i : R!BitAt(Bytes, offset + i) * 2^i, 0..(size - 1))
        signed == R!CollectBits(Bytes, offset, size, TRUE)
    IN /\ R!CollectBits(Bytes, offset, size, FALSE) = Bits
       /\ (IF signed >= 2^15 THEN signed - 2^16 ELSE signed)
            = (IF R!BitAt(Bytes, offset + size - 1) = 1 THEN Bits - 2^size ELSE Bits)

(* A pad at rest presses no direction when its axes have seven or eight    *)
(* bits and no sign; the thresholds of joystick_parse fit no other axis.   *)
Centre(size, signed) == IF signed THEN 0 ELSE 2^(size - 1)
ASSUME RestOfByteAxes ==
  \A size \in 1..16, signed \in BOOLEAN :
    LET c == Centre(size, signed)
    IN R!Directions(c, c) = {} <=> ~signed /\ size \in {7, 8}

(* The core is told of every key that goes down and up while the OSD is    *)
(* closed.  A key that went up while it was open stays down for the core,  *)
(* until it is pressed again.                                              *)
Keys == {"key", "shift", "F12"}
Typed(reports) ==
  R!FoldLeft(LAMBDA kbd, now : R!KbdParse(kbd, now, "F12"),
             [last |-> {}, osd |-> FALSE, core |-> {}], reports)
ASSUME CoreHoldsKeys ==
  \A reports \in [1..4 -> SUBSET Keys] :
    (\A i \in 1..4 : "F12" \notin reports[i]) => Typed(reports).core = reports[4]
ASSUME KeyMayStayDown ==
  \E reports \in [1..4 -> SUBSET Keys] :
    LET kbd == Typed(reports) IN kbd.last = {} /\ ~kbd.osd /\ kbd.core # {}
=============================================================================
