---------------------------- MODULE CoreOptions ----------------------------
(* The options of a core as fields of one configuration word               *)
(* (src/ui/options_menu.cpp).  Pure operators.  An entry of the core's     *)
(* configuration string is the bits it names, as conf_bit reads them (-1   *)
(* for any other character), and how many choices follow.                  *)
EXTENDS Integers, Sequences, Bitwise

CONSTANT Width      \* bits of the word: 32 in the code

Words == 0..(2^Width - 1)

(* What parse_conf_string makes of the entries: those that cannot be read  *)
(* are passed over.  "OSD key" is left out of the entries.                 *)
Lo(e) == e.bits[1]
Hi(e) == IF Len(e.bits) > 1 THEN e.bits[2] ELSE Lo(e)
Readable(e) == e.bits # <<>> /\ e.choices > 0 /\ Lo(e) >= 0 /\ Hi(e) >= Lo(e)
Parse(entries) ==
  LET readable == SelectSeq(entries, Readable)
  IN [i \in DOMAIN readable |->
        [lo |-> Lo(readable[i]), hi |-> Hi(readable[i]), choices |-> readable[i].choices]]

Options == {o \in [lo : 0..(Width - 1), hi : 0..(Width - 1), choices : 1..Width] : o.lo <= o.hi}

(* A field of all Width bits shifts 1 by the width of its type, which C++  *)
(* leaves undefined: no such option is considered.                         *)
Bits(o) == o.hi - o.lo + 1
Mask(o) == 2^Bits(o) - 1
Field(value, o) == (value \div 2^o.lo) & Mask(o)
Clear(value, o) == value - Field(value, o) * 2^o.lo

(* OptionsMenu::on_choose: one press, the next choice.                     *)
Press(value, o) ==
  LET v == (Field(value, o) + 1) % o.choices
  IN Clear(value, o) | ((v * 2^o.lo) % 2^Width)

-----------------------------------------------------------------------------
Fits(o) == o.choices <= 2^Bits(o)

(* A press moves the option alone, whatever its neighbours hold.           *)
MovesAlone(o) == \A value \in Words : Clear(Press(value, o), o) = Clear(value, o)

Presses(value, o) ==
  LET p[n \in 0..o.choices] == IF n = 0 THEN value ELSE Press(p[n - 1], o) IN p

(* As many presses as there are choices show each of them, also from a     *)
(* word whose field held no choice.                                        *)
ShowsAll(o) ==
  \A value \in Words : \A c \in 0..(o.choices - 1) :
    \E n \in 0..o.choices : Field(Presses(value, o)[n], o) = c
=============================================================================
