---------------------------- MODULE MCCoreLoad ----------------------------
(* One system of each kind.                                                *)
EXTENDS CoreLoad, Integers

CONSTANT Nes

EverySystem == {Nes, Gba, Pc, Cd}

(* The fields of the option word, in a word of five bits.                  *)
Conf == INSTANCE CoreOptions WITH Width <- 5

Narrow == {o \in Conf!Options : Conf!Bits(o) < 5}

(* An option whose choices fit its bits moves alone and shows them all;    *)
(* one that has more writes into the bits above it.                        *)
ASSUME OptionsMoveAlone ==
  \A o \in Narrow : Conf!Fits(o) => Conf!MovesAlone(o) /\ Conf!ShowsAll(o)

ASSUME OthersSpill ==
  \A o \in Narrow : ~Conf!Fits(o) /\ o.hi < 4 => ~Conf!MovesAlone(o)

(* Entries that cannot be read are passed over, and a field of one bit may *)
(* leave its last bit out.                                                 *)
ASSUME OptionsParsed ==
  LET E(bits, n) == [bits |-> bits, choices |-> n]
  IN Conf!Parse(<<E(<<3>>, 2), E(<<-1, 2>>, 2), E(<<2, 1>>, 2), E(<<1, 2>>, 4), E(<<1>>, 0)>>)
       = <<[lo |-> 3, hi |-> 3, choices |-> 2], [lo |-> 1, hi |-> 2, choices |-> 4]>>
=============================================================================
