------------------------------ MODULE ByteFifo ------------------------------
(***************************************************************************)
(* What a receive ring promises its reader, without indices: the bytes     *)
(* come out in the order in which they went in, each once, and one is lost *)
(* only when there is no room but for one more.                            *)
(***************************************************************************)
EXTENDS Naturals, Sequences

CONSTANTS Bytes, Capacity

VARIABLES
  queue,      \* bytes put and not taken
  out,        \* the last byte taken
  lost        \* how many bytes were lost

fvars == <<queue, out, lost>>

Init == queue = <<>> /\ out = 0 /\ lost = 0

Put(b) ==
  /\ Len(queue) < Capacity
  /\ queue' = Append(queue, b)
  /\ UNCHANGED <<out, lost>>

Lose ==
  /\ Len(queue) + 1 >= Capacity
  /\ lost' = lost + 1
  /\ UNCHANGED <<queue, out>>

Take ==
  /\ queue # <<>>
  /\ out' = Head(queue)
  /\ queue' = Tail(queue)
  /\ UNCHANGED lost

Next == (\E b \in Bytes : Put(b)) \/ Lose \/ Take

Spec == Init /\ [][Next]_fvars
=============================================================================
