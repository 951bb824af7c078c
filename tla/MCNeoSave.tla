----------------------------- MODULE MCNeoSave -----------------------------
(* Two games, a RAM of two blocks, two writes.                             *)
EXTENDS NeoSave

CONSTANTS A, B

TwoGames == {A, B}

(* The programs and games that run, are picked, or left something behind.  *)
Values ==
  {bram[b] : b \in Block} \cup {sum[b] : b \in Block} \cup {rx}
  \cup {up[i].data : i \in 1..Len(up)}
Traces ==
  {run, path, sel} \cup {v.g : v \in Values}
  \cup {g \in Games : sav[g] # NoFile \/ tmp[g] # NoFile}

(* The second write is followed while A is the only one of them.           *)
Bound == wr = MaxWrites => strayed = {} /\ Traces \cap {B, Mixed} = {}
=============================================================================
