----------------------------- MODULE MCPceSave -----------------------------
(* Two games, a backup RAM of two blocks, one or two writes.               *)
EXTENDS PceSave, TLC

CONSTANTS A, B

TwoGames == {A, B}
OneGame == {A}
LostFaults == {"lost", "io", "slow"}
NoFaults == {}
Symmetry == Permutations({A, B})

(* The games that are played or picked, or left a file.                    *)
Traces == {g \in Games : g \in {run, path, sel} \/ sav[g] # NoImage \/ tmp[g] # NoImage}

(* The second write is followed as long as there is one game.              *)
Bound == Traces = Games => wr < MaxWrites
=============================================================================
