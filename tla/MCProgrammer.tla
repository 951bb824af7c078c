--------------------------- MODULE MCProgrammer ---------------------------
(* Two bitstreams of three blocks, three calls, every kind of chain. *)
EXTENDS Programmer

CONSTANTS coreA, coreB
MCCores == {coreA, coreB}
=============================================================================
