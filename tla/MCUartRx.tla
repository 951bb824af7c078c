------------------------------ MODULE MCUartRx ------------------------------
(* A ring of four bytes and sectors of two.  The payloads hold bytes that  *)
(* look like a header.                                                     *)
EXTENDS UartRx

F(t, d) == [type |-> t, data |-> d]

CoreId    == F(1, <<3>>)
Config    == F(2, <<170, 0, 2>>)        \* one byte more than ConfMax
Joypads   == F(3, <<170, 0, 1, 2>>)
Trace     == F(9, <<1, 170, 0, 0, 2, 9, 8, 7, 6>>)
SaveBlock == F(10, <<0, 0, 170, 11>>)

(* The other types have fixed lengths as these do: floppy writes that of   *)
(* a save block, sector requests that of joypads, floppy reads two bytes   *)
(* and the backup-RAM notice one.                                          *)
MCFrames == {CoreId, Config, Joypads, Trace, SaveBlock}
=============================================================================
