------------------------------ MODULE MCAstI2c ------------------------------
(***************************************************************************)
(* Small instances of AstI2c.  Bus 1 needs no pin function; bus 9 lies in  *)
(* the second register block and takes its pins from SD1.  Where only bus  *)
(* 9 is live, something holds the lines of bus 1, so that its controller   *)
(* neither answers nor receives; the driver still polls and drives it.     *)
(***************************************************************************)
EXTENDS AstI2c

OneBus   == {9}
TwoBuses == {1, 9}

\* The command byte alone, or with a byte do_slaverw only prints.
OnlyCommands == {CommandByte}
AnyByte      == {0, CommandByte}
=============================================================================
