------------------------------ MODULE MCUartLcd ------------------------------
(***************************************************************************)
(* Two terminals, so that two runs write, or one receives while another    *)
(* sets the line up.                                                       *)
(***************************************************************************)
EXTENDS UartLcd, TLC

CONSTANTS t1, t2

TwoTerminals == {t1, t2}
XandNUL      == {"x", NUL}
Symmetry     == Permutations(TwoTerminals)
=============================================================================
