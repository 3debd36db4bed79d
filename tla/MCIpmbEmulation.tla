--------------------------- MODULE MCIpmbEmulation ---------------------------
(***************************************************************************)
(* Two boards, one built with a signed char.  Register 5 is an ordinary    *)
(* one; 33 is the address byte; 200 is negative as a signed char; 261 has  *)
(* the low byte of register 5.                                             *)
(***************************************************************************)
EXTENDS IpmbEmulation

CONSTANTS a, b

TwoNodes  == {a, b}
OneSigned == {a}
=============================================================================
