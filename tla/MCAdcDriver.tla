---------------------------- MODULE MCAdcDriver -----------------------------
(***************************************************************************)
(* Small instance of AdcDriver.  Channel 0 is the one adc_init senses;     *)
(* channel 1 shares its data register.  The raw values are the ends of the *)
(* ten-bit range and one beside zero, so that calibrated sums reach both   *)
(* signs.                                                                  *)
(***************************************************************************)
EXTENDS AdcDriver

CONSTANTS p, q

OneCaller  == {p}
TwoCallers == {p, q}

\* The word 0x0000000f turns every channel off; no word at all.
AllOff   == {NormalBits}
NoWords  == {}
=============================================================================
