------------------------------- MODULE MCAdcTdd -------------------------------
(***************************************************************************)
(* The nine tests in the order of the code, with any two of them           *)
(* exchanged, and after a new test; for new tests, channels 4 and 5 share  *)
(* a data register and 3 lies in another.  0xa5, and a word with bits      *)
(* above the ten of its field.                                             *)
(***************************************************************************)
EXTENDS AdcTests

Stored == {xA5, {1, 9, 10, 15}}

Exchanged(j, k) ==
  [n \in 1..9 |-> RunList[CASE n = j -> k [] n = k -> j [] OTHER -> n]]

SomeLists == {Exchanged(j, k) : j, k \in 1..9} \cup {<<"new">> \o RunList}
=============================================================================
