------------------------------ MODULE MCMciTest ------------------------------
(***************************************************************************)
(* Two threads and repositories that differ in length, order and in what   *)
(* a record at the same index is.                                          *)
(***************************************************************************)
EXTENDS MciTest

CONSTANTS fan, volt

Record(type, way, sensor) == [type |-> type, way |-> way, sensor |-> sensor]

Long  == << Record("full", "threshold", volt), Record("other", "discrete", fan),
            Record("compact", "discrete", fan) >>
Short == << Record("compact", "discrete", fan), Record("full", "threshold", volt) >>
Empty == <<>>

TwoSensors        == {fan, volt}
ThreeRepositories == {Long, Short, Empty}
=============================================================================
