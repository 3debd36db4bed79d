---------------------------- MODULE I2cMasterPort ----------------------------
(***************************************************************************)
(* What a caller of the polled I2C driver, and the chips on its buses, may *)
(* rely on: the order in which the driver puts commands on a bus and what  *)
(* the value it returns says about the bus.  The module knows nothing of   *)
(* registers, polling or interrupts; AstI2c is shown to implement it.      *)
(***************************************************************************)

CONSTANT Ports   \* the controllers a command can be put on

VARIABLES
  port,      \* the controller the driver currently drives
  last,      \* last[p]: the last master command put on the bus of p
  outcome    \* "busy" inside a call, then what the call returned

portVars == <<port, last, outcome>>

Commands == {"none", "startW", "tx", "startR", "rx", "rxlast", "stop"}

(***************************************************************************)
(* Follows[c] is the set of commands that may come right before c on one   *)
(* bus.  A START may come at any time, even on a bus a failed call left    *)
(* without a STOP; data goes out only in an open write, comes in only in   *)
(* an open read; a read is announced by a repeated START inside a write;   *)
(* and a STOP ends a write, or a read whose final byte was flagged so.     *)
(***************************************************************************)
Follows ==
  [c \in Commands \ {"none"} |->
     CASE c = "startW"          -> Commands
       [] c = "tx"              -> {"startW", "tx"}
       [] c = "startR"          -> {"startW", "tx"}
       [] c \in {"rx", "rxlast"} -> {"startR", "rx"}
       [] c = "stop"            -> {"startW", "tx", "rxlast"}]

TypeOK ==
  /\ last \in [Ports -> Commands]
  /\ outcome \in {"none", "busy", "ok", "fail"}

Init ==
  /\ port \notin Ports
  /\ last = [p \in Ports |-> "none"]
  /\ outcome = "none"

\* A slave session, or a call, selects the port it drives.
Select ==
  /\ outcome # "busy"
  /\ port' \in Ports
  /\ outcome' \in {"none", "busy"}
  /\ UNCHANGED last

Put(c) ==
  /\ outcome = "busy"
  /\ port \in Ports
  /\ last[port] \in Follows[c]
  /\ last' = [last EXCEPT ![port] = c]
  /\ UNCHANGED port

\* Success is reported only together with a STOP: the bus is free again.
Finish == Put("stop") /\ outcome' \in {"ok", "fail"}

\* A call gives up without a STOP only before the first byte is received.
Abandon ==
  /\ outcome = "busy"
  /\ port \in Ports
  /\ last[port] \in {"startW", "tx", "startR"}
  /\ outcome' = "fail"
  /\ UNCHANGED <<port, last>>

Next ==
  \/ Select
  \/ \E c \in Commands \ {"none", "stop"} : Put(c) /\ UNCHANGED outcome
  \/ Finish
  \/ Abandon

Spec == Init /\ [][Next]_portVars

\* What the order of commands comes to for the next user of a bus: a call that
\* succeeds leaves it free, and one that fails leaves it free or before the
\* first byte of a read, never among the bytes a chip is sending.
BusAfterCall ==
  /\ outcome = "ok" => last[port] = "stop"
  /\ outcome = "fail" => last[port] \in {"startW", "tx", "startR", "stop"}
=============================================================================
