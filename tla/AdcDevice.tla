------------------------------ MODULE AdcDevice ------------------------------
(***************************************************************************)
(* What a caller of an ADC may rely on: channels that are on or off, a     *)
(* value of each, a clock divisor, and how they go with the last request   *)
(* and the answer to it.  There are no registers here; AdcTdd is shown to  *)
(* implement it.                                                           *)
(***************************************************************************)
EXTENDS Integers

CONSTANTS
  Channels,   \* the channels of the device
  Words,      \* what a caller or a conversion can ask to store
  Default     \* the divisor after a reset

VARIABLES
  on,         \* the channels switched on
  value,      \* value[c]: the ten bits a conversion of c has left
  divisor,    \* the ten bits of the clock divisor
  request,    \* the last thing asked of the device
  answer      \* what it gave back

adcVars == <<on, value, divisor, request, answer>>

TenBits == 0..9
One     == {0}      \* the word that switches a channel on

\* A refused request gives nothing back, not even an old value.
Done       == [ret |-> 0, word |-> {}]
Refused    == [ret |-> -1, word |-> {}]
Value(raw) == [ret |-> 0, word |-> raw]

Ask(what, c, word) == request' = [what |-> what, chan |-> c, word |-> word]

\* Nothing of what was stored before survives.
Reset ==
  /\ on' = {} /\ divisor' = Default
  /\ value' = [c \in Channels |-> {}]
  /\ Ask("reset", 0, {}) /\ answer' = Done

Init ==
  /\ on = {} /\ divisor = {} /\ answer = Done
  /\ request = [what |-> "reset", chan |-> 0, word |-> {}]
  /\ value = [c \in Channels |-> {}]

\* A conversion asks nothing and is not answered.
Convert(c, word) ==
  /\ value' = [value EXCEPT ![c] = word \cap TenBits]
  /\ Ask("convert", c, word)
  /\ UNCHANGED <<on, divisor, answer>>

SetClock(word) ==
  /\ divisor' = word \cap TenBits
  /\ Ask("clock", 0, word) /\ answer' = Done
  /\ UNCHANGED <<on, value>>

Switch(c, word) ==
  /\ on' = IF word = One THEN on \cup {c} ELSE on \ {c}
  /\ Ask("enable", c, word) /\ answer' = Done
  /\ UNCHANGED <<value, divisor>>

Measure(c) ==
  /\ answer' = IF c \in on THEN Value(value[c]) ELSE Refused
  /\ Ask("measure", c, {})
  /\ UNCHANGED <<on, value, divisor>>

Refuse ==
  /\ Ask("other", 0, {}) /\ answer' = Refused
  /\ UNCHANGED <<on, value, divisor>>

Next ==
  \/ Reset
  \/ \E c \in Channels :
       \/ Measure(c)
       \/ \E word \in {{}, One, {1}} : Switch(c, word)
       \/ \E word \in Words : Convert(c, word)
  \/ \E word \in Words : SetClock(word)
  \/ Refuse

Spec == Init /\ [][Next]_adcVars
=============================================================================
