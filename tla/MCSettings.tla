----------------------------- MODULE MCSettings -----------------------------
(* Settings with cells that are right, wrong and out of range, for TLC. *)
EXTENDS Settings

\* The rows that take part in a repair have several values: an on temperature
\* below, in and above its range, an off temperature below and above the on
\* temperature, a shutdown temperature below and above the fans'.
MCStored ==
  {<<hsOn, hsOff, shutdown, 95, smpsOn, smpsOff, 45, lsOff, 12, option>> :
     hsOn \in {0, 40, 255}, hsOff \in {39, 85}, shutdown \in {31, 86},
     smpsOn \in {20, 85}, smpsOff \in {28, 84}, lsOff \in {44, 254},
     option \in {1, 9}}
=============================================================================
