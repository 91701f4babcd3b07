--------------------------- MODULE MCPourControl ---------------------------
(***************************************************************************)
(* Instances of PourControl.  Closed and open are pulses 1 and 2, a servo  *)
(* test may ask for 2.                                                     *)
(***************************************************************************)
EXTENDS PourControl

Settings(servo, distance, half) ==
  [closed |-> 1, open |-> 2, servo |-> servo, distance |-> distance, half |-> half]
Reading(raw, smooth, steady) == [raw |-> raw, smooth |-> smooth, steady |-> steady]

Calibrated   == {Settings(TRUE, TRUE, TRUE)}
\* The closed position may be recalibrated.
Recalibrated == {[c EXCEPT !.closed = p] : c \in Calibrated, p \in {1, 3}}

\* A cup that fills up, and a sensor that misses it.
SteadyCup    == {Reading("cup", "cup", TRUE)}
TapReadings  ==
  SteadyCup \cup {Reading("full", "half", TRUE), Reading("noreturn", "far", FALSE)}
============================================================================
