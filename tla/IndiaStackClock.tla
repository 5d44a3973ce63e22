--------------------------- MODULE IndiaStackClock ---------------------------
(* What the services of indiastack/ share: the threads that serve requests,   *)
(* and the clock they compare expiries with (the now each is given).          *)
EXTENDS Integers

CONSTANTS
    Threads,    \* request threads
    MaxTime     \* bound: the clock stops here

ASSUME ClockAssumption == MaxTime \in Nat

VARIABLE now   \* the clock, in seconds

ClockTicks == now < MaxTime /\ now' = now + 1
=============================================================================
