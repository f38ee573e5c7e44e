------------------------------ MODULE NodeClock ------------------------------
(* The clock a process reads: the `now` the stores of the FX node are      *)
(* given, and the Date.now() of the banking API.                           *)
EXTENDS Naturals

CONSTANT MaxNow      \* bound of the exploration

VARIABLE now

Tick == now < MaxNow /\ now' = now + 1
=============================================================================
