----------------------------- MODULE MCCountdown ------------------------------
(* An instance of Countdown for TLC.  With IntMod = 6, of the numbers typed -1 *)
(* becomes 5, 6 becomes 0, and 2 stays: a count again, a stop, a shorter count.*)
EXTENDS Countdown

MCInputs == {-1, 2, 6}
=============================================================================
