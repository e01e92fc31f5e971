----------------------------- MODULE MCWatchdog -----------------------------
(* The slowest host that keeps to bInterval: one that polls more often only  *)
(* shortens the waits.                                                       *)
EXTENDS Watchdog

mcPollTimes == {10}

\* What the theorem NoRestartWhilePolled asks of the constants holds for the device's.
ASSUME RoundAssumption == LongestRound < Period
=============================================================================
