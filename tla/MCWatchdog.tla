----------------------------- MODULE MCWatchdog -----------------------------
(* Instances of Watchdog for TLC. *)
EXTENDS Watchdog

StartStop == {"TX_CASE", "TC_STOP"}
=============================================================================
