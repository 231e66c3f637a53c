------------------------------ MODULE MCMacTx ------------------------------
(* Instances of MacTx for TLC: one thread for each context, or the two that *)
(* TC_STOP brings together.                                                 *)
EXTENDS MacTx

OneThread == {"rt0"}
TwoThreads == {"rt0", "rt1"}
=============================================================================
