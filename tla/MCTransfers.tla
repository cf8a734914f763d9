----------------------------- MODULE MCTransfers -----------------------------
(* Two sessions of one device and two ids both may use: enough for an offer *)
(* to meet another one's answer, expiry, part file and session end.         *)
EXTENDS Transfers
=============================================================================
