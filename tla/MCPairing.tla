------------------------------ MODULE MCPairing ------------------------------
(***************************************************************************)
(* Two viewers behind one address, three PINs.                             *)
(***************************************************************************)
EXTENDS Pairing

CONSTANTS v1, v2, here

MCIp == [v \in Viewers |-> here]
=============================================================================
