---------------------------- MODULE MCOutboundSend ----------------------------
(* Two sends that raced through the panel's check, a control queue of two.  *)
EXTENDS OutboundSend
=============================================================================
