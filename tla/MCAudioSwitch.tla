---------------------------- MODULE MCAudioSwitch ----------------------------
(* Two sessions share the listener count and the audio loop. *)
EXTENDS AudioSwitch
=============================================================================
