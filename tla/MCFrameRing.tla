------------------------------ MODULE MCFrameRing ------------------------------
(* The ring of three slots, enough frames to come round to a slot being read. *)
EXTENDS FrameRing
=============================================================================
