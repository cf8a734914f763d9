--------------------------- MODULE MCVideoPipeline ---------------------------
(* Two screen sizes: enough for a frame, and the encoder, of the wrong one. *)
EXTENDS VideoPipeline
=============================================================================
