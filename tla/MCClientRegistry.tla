-------------------------- MODULE MCClientRegistry --------------------------
(* Viewers that draw the cursor and viewers that cannot come and go. *)
EXTENDS ClientRegistry
=============================================================================
