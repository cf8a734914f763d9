------------------------------- MODULE MCLanes -------------------------------
(***************************************************************************)
(* Two control messages, two audio blocks and three frames, for a queue of *)
(* one.                                                                    *)
(***************************************************************************)
EXTENDS Lanes

MCMaxSent == [control |-> 2, audio |-> 2, video |-> 3]
=============================================================================
