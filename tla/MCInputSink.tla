----------------------------- MODULE MCInputSink -----------------------------
(***************************************************************************)
(* Two viewers on one sink with the host's own layout: a modifier, a       *)
(* letter, and a digit that Shift makes another character, each also       *)
(* without the character, as the web viewer sends it; two touch ids for    *)
(* two contacts of the device.                                             *)
(***************************************************************************)
EXTENDS InputSink

MCCodes == {"ControlLeft", "KeyA", "Digit1"}

MCChars == [c \in MCCodes |->
    CASE c = "ControlLeft" -> {None}
      [] c = "KeyA" -> {"a", "A", None}
      [] c = "Digit1" -> {"1", "!", None}]

MCHostChar == [c \in MCCodes |->
    CASE c = "ControlLeft" -> None [] c = "KeyA" -> "A" [] c = "Digit1" -> "1"]

MCUpper == [ch \in {"a", "A", "1", "!"} |-> IF ch = "a" THEN "A" ELSE ch]
=============================================================================
