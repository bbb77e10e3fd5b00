--------------------------- MODULE MCFlashSession ---------------------------
(* Two boards to flash, and another one that may still owe an answer. *)
EXTENDS FlashSession
=============================================================================
