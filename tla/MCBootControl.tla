---------------------------- MODULE MCBootControl ----------------------------
(* BootControl with two images; the constants are values in the cfg. *)
EXTENDS BootControl
=============================================================================
