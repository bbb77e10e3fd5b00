--------------------------- MODULE MCFlashCommands ---------------------------
(* One protected page and two pages of application, of two cells each. *)
EXTENDS FlashCommands

MCPageOf == [a \in 0 .. 5 |-> a \div 2]
=============================================================================
