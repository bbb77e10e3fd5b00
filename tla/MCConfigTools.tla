--------------------------- MODULE MCConfigTools ---------------------------
(* Two boards and three IDs.  At first the boards have different IDs or the
   same one (as they come from the factory), or an earlier change_id has got
   no further than the RAM of one of them.  One list names a board twice. *)
EXTENDS ConfigTools, TLC

CONSTANTS b1, b2

MCList == {<<1>>, <<2>>, <<1, 2>>, <<2, 2>>}

Has(ram, flash) == [ram |-> ram, flash |-> flash]
MCBegin == {(b1 :> Has(x[1], x[2])) @@ (b2 :> Has(2, 2)) : x \in {<<1, 1>>, <<2, 2>>, <<1, 3>>}}
=============================================================================
