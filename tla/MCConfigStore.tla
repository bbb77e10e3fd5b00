---------------------------- MODULE MCConfigStore ----------------------------
(* Small instances of ConfigStore: the counter and one other key. *)
EXTENDS ConfigStore

MCField == {"update_count", "application_crc"}
MCCounterOnly == {"update_count"}
MCDefaultConfig == [f \in Field |-> IF f = "update_count" THEN 1 % Modulus ELSE 0]
=============================================================================
