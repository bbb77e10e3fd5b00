--------------------------- MODULE ConfigRegister ---------------------------
(***************************************************************************)
(* What the board promises about its configuration: a register whose       *)
(* writes are all-or-nothing across power failures.  A save the client was *)
(* told has succeeded is never undone; a save that was cut short or failed *)
(* may or may not have taken effect; nothing else is ever read at boot.    *)
(* ConfigStore shows that the two flash pages implement this register.     *)
(***************************************************************************)
CONSTANTS
  Config,   (* the configurations a board can hold *)
  NoConfig  (* the contents of RAM without power   *)

VARIABLES
  value,  (* the configuration in use, NoConfig without power           *)
  saved,  (* the configuration of the last save that answered true      *)
  tried   (* the configurations whose save began since, unanswered
             or answered false                                          *)

vars == <<value, saved, tried>>

Powered == value # NoConfig

Init ==
  /\ value = NoConfig
  /\ saved \in Config
  /\ tried = {}

Boot ==
  /\ ~Powered
  /\ value' \in {saved} \cup tried
  /\ UNCHANGED <<saved, tried>>

Update ==
  /\ Powered
  /\ value' \in Config
  /\ UNCHANGED <<saved, tried>>

Attempt ==
  /\ Powered
  /\ value' \in Config
  /\ tried' = tried \cup {value'}
  /\ UNCHANGED saved

Commit ==
  /\ value \in tried
  /\ saved' = value
  /\ tried' = {}
  /\ UNCHANGED value

PowerLoss ==
  /\ Powered
  /\ value' = NoConfig
  /\ UNCHANGED <<saved, tried>>

Next == Boot \/ Update \/ Attempt \/ Commit \/ PowerLoss

Spec == Init /\ [][Next]_vars
=============================================================================
