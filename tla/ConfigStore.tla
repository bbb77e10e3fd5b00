----------------------------- MODULE ConfigStore -----------------------------
(***************************************************************************)
(* The redundant configuration of a board: two flash pages, each with its  *)
(* own CRC, read at boot (bootloader_main), changed in RAM by "update      *)
(* config" and saved by "save config" (command_config_write_to_flash), one *)
(* page after the other, with a power failure possible between any two     *)
(* flash operations.                                                       *)
(*                                                                         *)
(* A page is the configuration it holds, or NoConfig when its CRC is wrong *)
(* (blank, half erased, half written, rotten): the CRC is ideal.           *)
(***************************************************************************)
EXTENDS Integers

CONSTANTS
  Field,          (* the keys of a configuration                            *)
  Modulus,        (* values are integers of this modulus (2^32 in the code) *)
  DefaultConfig,  (* what a board without any valid page runs with          *)
  NoConfig        (* a page with a wrong CRC; RAM without power             *)

Value == 0 .. Modulus - 1
Config == [Field -> Value]

ASSUME ModulusAssumption == Modulus \in Nat \ {0}
ASSUME ConfigAssumption ==
  /\ "update_count" \in Field
  /\ DefaultConfig \in Config
  /\ NoConfig \notin Config

Pages == {1, 2}
Other(p) == 3 - p

VARIABLES
  page,       (* the two configuration pages                                  *)
  config,     (* bootloader_config_t in RAM                                   *)
  buffer,     (* config_page_buffer, serialised configuration with its CRC    *)
  pc,         (* off, loop (waiting for commands), or the next step of a save *)
  target,     (* the page the save is writing                                 *)
  second,     (* whether that is the second page of the save                  *)
  strict,     (* whether a bad first page aborts the save                     *)
  success,    (* the flag of command_config_write_to_flash                    *)
  committed,  (* history: configuration of the last save answered true        *)
  pending     (* history: those of the saves begun since, not answered true   *)

save == <<buffer, target, second, strict, success>>
history == <<committed, pending>>
vars == <<page, config, pc, save, history>>

-----------------------------------------------------------------------------
(* config_is_valid *)
Valid(p) == page[p] # NoConfig
AnyValid == \E p \in Pages : Valid(p)

(* Mutant: the second page is never looked at. *)
BootConfigNoFallback == IF Valid(1) THEN page[1] ELSE DefaultConfig

(* What bootloader_main finds, in this order of preference. *)
BootConfig ==
  IF Valid(1) THEN page[1]
  ELSE IF Valid(2) THEN page[2]
  ELSE DefaultConfig

(* config_update_from_serialized: the keys of the map d replace those of c. *)
Merge(c, d) == [f \in Field |-> IF f \in DOMAIN d THEN d[f] ELSE c[f]]

(* config->update_count += 1, an unsigned counter. *)
Counted(c) ==
  [c EXCEPT !["update_count"] = (c["update_count"] + 1) % Modulus]

Saving == pc \in {"erase", "write", "verify"}

Init ==
  /\ page \in [Pages -> Config \cup {NoConfig}]
  /\ Valid(1) /\ Valid(2) => page[1] = page[2]
  /\ committed = BootConfig
  /\ pending = {}
  /\ config = NoConfig
  /\ pc = "off"
  /\ buffer = NoConfig
  /\ target = 1
  /\ second = FALSE
  /\ strict = FALSE
  /\ success = FALSE

-----------------------------------------------------------------------------
(* Mutant: the board starts with its defaults unless page 1 is good. *)
BootFirstPageOnly ==
  /\ pc = "off"
  /\ config' = IF Valid(1) THEN page[1] ELSE DefaultConfig
  /\ pc' = "loop"
  /\ UNCHANGED <<page, save, history>>

(* Power up: the valid page is read, and nothing is written. *)
Boot ==
  /\ pc = "off"
  /\ config' = BootConfig
  /\ pc' = "loop"
  /\ UNCHANGED <<page, save, history>>

(* command_config_update: any subset of the keys, in RAM only. *)
Update ==
  /\ pc = "loop"
  /\ \E keys \in SUBSET Field : \E d \in [keys -> Value] : config' = Merge(config, d)
  /\ UNCHANGED <<page, pc, save, history>>

(* Mutant: page 1 is always destroyed first. *)
BeginSaveFixedOrder ==
  /\ pc = "loop"
  /\ config' = Counted(config)
  /\ buffer' = config'
  /\ pending' = pending \cup {config'}
  /\ target' = 1
  /\ strict' = AnyValid
  /\ second' = FALSE
  /\ success' = FALSE
  /\ pc' = "erase"
  /\ UNCHANGED <<page, committed>>

(* The head of command_config_write_to_flash: count, serialise, and choose
   the page that may be destroyed first. *)
BeginSave ==
  /\ pc = "loop"
  /\ config' = Counted(config)
  /\ buffer' = config'
  /\ pending' = pending \cup {config'}
  /\ target' = IF ~Valid(2) /\ Valid(1) THEN 2 ELSE 1
  /\ strict' = AnyValid
  /\ second' = FALSE
  /\ success' = FALSE
  /\ pc' = "erase"
  /\ UNCHANGED <<page, committed>>

(* flash_write_and_verify, in three steps. *)
Erase ==
  /\ pc = "erase"
  /\ page' = [page EXCEPT ![target] = NoConfig]
  /\ pc' = "write"
  /\ UNCHANGED <<config, save, history>>

Write ==
  /\ pc = "write"
  /\ page' = [page EXCEPT ![target] = buffer]
  /\ pc' = "verify"
  /\ UNCHANGED <<config, save, history>>

(* The page is worn out: what it holds after the write has a wrong CRC. *)
WriteFails ==
  /\ pc = "write"
  /\ pc' = "verify"
  /\ UNCHANGED <<page, config, save, history>>

(* cmp_write_bool(out, success) *)
Reply(ok) ==
  /\ pc' = "loop"
  /\ committed' = IF ok THEN buffer ELSE committed
  /\ pending' = IF ok THEN {} ELSE pending

(* Mutant: one page is enough. *)
VerifyFirstOnly ==
  /\ pc = "verify" /\ ~second
  /\ success' = Valid(target)
  /\ Reply(success')
  /\ UNCHANGED <<page, config, buffer, target, second, strict>>

(* The first page is done: a bad one ends the save unless there was nothing
   to lose (the nested ifs, or the unconditional pair of the last branch). *)
VerifyFirst ==
  /\ pc = "verify" /\ ~second
  /\ success' = Valid(target)
  /\ IF success' \/ ~strict
       THEN /\ target' = Other(target)
            /\ second' = TRUE
            /\ pc' = "erase"
            /\ UNCHANGED history
       ELSE /\ Reply(FALSE)
            /\ UNCHANGED <<target, second>>
  /\ UNCHANGED <<page, config, buffer, strict>>

(* Mutant: the result of the first page is overwritten by the second's. *)
VerifySecondForgets ==
  /\ pc = "verify" /\ second
  /\ success' = Valid(target)
  /\ Reply(success')
  /\ UNCHANGED <<page, config, buffer, target, second, strict>>

(* The second page is done: the answer is whether both were good. *)
VerifySecond ==
  /\ pc = "verify" /\ second
  /\ success' = (success /\ Valid(target))
  /\ Reply(success')
  /\ UNCHANGED <<page, config, buffer, target, second, strict>>

(* Power fails, or the board resets, at any point: RAM is lost. *)
PowerLoss ==
  /\ pc # "off"
  /\ pc' = "off"
  /\ config' = NoConfig
  /\ buffer' = NoConfig
  /\ target' = 1
  /\ second' = FALSE
  /\ strict' = FALSE
  /\ success' = FALSE
  /\ UNCHANGED <<page, history>>

(* Bit rot, one page at a time and never during a save: the failure the
   redundant page is there for. *)
Corrupt(p) ==
  /\ ~Saving
  /\ Valid(p) /\ Valid(Other(p))
  /\ page' = [page EXCEPT ![p] = NoConfig]
  /\ UNCHANGED <<config, pc, save, history>>

SaveStep == Erase \/ Write \/ WriteFails \/ VerifyFirst \/ VerifySecond
Disturb == WriteFails \/ PowerLoss \/ \E p \in Pages : Corrupt(p)

Next ==
  \/ Boot
  \/ Update
  \/ BeginSave
  \/ Erase
  \/ Write
  \/ WriteFails
  \/ VerifyFirst
  \/ VerifySecond
  \/ PowerLoss
  \/ \E p \in Pages : Corrupt(p)

Spec == Init /\ [][Next]_vars

(* A save is straight-line code: once begun it runs on. *)
FairSpec == Spec /\ WF_vars(SaveStep)

-----------------------------------------------------------------------------
TypeOK ==
  /\ page \in [Pages -> Config \cup {NoConfig}]
  /\ config \in Config \cup {NoConfig}
  /\ buffer \in Config \cup {NoConfig}
  /\ pc \in {"off", "loop", "erase", "write", "verify"}
  /\ target \in Pages
  /\ second \in BOOLEAN
  /\ strict \in BOOLEAN
  /\ success \in BOOLEAN
  /\ committed \in Config
  /\ pending \in SUBSET Config

(* Whenever the power fails, the board comes back with the configuration of
   the last save that answered true, or with one whose save was tried since:
   never with an older one, a mixture of two, or the defaults once it has
   been configured (bootloader_main on what command_config_write_to_flash
   leaves behind at any point). *)
Recoverable == BootConfig \in {committed} \cup pending

(* A board that has a valid page never loses its last one ("there is always a
   valid configuration page", README.markdown:20). *)
NeverBricked == [][AnyValid => AnyValid']_vars

(* A save answers true only when losing either page afterwards loses nothing
   (the two results of flash_write_and_verify). *)
TrueMeansBothPages ==
  [][pending # {} /\ pending' = {} => \A p \in Pages : page'[p] = committed']_vars

(* The pages implement the crash-safe register. *)
Register == INSTANCE ConfigRegister
              WITH value <- config, saved <- committed, tried <- pending
RegisterSpec == Register!Spec

(* Saves that are no longer disturbed restore the redundancy, whatever the
   earlier power failures, bad writes and rotten pages left. *)
Redundant == Valid(1) /\ page[1] = page[2]
Healing == (<>[][~Disturb]_vars /\ []<>Saving) => []<>Redundant
=============================================================================
