----------------------------- MODULE BootControl -----------------------------
(***************************************************************************)
(* What runs on a board after a reset, and why: the reset handler and the  *)
(* argument left for it at the start of RAM, the timeout of the bootloader *)
(* loop, the CRC check before the application is started, and the ways out *)
(* of each program (commands, faults, the reset pin, a power failure).     *)
(*                                                                         *)
(* An image is the content of the application region; the CRC is ideal, so *)
(* the expected CRC and size in a configuration are the image they match.  *)
(***************************************************************************)
EXTENDS Integers

CONSTANTS
  Image,    (* contents of the application region, whole or not             *)
  NoImage,  (* the default application_crc, which matches no image          *)
  Timeout   (* ticks the bootloader waits (10 s, 3 s on the rc-board)       *)

ASSUME ImageAssumption == NoImage \notin Image
ASSUME TimeoutAssumption == Timeout \in Nat \ {0}

(* boot_arg.h; 4 stands for every other value of the argument byte *)
BOOT_ARG_START_BOOTLOADER == 0
BOOT_ARG_START_BOOTLOADER_NO_TIMEOUT == 1
BOOT_ARG_START_APPLICATION == 2
BOOT_ARG_START_ST_BOOTLOADER == 3
Arg == 0 .. 4
NoMagic == 5

VARIABLES
  mode,            (* off, reset, or the program that runs                   *)
  bootArg,         (* the argument behind the magic value in RAM, or NoMagic *)
  timeout_active,  (* of bootloader_main                                     *)
  ticks,           (* time counted by timeout_reached                        *)
  app,             (* the application region                                 *)
  expected,        (* the image config.application_crc stands for, in RAM    *)
  stored,          (* the same in the configuration pages                    *)
  verified,        (* history: the last image that passed the CRC check      *)
  addressed,       (* history: a datagram for this board since its reset     *)
  waited,          (* history: the wait ran out or a client spoke to the
                      board, since the power came                            *)
  quiet,           (* history: only time, and other boards' datagrams, since
                      the power came                                         *)
  overheard        (* history: another board's datagram since then           *)

loader == <<timeout_active, ticks, expected>>
flash == <<app, stored>>
history == <<verified, addressed, waited, quiet, overheard>>
vars == <<mode, bootArg, loader, flash, history>>

Init ==
  /\ mode = "off"
  /\ bootArg = NoMagic
  /\ timeout_active = FALSE
  /\ ticks = 0
  /\ app \in Image
  /\ expected = NoImage
  /\ stored \in Image \cup {NoImage}
  /\ verified = NoImage
  /\ addressed = FALSE
  /\ waited = FALSE
  /\ quiet = FALSE
  /\ overheard = FALSE

-----------------------------------------------------------------------------
(* reboot_system *)
Reboot(arg) ==
  /\ mode' = "reset"
  /\ bootArg' = arg

(* Power comes: RAM holds no magic value. *)
PowerOn ==
  /\ mode = "off"
  /\ mode' = "reset"
  /\ waited' = FALSE
  /\ quiet' = TRUE
  /\ overheard' = FALSE
  /\ UNCHANGED <<bootArg, loader, flash, verified, addressed>>

PowerLoss ==
  /\ mode # "off"
  /\ mode' = "off"
  /\ bootArg' = NoMagic
  /\ timeout_active' = FALSE
  /\ ticks' = 0
  /\ expected' = NoImage
  /\ addressed' = FALSE
  /\ quiet' = FALSE
  /\ UNCHANGED <<flash, verified, waited, overheard>>

(* The reset pin or a watchdog, in any program: RAM survives. *)
ResetPin ==
  /\ mode \notin {"off", "reset"}
  /\ mode' = "reset"
  /\ quiet' = FALSE
  /\ UNCHANGED <<bootArg, loader, flash, verified, addressed, waited, overheard>>

(* Mutant: the magic value is not cleared. *)
ResetHandlerKeepsMagic ==
  /\ mode = "reset"
  /\ mode' = CASE bootArg = BOOT_ARG_START_APPLICATION -> "application"
               [] bootArg = BOOT_ARG_START_ST_BOOTLOADER -> "st_bootloader"
               [] OTHER -> "bootloader"
  /\ timeout_active' = (mode' = "bootloader" /\ bootArg # BOOT_ARG_START_BOOTLOADER_NO_TIMEOUT)
  /\ ticks' = 0
  /\ expected' = IF mode' = "bootloader" THEN stored ELSE NoImage
  /\ addressed' = FALSE
  /\ UNCHANGED <<bootArg, flash, verified, waited, quiet, overheard>>

(* Mutant: the argument register is not cleared when there is no magic. *)
ResetHandlerNoDefault ==
  /\ mode = "reset"
  /\ mode' = CASE bootArg = BOOT_ARG_START_APPLICATION -> "application"
               [] bootArg = BOOT_ARG_START_ST_BOOTLOADER -> "st_bootloader"
               [] OTHER -> "bootloader"
  /\ bootArg' = NoMagic
  /\ timeout_active' = (mode' = "bootloader" /\ bootArg = BOOT_ARG_START_BOOTLOADER)
  /\ ticks' = 0
  /\ expected' = IF mode' = "bootloader" THEN stored ELSE NoImage
  /\ addressed' = FALSE
  /\ UNCHANGED <<flash, verified, waited, quiet, overheard>>

(* Mutant: the configuration is read at a cold start only. *)
ResetHandlerKeepsConfig ==
  /\ mode = "reset"
  /\ mode' = CASE bootArg = BOOT_ARG_START_APPLICATION -> "application"
               [] bootArg = BOOT_ARG_START_ST_BOOTLOADER -> "st_bootloader"
               [] OTHER -> "bootloader"
  /\ bootArg' = NoMagic
  /\ timeout_active' = (mode' = "bootloader" /\ bootArg # BOOT_ARG_START_BOOTLOADER_NO_TIMEOUT)
  /\ ticks' = 0
  /\ expected' = IF expected = NoImage THEN stored ELSE expected
  /\ addressed' = FALSE
  /\ UNCHANGED <<flash, verified, waited, quiet, overheard>>

(* reset_handler, and bootloader_startup and the head of bootloader_main when
   it goes there: statics are cleared and the configuration read again. *)
ResetHandler ==
  /\ mode = "reset"
  /\ mode' = CASE bootArg = BOOT_ARG_START_APPLICATION -> "application"
               [] bootArg = BOOT_ARG_START_ST_BOOTLOADER -> "st_bootloader"
               [] OTHER -> "bootloader"
  /\ bootArg' = NoMagic
  /\ timeout_active' = (mode' = "bootloader" /\ bootArg # BOOT_ARG_START_BOOTLOADER_NO_TIMEOUT)
  /\ ticks' = 0
  /\ expected' = IF mode' = "bootloader" THEN stored ELSE NoImage
  /\ addressed' = FALSE
  /\ UNCHANGED <<flash, verified, waited, quiet, overheard>>

-----------------------------------------------------------------------------
(* The bootloader loop. *)

(* timeout_reached counts only while the timeout is active. *)
Tick ==
  /\ mode = "bootloader" /\ timeout_active /\ ticks < Timeout
  /\ ticks' = ticks + 1
  /\ waited' = (waited \/ ticks' = Timeout)
  /\ UNCHANGED <<mode, bootArg, timeout_active, expected, flash,
                 verified, addressed, quiet, overheard>>

(* Mutant: a bad image restarts the bootloader as after power up. *)
JumpRetriesForever ==
  IF app = expected
    THEN Reboot(BOOT_ARG_START_APPLICATION) /\ verified' = app
    ELSE Reboot(BOOT_ARG_START_BOOTLOADER) /\ UNCHANGED verified

(* Mutant: the check is left to the client. *)
JumpUnchecked ==
  /\ Reboot(BOOT_ARG_START_APPLICATION)
  /\ verified' = IF app = expected THEN app ELSE verified

(* command_jump_to_application *)
Jump ==
  IF app = expected
    THEN Reboot(BOOT_ARG_START_APPLICATION) /\ verified' = app
    ELSE Reboot(BOOT_ARG_START_BOOTLOADER_NO_TIMEOUT) /\ UNCHANGED verified

(* Mutant: the timer is not asked. *)
TimeoutJumpEarly ==
  /\ mode = "bootloader" /\ timeout_active
  /\ Jump
  /\ UNCHANGED <<loader, flash, addressed, waited, quiet, overheard>>

TimeoutJump ==
  /\ mode = "bootloader" /\ timeout_active /\ ticks = Timeout
  /\ Jump
  /\ UNCHANGED <<loader, flash, addressed, waited, quiet, overheard>>

(* A valid datagram for other boards: the timeout ends all the same. *)
ReceiveOther ==
  /\ mode = "bootloader"
  /\ timeout_active' = FALSE
  /\ overheard' = TRUE
  /\ UNCHANGED <<mode, bootArg, ticks, expected, flash, verified, addressed, waited, quiet>>

(* Mutant: hearing a datagram leaves the timeout running. *)
AddressedKeepsTimeout ==
  /\ mode = "bootloader"
  /\ addressed' = TRUE
  /\ waited' = TRUE
  /\ quiet' = FALSE
  /\ UNCHANGED <<timeout_active, ticks, overheard>>

(* A valid datagram for this board; what it asks for is in the actions. *)
Addressed ==
  /\ mode = "bootloader"
  /\ timeout_active' = FALSE
  /\ addressed' = TRUE
  /\ waited' = TRUE
  /\ quiet' = FALSE
  /\ UNCHANGED <<ticks, overheard>>

JumpCommand ==
  /\ Addressed
  /\ Jump
  /\ UNCHANGED <<expected, flash>>

UpdateConfig ==
  /\ Addressed
  /\ expected' \in Image \cup {NoImage}
  /\ UNCHANGED <<mode, bootArg, flash, verified>>

(* Saved, or not when the flash is worn out (ConfigStore has the detail). *)
SaveConfig ==
  /\ Addressed
  /\ stored' \in {stored, expected}
  /\ UNCHANGED <<mode, bootArg, expected, app, verified>>

(* Erase and write page commands, one chunk of the region at a time. *)
WriteFlash ==
  /\ Addressed
  /\ app' \in Image
  /\ UNCHANGED <<mode, bootArg, expected, stored, verified>>

(* Ping, read and CRC commands, unknown commands, wrong versions. *)
OtherCommand ==
  /\ Addressed
  /\ UNCHANGED <<mode, bootArg, expected, flash, verified>>

(* fault_handler *)
Fault ==
  /\ mode = "bootloader"
  /\ Reboot(BOOT_ARG_START_BOOTLOADER_NO_TIMEOUT)
  /\ quiet' = FALSE
  /\ UNCHANGED <<loader, flash, verified, addressed, waited, overheard>>

-----------------------------------------------------------------------------
(* The other programs. *)

(* The application leaves an argument of its choice and resets. *)
AppReboot ==
  /\ mode = "application"
  /\ \E arg \in Arg : Reboot(arg)
  /\ quiet' = FALSE
  /\ UNCHANGED <<loader, flash, verified, addressed, waited, overheard>>

(* The ST bootloader writes the application region. *)
STWrite ==
  /\ mode = "st_bootloader"
  /\ app' \in Image
  /\ UNCHANGED <<mode, bootArg, loader, stored, history>>

System == ResetHandler \/ Tick \/ TimeoutJump

Next ==
  \/ PowerOn
  \/ PowerLoss
  \/ ResetPin
  \/ ResetHandler
  \/ Tick
  \/ TimeoutJump
  \/ ReceiveOther
  \/ JumpCommand
  \/ UpdateConfig
  \/ SaveConfig
  \/ WriteFlash
  \/ OtherCommand
  \/ Fault
  \/ AppReboot
  \/ STWrite

Spec == Init /\ [][Next]_vars

(* The processor runs and its timer counts. *)
FairSpec == Spec /\ WF_vars(System)

-----------------------------------------------------------------------------
TypeOK ==
  /\ mode \in {"off", "reset", "bootloader", "application", "st_bootloader"}
  /\ bootArg \in Arg \cup {NoMagic}
  /\ timeout_active \in BOOLEAN
  /\ ticks \in 0 .. Timeout
  /\ app \in Image
  /\ expected \in Image \cup {NoImage}
  /\ stored \in Image \cup {NoImage}
  /\ verified \in Image \cup {NoImage}
  /\ addressed \in BOOLEAN
  /\ waited \in BOOLEAN
  /\ quiet \in BOOLEAN
  /\ overheard \in BOOLEAN

(* "If the application CRC does not match, the bootloader should not boot it"
   (README.markdown:54): whatever the resets, the arguments left in RAM and
   the writes since, only an image that passed the check runs. *)
OnlyVerifiedRuns == mode = "application" => app = verified

(* An argument serves one restart (boot.s clears it as it reads it): once a
   program runs there is none left, so that a watchdog or the reset pin brings
   every board back to the bootloader and its wait, whatever is in its flash. *)
ArgumentServesOnce == mode # "reset" => bootArg = NoMagic

(* "On power up the bootloader should wait enough time for the user"
   (README.markdown:55): whatever the path, the application does not run
   before the wait ran out or a client spoke to the board. *)
WaitsForUser == mode = "application" => waited

(* The timer never takes the board away from a client that has spoken to it:
   it leaves the loop on a command, a fault, a reset or a power failure. *)
NotTakenAway == [][addressed => ~TimeoutJump]_vars

(* The timeout decides by the configuration that is saved: it starts the image
   that one names, and no other. An update that was not saved serves the jump
   commands of its session (command.c:116), and no timeout after any reset. *)
TimeoutRunsSaved ==
  [][TimeoutJump => (bootArg' = BOOT_ARG_START_APPLICATION <=> app = stored)]_vars

(* Left alone, a board settles in the application or in the bootloader
   waiting for commands: there is no endless sequence of restarts. *)
Settled ==
  \/ mode \in {"off", "application", "st_bootloader"}
  \/ mode = "bootloader" /\ ~timeout_active
Settles == <>[][System \/ ReceiveOther]_vars => <>[]Settled

ColdStart == mode = "reset" /\ quiet /\ ~overheard /\ bootArg = NoMagic

(* A board whose configuration matches its application boots into it when
   nothing but time passes after power up. *)
QuietBoot == ColdStart /\ app = stored ~> mode = "application" \/ ~quiet \/ overheard
=============================================================================
