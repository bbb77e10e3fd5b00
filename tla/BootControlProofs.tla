-------------------------- MODULE BootControlProofs --------------------------
(***************************************************************************)
(* For every set of images and every timeout: only an application that     *)
(* passed the CRC check runs, never before the wait of the last power up   *)
(* ran out or a client spoke to the board, an argument left in RAM serves  *)
(* one restart, the timer never interrupts a client, and the timeout       *)
(* starts an image iff the saved configuration names it.                   *)
(***************************************************************************)
EXTENDS BootControl, TLAPS

(* A restart into the application has been checked, and nothing can change
   the image between the check and the start. *)
RequestInv ==
  mode = "reset" /\ bootArg = BOOT_ARG_START_APPLICATION => app = verified /\ waited

(* The timer has run out, or a client has stopped it. *)
TimerInv ==
  /\ mode = "bootloader" /\ ticks = Timeout => waited
  /\ mode = "bootloader" /\ addressed => ~timeout_active

(* Until a datagram ends the timeout, the configuration in RAM is the one the
   reset handler read from the pages. *)
SavedInv == mode = "bootloader" /\ timeout_active => expected = stored

BootInv ==
  /\ TypeOK
  /\ OnlyVerifiedRuns
  /\ ArgumentServesOnce
  /\ WaitsForUser
  /\ RequestInv
  /\ TimerInv
  /\ SavedInv

-----------------------------------------------------------------------------
(* The initial states. *)
LEMMA InitInv == Init => BootInv
<1>. SUFFICES ASSUME Init PROVE BootInv
  OBVIOUS
<1>1. TypeOK
  <2>1. ticks \in 0 .. Timeout /\ bootArg \in Arg \cup {NoMagic}
    BY TimeoutAssumption DEF Init, NoMagic
  <2>. QED
    BY <2>1 DEF Init, TypeOK
<1>2. OnlyVerifiedRuns /\ ArgumentServesOnce /\ WaitsForUser /\ RequestInv /\ TimerInv /\ SavedInv
  BY DEF Init, OnlyVerifiedRuns, ArgumentServesOnce, WaitsForUser, RequestInv, TimerInv, SavedInv
<1>. QED
  BY <1>1, <1>2 DEF BootInv

(* Every step keeps the invariant. *)
LEMMA NextInv == BootInv /\ [Next]_vars => BootInv'
<1>. SUFFICES ASSUME BootInv, [Next]_vars PROVE BootInv'
  OBVIOUS
<1>. USE TimeoutAssumption, ImageAssumption
     DEF BootInv, Arg, NoMagic, BOOT_ARG_START_BOOTLOADER, BOOT_ARG_START_BOOTLOADER_NO_TIMEOUT,
         BOOT_ARG_START_APPLICATION, BOOT_ARG_START_ST_BOOTLOADER
<1>1. CASE PowerOn
  <2>1. TypeOK'
    BY <1>1 DEF PowerOn, loader, flash, TypeOK
  <2>2. OnlyVerifiedRuns' /\ ArgumentServesOnce' /\ WaitsForUser'
    BY <1>1 DEF PowerOn, loader, flash, TypeOK, OnlyVerifiedRuns, ArgumentServesOnce, WaitsForUser, RequestInv, TimerInv
  <2>3. RequestInv' /\ TimerInv' /\ SavedInv'
    BY <1>1 DEF PowerOn, loader, flash, TypeOK, ArgumentServesOnce, OnlyVerifiedRuns, WaitsForUser, RequestInv, TimerInv, SavedInv
  <2>. QED
    BY <2>1, <2>2, <2>3
<1>2. CASE PowerLoss
  <2>1. TypeOK'
    <3>1. ticks' \in 0 .. Timeout /\ bootArg' \in Arg \cup {NoMagic}
      BY <1>2 DEF PowerLoss, TypeOK
    <3>. QED
      BY <1>2, <3>1 DEF PowerLoss, flash, TypeOK
  <2>2. OnlyVerifiedRuns' /\ ArgumentServesOnce' /\ WaitsForUser'
    BY <1>2 DEF PowerLoss, flash, TypeOK, OnlyVerifiedRuns, ArgumentServesOnce, WaitsForUser, RequestInv, TimerInv
  <2>3. RequestInv' /\ TimerInv' /\ SavedInv'
    BY <1>2 DEF PowerLoss, flash, TypeOK, ArgumentServesOnce, OnlyVerifiedRuns, WaitsForUser, RequestInv, TimerInv, SavedInv
  <2>. QED
    BY <2>1, <2>2, <2>3
<1>3. CASE ResetPin
  <2>1. TypeOK'
    BY <1>3 DEF ResetPin, loader, flash, TypeOK
  <2>2. OnlyVerifiedRuns' /\ ArgumentServesOnce' /\ WaitsForUser'
    BY <1>3 DEF ResetPin, loader, flash, TypeOK, OnlyVerifiedRuns, ArgumentServesOnce, WaitsForUser, RequestInv, TimerInv
  <2>3. RequestInv' /\ TimerInv' /\ SavedInv'
    BY <1>3 DEF ResetPin, loader, flash, TypeOK, ArgumentServesOnce, OnlyVerifiedRuns, WaitsForUser, RequestInv, TimerInv, SavedInv
  <2>. QED
    BY <2>1, <2>2, <2>3
<1>4. CASE ResetHandler
  <2>1. TypeOK'
    <3>1. ticks' \in 0 .. Timeout /\ bootArg' \in Arg \cup {NoMagic}
      BY <1>4 DEF ResetHandler, TypeOK
    <3>. QED
      BY <1>4, <3>1 DEF ResetHandler, flash, TypeOK
  <2>2. OnlyVerifiedRuns' /\ ArgumentServesOnce' /\ WaitsForUser'
    BY <1>4 DEF ResetHandler, flash, TypeOK, OnlyVerifiedRuns, ArgumentServesOnce, WaitsForUser, RequestInv, TimerInv
  <2>3. RequestInv' /\ TimerInv' /\ SavedInv'
    BY <1>4 DEF ResetHandler, flash, TypeOK, ArgumentServesOnce, OnlyVerifiedRuns, WaitsForUser, RequestInv, TimerInv, SavedInv
  <2>. QED
    BY <2>1, <2>2, <2>3
<1>5. CASE Tick
  <2>1. TypeOK'
    BY <1>5 DEF Tick, flash, TypeOK
  <2>2. OnlyVerifiedRuns' /\ ArgumentServesOnce' /\ WaitsForUser'
    BY <1>5 DEF Tick, flash, TypeOK, OnlyVerifiedRuns, ArgumentServesOnce, WaitsForUser, RequestInv, TimerInv
  <2>3. RequestInv' /\ TimerInv' /\ SavedInv'
    BY <1>5 DEF Tick, flash, TypeOK, ArgumentServesOnce, OnlyVerifiedRuns, WaitsForUser, RequestInv, TimerInv, SavedInv
  <2>. QED
    BY <2>1, <2>2, <2>3
<1>6. CASE TimeoutJump
  <2>1. TypeOK'
    BY <1>6 DEF TimeoutJump, Jump, Reboot, loader, flash, TypeOK
  <2>2. OnlyVerifiedRuns' /\ ArgumentServesOnce' /\ WaitsForUser'
    BY <1>6 DEF TimeoutJump, Jump, Reboot, loader, flash, TypeOK, OnlyVerifiedRuns, ArgumentServesOnce, WaitsForUser, RequestInv, TimerInv
  <2>3. RequestInv' /\ TimerInv' /\ SavedInv'
    BY <1>6 DEF TimeoutJump, Jump, Reboot, loader, flash, TypeOK, ArgumentServesOnce, OnlyVerifiedRuns, WaitsForUser, RequestInv, TimerInv, SavedInv
  <2>. QED
    BY <2>1, <2>2, <2>3
<1>7. CASE ReceiveOther
  <2>1. TypeOK'
    BY <1>7 DEF ReceiveOther, flash, TypeOK
  <2>2. OnlyVerifiedRuns' /\ ArgumentServesOnce' /\ WaitsForUser'
    BY <1>7 DEF ReceiveOther, flash, TypeOK, OnlyVerifiedRuns, ArgumentServesOnce, WaitsForUser, RequestInv, TimerInv
  <2>3. RequestInv' /\ TimerInv' /\ SavedInv'
    BY <1>7 DEF ReceiveOther, flash, TypeOK, ArgumentServesOnce, OnlyVerifiedRuns, WaitsForUser, RequestInv, TimerInv, SavedInv
  <2>. QED
    BY <2>1, <2>2, <2>3
<1>8. CASE JumpCommand
  <2>1. TypeOK'
    <3>1. ticks' \in 0 .. Timeout /\ bootArg' \in Arg \cup {NoMagic}
      BY <1>8 DEF JumpCommand, Addressed, Jump, Reboot, TypeOK
    <3>. QED
      BY <1>8, <3>1 DEF JumpCommand, Addressed, Jump, Reboot, flash, TypeOK
  <2>2. OnlyVerifiedRuns' /\ ArgumentServesOnce' /\ WaitsForUser'
    BY <1>8 DEF JumpCommand, Addressed, Jump, Reboot, flash, TypeOK, OnlyVerifiedRuns, ArgumentServesOnce, WaitsForUser, RequestInv, TimerInv
  <2>3. RequestInv' /\ TimerInv' /\ SavedInv'
    BY <1>8 DEF JumpCommand, Addressed, Jump, Reboot, flash, TypeOK, ArgumentServesOnce, OnlyVerifiedRuns, WaitsForUser, RequestInv, TimerInv, SavedInv
  <2>. QED
    BY <2>1, <2>2, <2>3
<1>9. CASE UpdateConfig
  <2>1. TypeOK'
    BY <1>9 DEF UpdateConfig, Addressed, flash, TypeOK
  <2>2. OnlyVerifiedRuns' /\ ArgumentServesOnce' /\ WaitsForUser'
    BY <1>9 DEF UpdateConfig, Addressed, flash, TypeOK, OnlyVerifiedRuns, ArgumentServesOnce, WaitsForUser, RequestInv, TimerInv
  <2>3. RequestInv' /\ TimerInv' /\ SavedInv'
    BY <1>9 DEF UpdateConfig, Addressed, flash, TypeOK, ArgumentServesOnce, OnlyVerifiedRuns, WaitsForUser, RequestInv, TimerInv, SavedInv
  <2>. QED
    BY <2>1, <2>2, <2>3
<1>10. CASE SaveConfig
  <2>1. TypeOK'
    BY <1>10 DEF SaveConfig, Addressed, TypeOK
  <2>2. OnlyVerifiedRuns' /\ ArgumentServesOnce' /\ WaitsForUser'
    BY <1>10 DEF SaveConfig, Addressed, TypeOK, OnlyVerifiedRuns, ArgumentServesOnce, WaitsForUser, RequestInv, TimerInv
  <2>3. RequestInv' /\ TimerInv' /\ SavedInv'
    BY <1>10 DEF SaveConfig, Addressed, TypeOK, ArgumentServesOnce, OnlyVerifiedRuns, WaitsForUser, RequestInv, TimerInv, SavedInv
  <2>. QED
    BY <2>1, <2>2, <2>3
<1>11. CASE WriteFlash
  <2>1. TypeOK'
    BY <1>11 DEF WriteFlash, Addressed, TypeOK
  <2>2. OnlyVerifiedRuns' /\ ArgumentServesOnce' /\ WaitsForUser'
    BY <1>11 DEF WriteFlash, Addressed, TypeOK, OnlyVerifiedRuns, ArgumentServesOnce, WaitsForUser, RequestInv, TimerInv
  <2>3. RequestInv' /\ TimerInv' /\ SavedInv'
    BY <1>11 DEF WriteFlash, Addressed, TypeOK, ArgumentServesOnce, OnlyVerifiedRuns, WaitsForUser, RequestInv, TimerInv, SavedInv
  <2>. QED
    BY <2>1, <2>2, <2>3
<1>12. CASE OtherCommand
  <2>1. TypeOK'
    BY <1>12 DEF OtherCommand, Addressed, flash, TypeOK
  <2>2. OnlyVerifiedRuns' /\ ArgumentServesOnce' /\ WaitsForUser'
    BY <1>12 DEF OtherCommand, Addressed, flash, TypeOK, OnlyVerifiedRuns, ArgumentServesOnce, WaitsForUser, RequestInv, TimerInv
  <2>3. RequestInv' /\ TimerInv' /\ SavedInv'
    BY <1>12 DEF OtherCommand, Addressed, flash, TypeOK, ArgumentServesOnce, OnlyVerifiedRuns, WaitsForUser, RequestInv, TimerInv, SavedInv
  <2>. QED
    BY <2>1, <2>2, <2>3
<1>13. CASE Fault
  <2>1. TypeOK'
    <3>1. ticks' \in 0 .. Timeout /\ bootArg' \in Arg \cup {NoMagic}
      BY <1>13 DEF Fault, Reboot, loader, TypeOK
    <3>. QED
      BY <1>13, <3>1 DEF Fault, Reboot, loader, flash, TypeOK
  <2>2. OnlyVerifiedRuns' /\ ArgumentServesOnce' /\ WaitsForUser'
    BY <1>13 DEF Fault, Reboot, loader, flash, TypeOK, OnlyVerifiedRuns, ArgumentServesOnce, WaitsForUser, RequestInv, TimerInv
  <2>3. RequestInv' /\ TimerInv' /\ SavedInv'
    BY <1>13 DEF Fault, Reboot, loader, flash, TypeOK, ArgumentServesOnce, OnlyVerifiedRuns, WaitsForUser, RequestInv, TimerInv, SavedInv
  <2>. QED
    BY <2>1, <2>2, <2>3
<1>14. CASE AppReboot
  <2>1. TypeOK'
    BY <1>14 DEF AppReboot, Reboot, loader, flash, TypeOK
  <2>2. OnlyVerifiedRuns' /\ ArgumentServesOnce' /\ WaitsForUser'
    BY <1>14 DEF AppReboot, Reboot, loader, flash, TypeOK, OnlyVerifiedRuns, ArgumentServesOnce, WaitsForUser, RequestInv, TimerInv
  <2>3. RequestInv' /\ TimerInv' /\ SavedInv'
    BY <1>14 DEF AppReboot, Reboot, loader, flash, TypeOK, ArgumentServesOnce, OnlyVerifiedRuns, WaitsForUser, RequestInv, TimerInv, SavedInv
  <2>. QED
    BY <2>1, <2>2, <2>3
<1>15. CASE STWrite
  <2>1. TypeOK'
    BY <1>15 DEF STWrite, loader, history, TypeOK
  <2>2. OnlyVerifiedRuns' /\ ArgumentServesOnce' /\ WaitsForUser'
    BY <1>15 DEF STWrite, loader, history, TypeOK, OnlyVerifiedRuns, ArgumentServesOnce, WaitsForUser, RequestInv, TimerInv
  <2>3. RequestInv' /\ TimerInv' /\ SavedInv'
    BY <1>15 DEF STWrite, loader, history, TypeOK, ArgumentServesOnce, OnlyVerifiedRuns, WaitsForUser, RequestInv, TimerInv, SavedInv
  <2>. QED
    BY <2>1, <2>2, <2>3
<1>16. CASE UNCHANGED vars
  <2>1. TypeOK'
    BY <1>16 DEF vars, loader, flash, history, TypeOK
  <2>2. OnlyVerifiedRuns' /\ ArgumentServesOnce' /\ WaitsForUser'
    BY <1>16 DEF vars, loader, flash, history, TypeOK, OnlyVerifiedRuns, ArgumentServesOnce, WaitsForUser, RequestInv, TimerInv
  <2>3. RequestInv' /\ TimerInv' /\ SavedInv'
    BY <1>16 DEF vars, loader, flash, history, TypeOK, ArgumentServesOnce, OnlyVerifiedRuns, WaitsForUser, RequestInv, TimerInv, SavedInv
  <2>. QED
    BY <2>1, <2>2, <2>3
<1>. QED
  BY <1>1, <1>2, <1>3, <1>4, <1>5, <1>6, <1>7, <1>8, <1>9, <1>10, <1>11, <1>12, <1>13, <1>14, <1>15, <1>16 DEF Next

(* The inductive invariant holds in every reachable state. *)
THEOREM Invariance == Spec => []BootInv
BY InitInv, NextInv, PTL DEF Spec

(* Every variable keeps its type; the counted ticks never pass the timeout. *)
THEOREM TypeCorrect == Spec => []TypeOK
<1>1. BootInv => TypeOK
  BY DEF BootInv
<1>. QED
  BY <1>1, Invariance, PTL

(* Only an application that passed the check of command_jump_to_application
   runs, whatever resets, arguments and writes came since. *)
THEOREM VerifiedStart == Spec => []OnlyVerifiedRuns
<1>1. BootInv => OnlyVerifiedRuns
  BY DEF BootInv
<1>. QED
  BY <1>1, Invariance, PTL

(* A boot argument never outlives the restart it was left for (boot.s). *)
THEOREM OneShotArgument == Spec => []ArgumentServesOnce
<1>1. BootInv => ArgumentServesOnce
  BY DEF BootInv
<1>. QED
  BY <1>1, Invariance, PTL

(* The application never runs before the user had the timeout to speak. *)
THEOREM UserIsAwaited == Spec => []WaitsForUser
<1>1. BootInv => WaitsForUser
  BY DEF BootInv
<1>. QED
  BY <1>1, Invariance, PTL

(* The timer never fires on a board a client has spoken to. *)
THEOREM ClientKeepsBoard == Spec => NotTakenAway
<1>1. BootInv /\ [Next]_vars => [addressed => ~TimeoutJump]_vars
  BY DEF BootInv, TimerInv, TimeoutJump
<1>. QED
  BY <1>1, Invariance, PTL DEF Spec, NotTakenAway

(* The timeout starts the image of the saved configuration or none: whatever
   was updated and not saved before a reset has no say (command.c:116). *)
THEOREM TimeoutStartsSaved == Spec => TimeoutRunsSaved
<1>1. ASSUME BootInv, TimeoutJump
      PROVE  bootArg' = BOOT_ARG_START_APPLICATION <=> app = stored
  <2>1. expected = stored
    BY <1>1 DEF BootInv, SavedInv, TimeoutJump
  <2>. QED
    BY <1>1, <2>1 DEF TimeoutJump, Jump, Reboot, BOOT_ARG_START_APPLICATION,
       BOOT_ARG_START_BOOTLOADER_NO_TIMEOUT
<1>2. BootInv /\ [Next]_vars
        => [TimeoutJump => (bootArg' = BOOT_ARG_START_APPLICATION <=> app = stored)]_vars
  BY <1>1
<1>. QED
  BY <1>2, Invariance, PTL DEF Spec, TimeoutRunsSaved
=============================================================================
