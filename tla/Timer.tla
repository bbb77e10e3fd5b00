-------------------------------- MODULE Timer --------------------------------
(***************************************************************************)
(* The timeout of the bootloader (timeout_timer.c): SysTick counts down    *)
(* from RELOAD and starts again, timeout_reached is called once in every   *)
(* turn of the loop and adds what passed since its last call.  The counter *)
(* goes on between its read of the value, its read of COUNTFLAG and its    *)
(* write of the value.                                                     *)
(***************************************************************************)
EXTENDS Naturals

CONSTANTS
  RELOAD,        (* STK_RVR_RELOAD, 2^24 - 1                                  *)
  WORD,          (* 2^32: a uint32_t is below it                              *)
  PER_MS,        (* timer_freq / 1000                                         *)
  timeout_in_millisec,
  LOOP,          (* a turn of the loop takes at least that many ticks ...     *)
  GAP,           (* ... and at most that many up to the next call             *)
  CALL,          (* ticks from the read of the value to its write, at most    *)
  HORIZON        (* bound: ticks of a behaviour; the timeout comes before     *)

ASSUME TimerAssumption ==
  /\ {RELOAD, WORD, PER_MS, timeout_in_millisec, GAP, CALL, HORIZON} \subseteq Nat
  /\ PER_MS > 0
  /\ LOOP \in 2 .. GAP

(* The loop is never away for two periods of the counter. *)
ASSUME WindowAssumption == GAP + CALL < 2 * RELOAD

(* The timeout and one more call fit in the width of sys_ticks. *)
ASSUME WidthAssumption == (timeout_in_millisec + 3) * PER_MS + 2 * RELOAD < WORD

VARIABLES
  cvr,           (* the value of SysTick                                      *)
  countflag,     (* it counted from 1 to 0 since the flag was read            *)
  pc,            (* in the "loop", before the "flag" or the "write", "reached" *)
  sys_ticks,
  since,         (* ticks since the value was written                         *)
  during,        (* ticks since the value was read, in a call                 *)
  elapsed,       (* history: ticks since timeout_timer_init                   *)
  calls,         (* history: calls completed                                  *)
  torn           (* history: calls that counted a wrap which the value had
                    in it already                                             *)

vars == <<cvr, countflag, pc, sys_ticks, since, during, elapsed, calls, torn>>

PERIOD == RELOAD + 1

(* Mutant: sys_ticks is a byte or so. *)
CountedNarrow(n) == n % (2 * PERIOD)

(* sys_ticks is a uint32_t. *)
Counted(n) == n % WORD

(* systick_set_reload *)
Reload == RELOAD

(* Before timeout_timer_init the counter may hold anything. *)
Init ==
  /\ cvr \in 0 .. RELOAD /\ countflag \in BOOLEAN
  /\ pc = "loop"
  /\ sys_ticks = 0
  /\ since = 0 /\ during = 0
  /\ elapsed = 0 /\ calls = 0 /\ torn = 0

-----------------------------------------------------------------------------
(* A tick of the processor clock. *)
Tick ==
  /\ elapsed < HORIZON
  /\ \/ pc = "loop" /\ since < GAP
     \/ pc \in {"flag", "write"} /\ during < CALL
  /\ cvr' = IF cvr = 0 THEN Reload ELSE cvr - 1
  /\ countflag' = (countflag \/ cvr = 1)
  /\ since' = since + 1
  /\ during' = IF pc = "loop" THEN 0 ELSE during + 1
  /\ elapsed' = elapsed + 1
  /\ UNCHANGED <<pc, sys_ticks, calls, torn>>

(* Mutant: sys_ticks is not static. *)
ReadValueForgets ==
  /\ pc = "loop" /\ since >= LOOP
  /\ sys_ticks' = Counted(RELOAD - cvr)
  /\ pc' = "flag"
  /\ UNCHANGED <<cvr, countflag, since, during, elapsed, calls, torn>>

(* sys_ticks += STK_RVR_RELOAD - systick_get_value() *)
ReadValue ==
  /\ pc = "loop" /\ since >= LOOP
  /\ sys_ticks' = Counted(sys_ticks + (RELOAD - cvr))
  /\ pc' = "flag"
  /\ UNCHANGED <<cvr, countflag, since, during, elapsed, calls, torn>>

(* Mutant: COUNTFLAG is not looked at. *)
ReadFlagIgnored ==
  /\ pc = "flag"
  /\ pc' = "write"
  /\ countflag' = FALSE
  /\ UNCHANGED <<cvr, sys_ticks, since, during, elapsed, calls, torn>>

(* systick_get_countflag, which clears the flag.  A wrap is counted twice when
   the value was read before the counter was reloaded.                      *)
ReadFlag ==
  /\ pc = "flag"
  /\ pc' = "write"
  /\ countflag' = FALSE
  /\ sys_ticks' = IF countflag THEN Counted(sys_ticks + PERIOD) ELSE sys_ticks
  /\ torn' = IF countflag /\ calls > 0 /\ since - during <= PERIOD THEN torn + 1 ELSE torn
  /\ UNCHANGED <<cvr, since, during, elapsed, calls>>

Elapsed(n) == timeout_in_millisec < n \div PER_MS

(* Mutant: the counter goes on from where it is. *)
WriteOmitted ==
  /\ pc = "write"
  /\ since' = 0 /\ during' = 0 /\ calls' = calls + 1
  /\ pc' = IF Elapsed(sys_ticks) THEN "reached" ELSE "loop"
  /\ UNCHANGED <<cvr, countflag, sys_ticks, elapsed, torn>>

(* Whatever is written to the value clears it, and COUNTFLAG. *)
Write ==
  /\ pc = "write"
  /\ cvr' = 0 /\ countflag' = FALSE
  /\ since' = 0 /\ during' = 0 /\ calls' = calls + 1
  /\ pc' = IF Elapsed(sys_ticks) THEN "reached" ELSE "loop"
  /\ UNCHANGED <<sys_ticks, elapsed, torn>>

Call == ReadValue \/ ReadFlag \/ Write

Next == Tick \/ Call

Spec == Init /\ [][Next]_vars

(* Time goes on and so does the loop. *)
FairSpec == Spec /\ WF_vars(Tick) /\ WF_vars(Call)

-----------------------------------------------------------------------------
TypeOK ==
  /\ cvr \in 0 .. RELOAD /\ countflag \in BOOLEAN
  /\ pc \in {"loop", "flag", "write", "reached"}
  /\ sys_ticks \in 0 .. WORD - 1
  /\ since \in 0 .. GAP + CALL /\ during \in 0 .. CALL
  /\ {elapsed, calls, torn} \subseteq Nat

(* The timeout is what it was set to, but for two periods in the first call,
   which takes the counter as it finds it, and one period for every call that
   counts a wrap twice: the user has the time the board was configured for.  *)
Limit == (timeout_in_millisec + 1) * PER_MS
NeverEarly ==
  pc = "reached" => elapsed + 2 * PERIOD + torn * PERIOD > Limit

(* A call loses the ticks it takes itself and nothing else, though the loop
   may be away for longer than a period: the board is late by that much, and
   by a period for the first call.                                          *)
LateByCallsOnly ==
  pc = "loop" => elapsed < Limit + PERIOD + calls * (CALL + 1) + since

(* timeout_reached keeps the time, between these two bounds, although the counter
   goes on while it is read and wraps as often as it likes in a timeout.    *)
OnTime == NeverEarly /\ LateByCallsOnly

(* sys_ticks never wraps. *)
NeverWraps == [][sys_ticks' >= sys_ticks]_vars

(* The timeout comes. *)
Comes == <>(pc = "reached")
=============================================================================
