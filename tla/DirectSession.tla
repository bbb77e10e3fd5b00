---------------------------- MODULE DirectSession ----------------------------
(***************************************************************************)
(* The session its user has in mind: the boards perform the commands of a  *)
(* script as if they were called directly.  There are no datagrams, no     *)
(* inboxes, no answers and no retries; a board may perform a command       *)
(* again, miss some, be late or restart, but it never goes back in the     *)
(* script nor ahead of the client, and the verdict OK is the truth.        *)
(* FlashSession shows that the client and the boards implement this.       *)
(***************************************************************************)
EXTENDS Naturals, Sequences

CONSTANTS
  Board,
  Page,
  Script  (* the commands, with the kind and the page of each *)

VARIABLES
  step,          (* where the client is in the script                       *)
  outcome,       (* how the session ended, "none" while it runs             *)
  due,           (* the first command each board may still perform          *)
  done,          (* in lockstep: boards that performed this step's command  *)
  lockstep,      (* no board is ever late                                   *)
  flash, config, saved, device_class,
  disturbed      (* in lockstep: boards reset, or that failed to write      *)

memory == <<flash, config, saved>>
vars == <<step, outcome, due, done, lockstep, memory, device_class, disturbed>>

Init ==
  /\ step = 1 /\ outcome = "none"
  /\ due = [b \in Board |-> 1]
  /\ done = {} /\ disturbed = {}
  /\ lockstep \in BOOLEAN
  /\ flash = [b \in Board |-> [p \in Page |-> "old"]]
  /\ config = [b \in Board |-> "old"] /\ saved = config
  /\ device_class \in [Board -> {"own", "other"}]

(* These boards may miss commands; the others do not. *)
Skip(boards) ==
  /\ due' \in [Board -> Nat]
  /\ \A b \in Board : due[b] <= due'[b] /\ due'[b] <= step'
  /\ \A b \in Board \ boards : due'[b] = due[b]

(* The client goes on, in lockstep when all boards have performed the command. *)
Advance ==
  /\ outcome = "none" /\ step < Len(Script)
  /\ lockstep => done = Board
  /\ step' = step + 1 /\ done' = {}
  /\ Skip(Board)
  /\ UNCHANGED <<outcome, lockstep, memory, device_class, disturbed>>

Flashed(b) == \A p \in Page : flash[b][p] = "new"

(* The session ends anywhere, but OK is said only at its end and of boards
   that all hold the binary.                                                *)
End ==
  /\ outcome = "none"
  /\ outcome' \in {"offline", "aborted", "raised", "verification_failed", "ok"}
  /\ outcome' = "ok" => step = Len(Script) /\ \A b \in Board : Flashed(b)
  /\ UNCHANGED <<step, due, done, lockstep, memory, device_class, disturbed>>

Disturb(b) == disturbed' = IF lockstep THEN disturbed \cup {b} ELSE disturbed

Erase(b, p) ==
  /\ flash' = IF device_class[b] = "own" THEN [flash EXCEPT ![b][p] = "erased"] ELSE flash
  /\ UNCHANGED <<config, saved, disturbed>>

Write(b, p) ==
  /\ \/ /\ flash' = IF device_class[b] # "own" THEN flash
                    ELSE [flash EXCEPT ![b][p] = IF @ \in {"erased", "new"} THEN "new" ELSE "garbage"]
        /\ UNCHANGED disturbed
     \/ /\ device_class[b] = "own"
        /\ flash' = [flash EXCEPT ![b][p] = "garbage"]
        /\ Disturb(b)
  /\ UNCHANGED <<config, saved>>

Update(b) ==
  /\ config' = [config EXCEPT ![b] = "new"]
  /\ UNCHANGED <<flash, saved, disturbed>>

Save(b) ==
  /\ \/ saved' = [saved EXCEPT ![b] = config[b]] /\ UNCHANGED disturbed
     \/ saved' \in {saved, [saved EXCEPT ![b] = config[b]]} /\ Disturb(b)
  /\ UNCHANGED <<flash, config>>

(* Board b performs the command that is due, and may perform it again. After
   the verdict OK nothing is left to perform.                               *)
Perform(b) ==
  LET c == Script[due[b]]
  IN  /\ outcome # "ok"
      /\ lockstep => due[b] = step
      /\ \/ c.op = "erase" /\ Erase(b, c.page)
         \/ c.op = "write" /\ Write(b, c.page)
         \/ c.op = "update" /\ Update(b)
         \/ c.op = "save" /\ Save(b)
         \/ c.op \in {"ping", "crc"} /\ UNCHANGED <<memory, disturbed>>
      /\ done' = IF lockstep THEN done \cup {b} ELSE done
      /\ UNCHANGED <<step, outcome, lockstep, device_class>>
      /\ Skip({b})

(* Board b restarts, maybe in the middle of the command that is due, and
   misses what it did not perform.                                          *)
Reset(b) ==
  LET c == Script[due[b]]
  IN  /\ \/ UNCHANGED <<flash, saved>>
         \/ /\ outcome # "ok" /\ c.op \in {"erase", "write"} /\ device_class[b] = "own"
            /\ flash' = [flash EXCEPT ![b][c.page] = "garbage"]
            /\ UNCHANGED saved
         \/ /\ outcome # "ok" /\ c.op = "save"
            /\ saved' = [saved EXCEPT ![b] = config[b]]
            /\ UNCHANGED flash
      /\ config' = [config EXCEPT ![b] = saved'[b]]
      /\ Disturb(b)
      /\ UNCHANGED <<step, outcome, done, lockstep, device_class>>
      /\ Skip({b})

Next == Advance \/ End \/ \E b \in Board : Perform(b) \/ Reset(b)

Spec == Init /\ [][Next]_vars
=============================================================================
