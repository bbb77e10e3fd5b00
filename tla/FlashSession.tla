----------------------------- MODULE FlashSession -----------------------------
(***************************************************************************)
(* The client flashes a set of boards (main of bootloader_flash.py): it    *)
(* pings them, erases and writes every page, updates and saves their       *)
(* configuration, each command sent to all boards at once and retried for  *)
(* those that did not answer, and checks the CRC of what was written.      *)
(* Commands and answers are datagrams; each is lost or delivered on its    *)
(* own, and answered whenever the board comes to it.                       *)
(***************************************************************************)
EXTENDS Naturals, Sequences, FiniteSets

CONSTANTS
  Board,        (* the destinations                                         *)
  Stranger,     (* other boards on the bus                                  *)
  PageCount,    (* pages of the binary                                      *)
  retry_limit,  (* the parameter of write_command_retry                     *)
  InboxCap,     (* bound: commands waiting at a board; further ones are lost *)
  RxCap         (* bound: answers on their way to the client; likewise       *)

ASSUME SessionAssumption ==
  /\ IsFiniteSet(Board) /\ IsFiniteSet(Stranger) /\ Board # {}
  /\ Board \cap Stranger = {}
  /\ PageCount \in Nat \ {0} /\ retry_limit \in Nat /\ InboxCap \in Nat \ {0}
  /\ RxCap \in Nat \ {0}

Page == 1 .. PageCount

(* The commands of a session, in the order they are sent. *)
Command == [op : {"ping", "erase", "write", "update", "save", "crc"}, page : 0 .. PageCount]

Cmd(op, p) == [op |-> op, page |-> p]

(* Mutant: the configuration is saved before it is updated. *)
ScriptSavesFirst ==
  <<Cmd("ping", 0)>>
    \o [p \in Page |-> Cmd("erase", p)] \o [p \in Page |-> Cmd("write", p)]
    \o <<Cmd("save", 0), Cmd("update", 0), Cmd("crc", 0)>>

Script ==
  <<Cmd("ping", 0)>>
    \o [p \in Page |-> Cmd("erase", p)] \o [p \in Page |-> Cmd("write", p)]
    \o <<Cmd("update", 0), Cmd("save", 0), Cmd("crc", 0)>>

PING  == 1
CHECK == 2 * PageCount + 4     (* the steps between are calls of write_command_retry *)

(* What an answer says. *)
Content == {"true", "false", "crc_new", "crc_other"}

(* What a page holds: the binary is "new". *)
Data == {"old", "erased", "new", "garbage"}

VARIABLES
  (* client *)
  started,         (* the session has begun                                  *)
  step,            (* index in Script of the command that is being answered  *)
  answers,         (* answers (write_command_retry): from board to content   *)
  retry_count,
  online_boards,   (* of check_online_boards                                 *)
  valid_nodes,     (* of check_binary                                        *)
  boards_checked,
  outcome,         (* how the program ended, "none" while it runs            *)
  (* bus *)
  rx,              (* answers on their way, or received and not yet read     *)
  owing,           (* strangers that owe the answer to an earlier command     *)
  punctual,        (* the read timeout is longer than any answer takes       *)
  (* boards *)
  inbox,           (* commands received and not yet executed                 *)
  flash,           (* the pages of the application                           *)
  config,          (* application_crc and size in RAM, "old" or "new"        *)
  saved,           (* ... in the configuration pages                         *)
  device_class,    (* "own" or "other": what the client flashes, or not      *)
  (* history *)
  served,          (* when punctual: boards that executed this step's command *)
  disturbed,       (* when punctual: boards reset, or that failed to write   *)
  check_lost       (* a command or an answer of the check was lost           *)

clientVars  == <<started, step, answers, retry_count, online_boards, valid_nodes,
                 boards_checked, outcome>>
boardVars   == <<flash, config, saved>>
frozenVars  == <<punctual, device_class>>
vars == <<clientVars, rx, owing, inbox, boardVars, frozenVars, served, disturbed, check_lost>>

NoAnswers == [b \in {} |-> "true"]

Answered == DOMAIN answers

Init ==
  /\ step = PING /\ started = FALSE /\ answers = NoAnswers /\ retry_count = 0
  /\ online_boards = {} /\ valid_nodes = {} /\ boards_checked = 0 /\ outcome = "none"
  /\ rx = <<>>
  /\ punctual \in BOOLEAN
  /\ owing \in IF punctual THEN {{}} ELSE SUBSET Stranger
  /\ inbox = [b \in Board |-> <<>>]
  /\ flash = [b \in Board |-> [p \in Page |-> "old"]]
  /\ config = [b \in Board |-> "old"]
  /\ saved = config
  /\ device_class \in [Board -> {"own", "other"}]
  /\ served = {} /\ disturbed = {} /\ check_lost = FALSE

-----------------------------------------------------------------------------
(* Client *)

Running(lo, hi) == outcome = "none" /\ started /\ step \in lo .. hi
Calling == Running(PING + 1, CHECK - 1)

(* write_command: the datagram of step s reaches some of its destinations. *)
write_command(s, destinations) ==
  \E got \in SUBSET {b \in destinations : Len(inbox[b]) < InboxCap} :
    /\ inbox' = [b \in Board |-> IF b \in got THEN Append(inbox[b], Script[s]) ELSE inbox[b]]
    /\ check_lost' = (check_lost \/ (s = CHECK /\ got # destinations))

(* A step starts with its command for all boards. *)
Start(s) ==
  /\ step' = s
  /\ write_command(s, Board)
  /\ answers' = NoAnswers /\ retry_count' = 0
  /\ served' = {}
  /\ UNCHANGED outcome

(* The program exits: its socket is closed. *)
Exit(result) ==
  /\ outcome' = result
  /\ rx' = <<>>
  /\ UNCHANGED <<step, answers, retry_count, inbox, check_lost, served>>

Begin ==
  /\ ~started
  /\ started' = TRUE
  /\ Start(PING)
  /\ UNCHANGED <<online_boards, valid_nodes, boards_checked, rx, owing, boardVars, frozenVars, disturbed>>

(* The reader yields the next datagram. *)
Read == rx # <<>> /\ rx' = Tail(rx)

Reading ==
  \/ Running(PING, PING)
  \/ Calling /\ Cardinality(Answered) < Cardinality(Board)
  \/ Running(CHECK, CHECK) /\ boards_checked < Cardinality(Board)

readRest == <<owing, inbox, boardVars, frozenVars, served, disturbed, check_lost>>

(* The datagram lacks its first frame, or completes another one: nothing
   catches what decode_datagram raises.                                     *)
ReadBroken ==
  /\ Reading /\ rx # <<>>
  /\ Exit("raised")
  /\ UNCHANGED <<started, online_boards, valid_nodes, boards_checked, owing, boardVars, frozenVars, disturbed>>

(* check_online_boards collects sources until the first timeout. *)
ReadPong ==
  /\ Running(PING, PING)
  /\ Read
  /\ online_boards' = online_boards \cup {Head(rx).src}
  /\ UNCHANGED <<started, step, answers, retry_count, valid_nodes, boards_checked, outcome, readRest>>

(* The read ends without a datagram. With a timeout that is too short, commands
   may still wait and answers still be on their way (those in rx,
   less than RxCap at a timeout: a bound).                                   *)
Timeout ==
  /\ Len(rx) < RxCap
  /\ punctual => rx = <<>> /\ \A b \in Board : inbox[b] = <<>>

PingTimeout ==
  /\ Running(PING, PING)
  /\ Timeout
  /\ IF online_boards = Board THEN Start(step + 1) /\ UNCHANGED rx ELSE Exit("offline")
  /\ UNCHANGED <<started, online_boards, valid_nodes, boards_checked, owing, boardVars, frozenVars, disturbed>>

(* write_command_retry: any datagram is the answer of its source. *)
ReadAnswer ==
  /\ Calling /\ Cardinality(Answered) < Cardinality(Board)
  /\ Read
  /\ answers' = [b \in Answered \cup {Head(rx).src} |->
                   IF b = Head(rx).src THEN Head(rx).content ELSE answers[b]]
  /\ UNCHANGED <<started, step, retry_count, online_boards, valid_nodes, boards_checked, outcome, readRest>>

CallTimeout == Calling /\ Cardinality(Answered) < Cardinality(Board) /\ Timeout

retryRest == <<started, step, answers, online_boards, valid_nodes, boards_checked, outcome, rx, owing,
               boardVars, frozenVars, served, disturbed>>

(* Mutant: the command is sent again to every destination. *)
RetryAll ==
  /\ CallTimeout
  /\ retry_count < retry_limit
  /\ write_command(step, Board)
  /\ retry_count' = retry_count + 1
  /\ UNCHANGED retryRest

(* Mutant: the retries are not counted. *)
RetryForever ==
  /\ CallTimeout
  /\ write_command(step, Board \ Answered)
  /\ UNCHANGED <<retryRest, retry_count>>

(* Mutant: the command sent again is the one before. *)
RetryLast ==
  /\ CallTimeout
  /\ retry_count < retry_limit
  /\ write_command(step - 1, Board \ Answered)
  /\ retry_count' = retry_count + 1
  /\ UNCHANGED retryRest

Retry ==
  /\ CallTimeout
  /\ retry_count < retry_limit
  /\ write_command(step, Board \ Answered)
  /\ retry_count' = retry_count + 1
  /\ UNCHANGED retryRest

GiveUp ==
  /\ CallTimeout
  /\ retry_count = retry_limit
  /\ Exit("raised")
  /\ UNCHANGED <<started, online_boards, valid_nodes, boards_checked, owing, boardVars, frozenVars, disturbed>>

(* write_command_retry returns; flash_binary exits on a false answer to an
   erase or a write, config_update_and_save does not look at the answers.   *)
Return ==
  /\ Calling /\ Cardinality(Answered) >= Cardinality(Board)
  /\ IF Script[step].op \in {"erase", "write"} /\ \E b \in Answered : answers[b] = "false"
       THEN Exit("aborted")
       ELSE Start(step + 1) /\ UNCHANGED rx
  /\ UNCHANGED <<started, online_boards, valid_nodes, boards_checked, owing, boardVars, frozenVars, disturbed>>

(* Mutant: whoever answers the check has passed it. *)
ReadCrcAny ==
  /\ Running(CHECK, CHECK)
  /\ boards_checked < Cardinality(Board)
  /\ Read
  /\ valid_nodes' = valid_nodes \cup {Head(rx).src}
  /\ boards_checked' = boards_checked + 1
  /\ UNCHANGED <<started, step, answers, retry_count, online_boards, outcome, readRest>>

(* check_binary counts datagrams and ignores timeouts. *)
ReadCrc ==
  /\ Running(CHECK, CHECK)
  /\ boards_checked < Cardinality(Board)
  /\ Read
  /\ valid_nodes' = IF Head(rx).content = "crc_new" THEN valid_nodes \cup {Head(rx).src} ELSE valid_nodes
  /\ boards_checked' = boards_checked + 1
  /\ UNCHANGED <<started, step, answers, retry_count, online_boards, outcome, readRest>>

Verdict ==
  /\ Running(CHECK, CHECK)
  /\ boards_checked = Cardinality(Board)
  /\ Exit(IF valid_nodes = Board THEN "ok" ELSE "verification_failed")
  /\ UNCHANGED <<started, online_boards, valid_nodes, boards_checked, owing, boardVars, frozenVars, disturbed>>

-----------------------------------------------------------------------------
(* Boards *)

boardRest == <<clientVars, owing, frozenVars>>

(* Board b takes a command of this kind. *)
Take(b, op) ==
  /\ inbox[b] # <<>> /\ Head(inbox[b]).op = op
  /\ inbox' = [inbox EXCEPT ![b] = Tail(@)]
  /\ served' = IF punctual /\ Head(inbox[b]) = Script[step] THEN served \cup {b} ELSE served

(* return_datagram: the answer arrives or is lost; one without its last frame
   is lost, and so are those that follow it into the same buffer.           *)
Answer(b, content) ==
  \/ /\ outcome = "none" /\ Len(rx) < RxCap
     /\ rx' = Append(rx, [src |-> b, content |-> content])
     /\ UNCHANGED check_lost
  \/ /\ rx' = rx
     /\ check_lost' = (check_lost \/ step = CHECK)

Disturb(b) == disturbed' = IF punctual THEN disturbed \cup {b} ELSE disturbed

ExecutePing(b) ==
  /\ Take(b, "ping")
  /\ Answer(b, "true")
  /\ UNCHANGED <<boardRest, boardVars, disturbed>>

ExecuteErase(b) ==
  /\ Take(b, "erase")
  /\ IF device_class[b] = "own"
       THEN flash' = [flash EXCEPT ![b][Head(inbox[b]).page] = "erased"] /\ Answer(b, "true")
       ELSE UNCHANGED flash /\ Answer(b, "false")
  /\ UNCHANGED <<boardRest, config, saved, disturbed>>

(* The same data written again leaves it as it is. *)
Written(data) == IF data \in {"erased", "new"} THEN "new" ELSE "garbage"

(* A worn page does not take the data, and the answer is true all the same. *)
ExecuteWrite(b) ==
  LET p == Head(inbox[b]).page
  IN  /\ Take(b, "write")
      /\ IF device_class[b] = "own"
           THEN /\ Answer(b, "true")
                /\ \/ /\ flash' = [flash EXCEPT ![b][p] = Written(@)]
                      /\ UNCHANGED disturbed
                   \/ /\ flash' = [flash EXCEPT ![b][p] = "garbage"]
                      /\ Disturb(b)
           ELSE Answer(b, "false") /\ UNCHANGED <<flash, disturbed>>
      /\ UNCHANGED <<boardRest, config, saved>>

ExecuteUpdate(b) ==
  /\ Take(b, "update")
  /\ config' = [config EXCEPT ![b] = "new"]
  /\ Answer(b, "true")
  /\ UNCHANGED <<boardRest, flash, saved, disturbed>>

(* A save that fails answers false and has saved or not (ConfigStore). *)
ExecuteSave(b) ==
  /\ Take(b, "save")
  /\ \/ /\ saved' = [saved EXCEPT ![b] = config[b]]
        /\ Answer(b, "true")
        /\ UNCHANGED disturbed
     \/ /\ saved' \in {saved, [saved EXCEPT ![b] = config[b]]}
        /\ Answer(b, "false")
        /\ Disturb(b)
  /\ UNCHANGED <<boardRest, flash, config>>

ExecuteCrc(b) ==
  /\ Take(b, "crc")
  /\ Answer(b, IF \A p \in Page : flash[b][p] = "new" THEN "crc_new" ELSE "crc_other")
  /\ UNCHANGED <<boardRest, boardVars, disturbed>>

Execute(b) ==
  \/ ExecutePing(b) \/ ExecuteErase(b) \/ ExecuteWrite(b)
  \/ ExecuteUpdate(b) \/ ExecuteSave(b) \/ ExecuteCrc(b)

(* The board restarts, maybe in the middle of a command: it forgets what it
   received and what was not saved, and a page may be half written.         *)
Reset(b) ==
  /\ inbox' = [inbox EXCEPT ![b] = <<>>]
  /\ \/ UNCHANGED <<flash, saved>>
     \/ /\ inbox[b] # <<>> /\ Head(inbox[b]).op \in {"erase", "write"} /\ device_class[b] = "own"
        /\ flash' = [flash EXCEPT ![b][Head(inbox[b]).page] = "garbage"]
        /\ UNCHANGED saved
     \/ /\ inbox[b] # <<>> /\ Head(inbox[b]).op = "save"
        /\ saved' = [saved EXCEPT ![b] = config[b]]
        /\ UNCHANGED flash
  /\ config' = [config EXCEPT ![b] = saved'[b]]
  /\ Disturb(b)
  /\ check_lost' = (check_lost \/ step = CHECK)
  /\ UNCHANGED <<boardRest, rx, served>>

(* The answer of another board to a command of an earlier session, which is
   counted like any other; a false one would only end the session sooner.   *)
AnswerLate(n) ==
  /\ n \in owing /\ outcome = "none" /\ Len(rx) < RxCap
  /\ owing' = owing \ {n}
  /\ rx' = Append(rx, [src |-> n, content |-> "true"])
  /\ UNCHANGED <<clientVars, inbox, boardVars, frozenVars, served, disturbed, check_lost>>

-----------------------------------------------------------------------------
Client ==
  \/ Begin \/ ReadBroken \/ ReadPong \/ PingTimeout \/ ReadAnswer \/ Retry \/ GiveUp
  \/ Return \/ ReadCrc \/ Verdict

Next ==
  \/ Client
  \/ \E b \in Board : Execute(b) \/ Reset(b)
  \/ \E n \in Stranger : AnswerLate(n)

Spec == Init /\ [][Next]_vars

(* The client or the loop of a board goes on while one of them can; nothing is
   assumed of the bus, of resets or of late answers.                        *)
System == Client \/ \E b \in Board : Execute(b)
Fairness == WF_vars(System)

FairSpec == Spec /\ Fairness

-----------------------------------------------------------------------------
Message == [src : Board \cup Stranger, content : Content]

ClientTypeOK ==
  /\ step \in PING .. CHECK /\ started \in BOOLEAN
  /\ Answered \subseteq Board \cup Stranger /\ answers \in [Answered -> Content]
  /\ retry_count \in 0 .. retry_limit
  /\ online_boards \subseteq Board \cup Stranger
  /\ valid_nodes \subseteq Board \cup Stranger /\ boards_checked \in 0 .. Cardinality(Board)
  /\ outcome \in {"none", "offline", "aborted", "raised", "verification_failed", "ok"}

BusTypeOK ==
  /\ rx \in Seq(Message) /\ owing \subseteq Stranger
  /\ inbox \in [Board -> Seq(Command)] /\ \A b \in Board : Len(inbox[b]) <= InboxCap
  /\ served \subseteq Board /\ check_lost \in BOOLEAN

BoardTypeOK ==
  /\ flash \in [Board -> [Page -> Data]]
  /\ config \in [Board -> {"old", "new"}] /\ saved \in [Board -> {"old", "new"}]
  /\ punctual \in BOOLEAN /\ device_class \in [Board -> {"own", "other"}]
  /\ disturbed \subseteq Board

TypeOK == ClientTypeOK /\ BusTypeOK /\ BoardTypeOK

(* When the session prints OK every board holds the whole binary, whatever
   was lost, late, answered twice or taken for the answer of another command,
   and it still does afterwards: no erase or write is left on its way.      *)
OkMeansFlashed ==
  outcome = "ok" =>
    \A b \in Board : /\ \A p \in Page : flash[b][p] = "new"
                     /\ \A i \in 1 .. Len(inbox[b]) : inbox[b][i].op \notin {"erase", "write"}

(* With a timeout longer than any answer takes, the session goes on to the
   next command only when every board has executed this one: the answers
   counted are those of this command, in spite of losses and retries.       *)
ServedWhenPunctual ==
  [][(punctual /\ step' # step) => served = Board]_vars

(* ... and OK means that every board that did not fail and was not reset has
   saved the new CRC and size, although no answer to the save is looked at. *)
SavedWhenPunctual ==
  (punctual /\ outcome = "ok") => \A b \in Board \ disturbed : saved[b] = "new"

(* A command that waits at a board is one the client has sent; those of a board
   are in the order of the script, so the first says how far the board is.  *)
Number(command) == CHOOSE s \in 1 .. Len(Script) : Script[s] = command
Due == [b \in Board |-> IF inbox[b] = <<>> THEN step ELSE Number(Head(inbox[b]))]

(* Over a bus that loses, delays and repeats, with retries and restarts, the
   boards do what they would do if the commands of the script were called
   directly: in its order, never one the client did not come to, and in
   lockstep with the client when the timeout is long enough.                *)
Direct == INSTANCE DirectSession WITH due <- Due, done <- served, lockstep <- punctual
DirectSpec == Direct!Spec

(* The session ends, unless a datagram of the check was lost: only the check
   has no retry, and it waits forever.                                      *)
SessionEnds == <>(outcome # "none") \/ <>[](step = CHECK /\ check_lost)
=============================================================================
