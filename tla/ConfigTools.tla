----------------------------- MODULE ConfigTools -----------------------------
(***************************************************************************)
(* The small tools of the client, run one after the other on the boards of *)
(* a bus: change_id.py, write_config.py, read_config.py (with and without  *)
(* --all) and run_application.py.  Boards receive every datagram and look  *)
(* whether it is for them when they execute it, so that a changed ID takes *)
(* effect between a command and its retry.                                 *)
(***************************************************************************)
EXTENDS Naturals, Sequences, FiniteSets

CONSTANTS
  Board,
  ID,           (* the node IDs                                              *)
  List,         (* lists of IDs the tools are given                          *)
  Begin,        (* the IDs of the boards when the first tool is started, in
                   RAM and saved: an earlier tool may have given up          *)
  retry_limit,  (* the parameter of write_command_retry                      *)
  InboxCap,     (* bound: datagrams waiting at a board; further ones are lost *)
  MaxRuns,      (* bound: tools run in a behaviour                           *)
  MaxResets     (* bound: boards reset while a tool runs                     *)

ASSUME ToolsAssumption ==
  /\ IsFiniteSet(Board) /\ IsFiniteSet(ID) /\ ID \subseteq Nat \ {0} /\ List \subseteq Seq(ID)
  /\ Begin \subseteq [Board -> [ram : ID, flash : ID]]
  /\ retry_limit \in Nat /\ InboxCap \in Nat \ {0} /\ {MaxRuns, MaxResets} \subseteq Nat

NONE == 0       (* no ID among the keys *)

VARIABLES
  (* client *)
  tool,         (* the tool that runs, or ran last: its name, its list of IDs
                   and the ID it writes                                      *)
  step,         (* the command it is at                                      *)
  destinations, (* the list of that command                                  *)
  scan_queue,   (* of read_config --all                                      *)
  answers,      (* of write_command_retry: from source to answer             *)
  retry_count,
  outcome,      (* "none" while the tool runs                                *)
  runs,         (* the tools run; write_config writes this number            *)
  (* bus and boards *)
  rx,           (* answers on their way, or received and not yet read        *)
  inbox,        (* datagrams received and not yet executed                   *)
  config,       (* the configuration in RAM: ID and the other keys           *)
  saved,        (* ... and in flash                                          *)
  in_app,       (* boards that left the bootloader                           *)
  punctual,     (* the read timeout is longer than any answer takes          *)
  (* history, of the tool that runs *)
  lost,         (* datagrams lost, up to retry_limit + 1                     *)
  reset,        (* boards reset                                              *)
  worn,         (* boards that could not save                                *)
  unique        (* no two boards had the same ID at the beginning            *)

client == <<tool, step, destinations, scan_queue, answers, retry_count, outcome, runs>>
board  == <<config, saved, in_app>>
vars   == <<client, rx, inbox, board, punctual, lost, reset, worn, unique>>

Elements(s) == {s[i] : i \in 1 .. Len(s)}
NoAnswers == [i \in {} |-> NONE]

(* The IDs a board answers to, now or after a reset. *)
OwnIDs(b) == {config[b].ID, saved[b].ID}
Apart == \A b, c \in Board : b # c => OwnIDs(b) \cap OwnIDs(c) = {}

Config == [ID : ID, value : 0 .. MaxRuns]

Init ==
  /\ tool = [name |-> "none", ids |-> <<>>, new |-> NONE]
  /\ step = 1 /\ destinations = <<>> /\ scan_queue = <<>>
  /\ answers = NoAnswers /\ retry_count = 0 /\ outcome = "done" /\ runs = 0
  /\ rx = <<>> /\ inbox = [b \in Board |-> <<>>]
  /\ \E ids \in Begin :
       /\ config = [b \in Board |-> [ID |-> ids[b].ram, value |-> 0]]
       /\ saved  = [b \in Board |-> [ID |-> ids[b].flash, value |-> 0]]
  /\ in_app = {}
  /\ punctual \in BOOLEAN
  /\ lost = 0 /\ reset = {} /\ worn = {}
  /\ unique = Apart

-----------------------------------------------------------------------------
(* Client *)

Names == {"change_id", "write_config", "read_config", "read_config_all", "run_application"}

(* Mutant: the configuration is saved before it is updated. *)
ProgramSavesFirst(name) ==
  CASE name = "change_id"         -> <<"update", "save">>
    [] name = "write_config"      -> <<"save", "update">>
    [] name = "read_config"       -> <<"read">>
    [] name = "read_config_all"   -> <<"ping", "read">>
    [] name = "run_application"   -> <<"jump">>

(* The commands of main of the tools. *)
Program(name) ==
  CASE name \in {"change_id", "write_config"} -> <<"update", "save">>
    [] name = "read_config"                   -> <<"read">>
    [] name = "read_config_all"               -> <<"ping", "read">>
    [] name = "run_application"               -> <<"jump">>

(* list(range(1, 128)) *)
AllIDs == CHOOSE s \in [1 .. Cardinality(ID) -> ID] : Elements(s) = ID

(* Whom a command is for: the save of change_id goes to the new ID. *)
To(t, op) ==
  CASE op = "save" /\ t.name = "change_id"       -> <<t.new>>
    [] op = "read" /\ t.name = "read_config_all" -> scan_queue
    [] OTHER                                     -> t.ids

Running == outcome = "none"
Op == Program(tool.name)[step]
Calling == Running /\ Op \in {"update", "save", "read"}
Complete == Cardinality(DOMAIN answers) >= Len(destinations)

OneMore(n) == IF n <= retry_limit THEN n + 1 ELSE n

(* write_command: a datagram that each board receives or not. *)
write_command(t, op, to, before) ==
  \E got \in SUBSET {b \in Board \ in_app : Len(inbox[b]) < InboxCap} :
    /\ inbox' = [b \in Board |->
         IF b \in got THEN Append(inbox[b], [op |-> op, to |-> to, new |-> t.new]) ELSE inbox[b]]
    /\ lost' = IF \E b \in Board \ (got \cup in_app) : config[b].ID \in to THEN OneMore(before) ELSE before

(* A command, sent for the first time. *)
Command(t, s, before) ==
  LET op == Program(t.name)[s]
  IN  /\ step' = s
      /\ destinations' = To(t, op)
      /\ write_command(t, op, Elements(To(t, op)), before)
      /\ answers' = NoAnswers /\ retry_count' = 0

(* Mutant: the key "ID" is written like any other. *)
RefusedNever(t) == FALSE

(* write_config.py refuses the key "ID". *)
Refused(t) == t.name = "write_config" /\ t.new # NONE

(* The user gives no board an ID that another one has, in RAM or saved, and
   starts a tool when the boards have executed what the last one sent.     *)
Unused(i) == \A b \in Board : i \notin OwnIDs(b)

Tool ==
  {t \in [name : Names, ids : List \cup {AllIDs}, new : ID \cup {NONE}] :
    CASE t.name = "change_id"         -> Len(t.ids) = 1 /\ t.new # NONE /\ Unused(t.new)
      [] t.name = "write_config"      -> t.ids # <<>>
      [] t.name = "read_config"       -> t.new = NONE
      [] t.name = "read_config_all"   -> t.new = NONE /\ t.ids = AllIDs
      [] t.name = "run_application"   -> t.new = NONE}

Run(t) ==
  /\ ~Running /\ runs < MaxRuns
  /\ \A b \in Board : inbox[b] = <<>>
  /\ tool' = t
  /\ runs' = runs + 1
  /\ reset' = {} /\ worn' = {}
  /\ scan_queue' = <<>>
  /\ IF Refused(t)
       THEN /\ outcome' = "refused" /\ lost' = 0
            /\ UNCHANGED <<step, destinations, answers, retry_count, inbox>>
       ELSE outcome' = "none" /\ Command(t, 1, 0)
  /\ UNCHANGED <<rx, board, punctual, unique>>

(* The program ends: its socket is closed. *)
Exit(result) ==
  /\ outcome' = result
  /\ rx' = <<>>
  /\ UNCHANGED <<step, destinations, answers, retry_count, inbox, lost>>

untouched == <<tool, runs, board, punctual, reset, worn, unique>>

(* The read ends without a datagram. With a timeout that is too short, commands
   may still wait and answers still be on their way (those in rx).          *)
Timeout == punctual => rx = <<>> /\ \A b \in Board : inbox[b] = <<>>

GoOn == IF step = Len(Program(tool.name)) THEN Exit("done")
         ELSE Command(tool, step + 1, lost) /\ UNCHANGED <<rx, outcome>>

(* An answer that lacks its first frame, or that completes another one: what
   decode_datagram raises is caught by nothing.                             *)
ReadBroken ==
  /\ Running /\ rx # <<>>
  /\ Exit("decode error")
  /\ UNCHANGED <<untouched, scan_queue>>

(* read_config --all lists who answers the ping, in the order they do. *)
ScanAnswer ==
  /\ Running /\ Op = "ping"
  /\ rx # <<>> /\ rx' = Tail(rx)
  /\ scan_queue' = Append(scan_queue, Head(rx).src)
  /\ UNCHANGED <<untouched, step, destinations, answers, retry_count, outcome, inbox, lost>>

(* Mutant: the scan ends with the first answer. *)
ScanFirst ==
  /\ Running /\ Op = "ping"
  /\ scan_queue # <<>> \/ Timeout
  /\ GoOn
  /\ UNCHANGED <<untouched, scan_queue>>

ScanTimeout ==
  /\ Running /\ Op = "ping"
  /\ Timeout
  /\ GoOn
  /\ UNCHANGED <<untouched, scan_queue>>

(* Any datagram is the answer of its source. *)
ReadAnswer ==
  /\ Calling /\ ~Complete
  /\ rx # <<>> /\ rx' = Tail(rx)
  /\ answers' = [i \in DOMAIN answers \cup {Head(rx).src} |->
                   IF i = Head(rx).src THEN Head(rx).content ELSE answers[i]]
  /\ UNCHANGED <<untouched, scan_queue, step, destinations, retry_count, outcome, inbox, lost>>

CallTimeout == Calling /\ ~Complete /\ Timeout

retryRest == <<untouched, scan_queue, step, destinations, answers, outcome, rx>>
Unanswered == Elements(destinations) \ DOMAIN answers

(* Mutant: the retries are not counted. *)
RetryForever ==
  /\ CallTimeout
  /\ write_command(tool, Op, Unanswered, lost)
  /\ UNCHANGED <<retryRest, retry_count>>

Retry ==
  /\ CallTimeout
  /\ retry_count < retry_limit
  /\ write_command(tool, Op, Unanswered, lost)
  /\ retry_count' = retry_count + 1
  /\ UNCHANGED retryRest

(* Mutant: no timeout is forgiven. *)
GiveUpAtOnce ==
  /\ CallTimeout
  /\ Exit("IOError")
  /\ UNCHANGED <<untouched, scan_queue>>

GiveUp ==
  /\ CallTimeout
  /\ retry_count = retry_limit
  /\ Exit("IOError")
  /\ UNCHANGED <<untouched, scan_queue>>

(* write_command_retry returns, or the jump is sent: no tool looks at an
   answer, except to print it.                                              *)
Return ==
  /\ \/ Calling /\ Complete
     \/ Running /\ Op = "jump"
  /\ GoOn
  /\ UNCHANGED <<untouched, scan_queue>>

-----------------------------------------------------------------------------
(* Boards *)

boardRest == <<client, punctual, unique>>

(* The first datagram is for this board: config.ID is compared now. *)
Addressed(b) == inbox[b] # <<>> /\ config[b].ID \in Head(inbox[b]).to

Take(b, op) ==
  /\ Addressed(b) /\ Head(inbox[b]).op = op
  /\ inbox' = [inbox EXCEPT ![b] = Tail(@)]

Ignore(b) ==
  /\ inbox[b] # <<>> /\ ~Addressed(b)
  /\ inbox' = [inbox EXCEPT ![b] = Tail(@)]
  /\ UNCHANGED <<boardRest, rx, board, lost, reset, worn>>

(* return_datagram: the answer, from the ID the board has now, arrives or not. *)
Answer(b, content) ==
  \/ Running /\ rx' = Append(rx, [src |-> config'[b].ID, content |-> content]) /\ UNCHANGED lost
  \/ UNCHANGED rx /\ lost' = OneMore(lost)

Says(what, c) == [what |-> what, config |-> c]
Yes == Says("true", [ID |-> NONE, value |-> 0])
No  == Says("false", [ID |-> NONE, value |-> 0])

ExecutePing(b) ==
  /\ Take(b, "ping")
  /\ UNCHANGED <<boardRest, board, reset, worn>>
  /\ Answer(b, Yes)

ExecuteRead(b) ==
  /\ Take(b, "read")
  /\ UNCHANGED <<boardRest, board, reset, worn>>
  /\ Answer(b, Says("config", config[b]))

Updated(c, d) == IF d.new # NONE THEN [c EXCEPT !.ID = d.new] ELSE [c EXCEPT !.value = runs]

ExecuteUpdate(b) ==
  /\ Take(b, "update")
  /\ config' = [config EXCEPT ![b] = Updated(@, Head(inbox[b]))]
  /\ UNCHANGED <<boardRest, saved, in_app, reset, worn>>
  /\ Answer(b, Yes)

(* A save that fails answers false and has saved or not (ConfigStore). *)
ExecuteSave(b) ==
  /\ Take(b, "save")
  /\ UNCHANGED <<boardRest, config, in_app, reset>>
  /\ \/ /\ saved' = [saved EXCEPT ![b] = config[b]]
        /\ Answer(b, Yes)
        /\ UNCHANGED worn
     \/ /\ saved' \in {saved, [saved EXCEPT ![b] = config[b]]}
        /\ Answer(b, No)
        /\ worn' = worn \cup {b}

(* The application starts, or its CRC is wrong and the board restarts: what
   was not saved is gone.                                                   *)
ExecuteJump(b) ==
  /\ Addressed(b) /\ Head(inbox[b]).op = "jump"
  /\ inbox' = [inbox EXCEPT ![b] = <<>>]
  /\ in_app' \in {in_app, in_app \cup {b}}
  /\ config' = [config EXCEPT ![b] = saved[b]]
  /\ UNCHANGED <<boardRest, rx, saved, lost, reset, worn>>

Execute(b) ==
  \/ Ignore(b) \/ ExecutePing(b) \/ ExecuteRead(b) \/ ExecuteUpdate(b)
  \/ ExecuteSave(b) \/ ExecuteJump(b)

(* The board restarts, maybe in the middle of a save; it starts its application
   if no datagram reaches it in time (BootControl).                         *)
Reset(b) ==
  /\ Running /\ Cardinality(reset) < MaxResets
  /\ inbox' = [inbox EXCEPT ![b] = <<>>]
  /\ \/ UNCHANGED saved
     \/ /\ Addressed(b) /\ Head(inbox[b]).op = "save"
        /\ saved' = [saved EXCEPT ![b] = config[b]]
  /\ config' = [config EXCEPT ![b] = saved'[b]]
  /\ in_app' \in {in_app \ {b}, in_app \cup {b}}
  /\ reset' = reset \cup {b}
  /\ UNCHANGED <<boardRest, rx, lost, worn>>

-----------------------------------------------------------------------------
Client ==
  \/ ReadBroken \/ ScanAnswer \/ ScanTimeout \/ ReadAnswer \/ Retry \/ GiveUp \/ Return

Next ==
  \/ \E t \in Tool : Run(t)
  \/ Client
  \/ \E b \in Board : Execute(b) \/ Reset(b)

Spec == Init /\ [][Next]_vars

(* The tool that runs or the loop of a board goes on while one of them can;
   nothing is assumed of the user, of the bus and of resets.                *)
System == Client \/ \E b \in Board : Execute(b)
Fairness == WF_vars(System)
FairSpec == Spec /\ Fairness

-----------------------------------------------------------------------------
TypeOK ==
  /\ tool.name \in Names \cup {"none"} /\ tool.new \in ID \cup {NONE}
  /\ step \in 1 .. 2 /\ runs \in 0 .. MaxRuns
  /\ Elements(destinations) \subseteq ID /\ Elements(scan_queue) \subseteq ID
  /\ DOMAIN answers \subseteq ID /\ retry_count \in 0 .. retry_limit
  /\ outcome \in {"none", "done", "refused", "IOError", "decode error"}
  /\ \A b \in Board : Len(inbox[b]) <= InboxCap
  /\ config \in [Board -> Config] /\ saved \in [Board -> Config]
  /\ in_app \subseteq Board /\ punctual \in BOOLEAN /\ unique \in BOOLEAN
  /\ lost \in 0 .. retry_limit + 1 /\ reset \subseteq Board /\ worn \subseteq Board

Ended(names) == outcome = "done" /\ tool.name \in names

(* Whatever is lost, late, reset or given up half way, in change_id above all
   (change_id.py:18), no two boards get the same ID, neither now nor when one
   of them falls back on the configuration it saved.                        *)
UniqueIDs == unique => Apart

(* When change_id returns, a board has saved the new ID, or told that it could
   not, which nobody looks at.  However late the answers, that to the update
   is not taken for that to the save: its board hears no retry.  It does after
   a reset, while its answer is on its way: a second answer to the update then
   passes for that to the save, and the new ID may be lost.                 *)
ChangeSaved ==
  Ended({"change_id"}) /\ unique =>
    worn # {} \/ (~punctual /\ reset # {}) \/ \E b \in Board : saved[b].ID = tool.new

(* When write_config returns, the boards on its list have saved what it wrote,
   but for those that were reset or told that they could not.               *)
WriteSaved ==
  Ended({"write_config"}) /\ unique /\ punctual =>
    \A b \in Board \ (reset \cup worn) : saved[b].ID \in Elements(tool.ids) => saved[b].value = runs

(* A tool that returns has made boards save what it was asked to write
   (the two calls of write_command_retry in change_id.py, and
   config_update_and_save in write_config.py, none of which looks at answers). *)
ReturnMeansSaved == ChangeSaved /\ WriteSaved

(* Retries make up for as many losses as there are of them: write_config and
   read_config give up only when more is lost, when a board on their list is not
   there, or when the list names a board twice (as many answers as there are
   entries never come: utils.py:204).  Of change_id this is not true: the board
   that answered the update does not hear a retry (change_id.py:18).        *)
Present == \A i \in Elements(tool.ids) : \E b \in Board \ in_app : config[b].ID = i
Distinct == Cardinality(Elements(tool.ids)) = Len(tool.ids)
RetriesSuffice ==
  outcome = "IOError" /\ tool.name \in {"write_config", "read_config"} /\ Distinct
    /\ punctual /\ reset = {} /\ Present => lost > retry_limit

(* What is printed for an ID is the configuration of a board with that ID. *)
PrintsOwn ==
  Ended({"read_config", "read_config_all"}) /\ punctual /\ reset = {} =>
    \A i \in DOMAIN answers : \E b \in Board : answers[i] = Says("config", config[b]) /\ config[b].ID = i

(* A scan that loses nothing prints every board of the bus, and never prints
   two boards with the same ID as if they were one.                         *)
ScanIsComplete ==
  Ended({"read_config_all"}) /\ punctual /\ reset = {} /\ lost = 0 =>
    /\ DOMAIN answers = {config[b].ID : b \in Board \ in_app}
    /\ \A b, c \in Board \ in_app : config[b].ID = config[c].ID => b = c

(* read_config prints the configurations the boards have, and its scan, when
   nothing is lost, those of all of them (read_config.py:41).               *)
PrintsTheBus == PrintsOwn /\ ScanIsComplete

(* Every tool ends. *)
ToolEnds == []<>~Running
=============================================================================
