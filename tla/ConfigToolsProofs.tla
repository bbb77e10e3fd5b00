-------------------------- MODULE ConfigToolsProofs --------------------------
(***************************************************************************)
(* For every set of boards and IDs, every number of tools, retries, losses *)
(* and resets: boards that start with different IDs keep different IDs, a  *)
(* tool that returns has made boards save what it was asked to write,      *)
(* retries make up for losses, and what is read is what the boards have.   *)
(***************************************************************************)
EXTENDS ConfigTools, TLAPS, FiniteSetTheorems, SequenceTheorems

Ops == {"ping", "update", "save", "read", "jump"}
Tools == [name : Names \cup {"none"}, ids : Seq(ID), new : ID \cup {NONE}]
Contents == [what : {"true", "false", "config"}, config : [ID : ID \cup {NONE}, value : 0 .. MaxRuns]]
Replies == [src : ID, content : Contents]

(* Only change_id sends a new ID, and only to the board with the old one. *)
Proper(t, d) ==
  d.op = "update" /\ d.new # NONE =>
    t.name = "change_id" /\ d.new = t.new /\ d.to \subseteq {t.ids[1]}
Requests(t) == {d \in [op : Ops, to : SUBSET ID, new : ID \cup {NONE}] : Proper(t, d)}

Request(t, op, to) == [op |-> op, to |-> to, new |-> t.new]

ClientInv ==
  /\ tool \in Tools /\ step \in 1 .. 2 /\ runs \in 0 .. MaxRuns
  /\ destinations \in Seq(ID) /\ scan_queue \in Seq(ID)
  /\ DOMAIN answers \subseteq ID /\ retry_count \in 0 .. retry_limit
  /\ outcome \in {"none", "done", "refused", "IOError", "decode error"}
  /\ tool.name = "change_id" => Len(tool.ids) = 1 /\ tool.new # NONE
  /\ Running => tool.name \in Names /\ step <= Len(Program(tool.name))
  /\ Running /\ Op = "update" =>
       Proper(tool, Request(tool, Op, Elements(destinations)))

BusInv ==
  /\ rx \in Seq(Replies)
  /\ inbox \in [Board -> Seq(Requests(tool))]
  /\ \A b \in Board : Len(inbox[b]) <= InboxCap
  /\ lost \in 0 .. retry_limit + 1

BoardInv ==
  /\ config \in [Board -> Config] /\ saved \in [Board -> Config]
  /\ in_app \subseteq Board /\ punctual \in BOOLEAN /\ unique \in BOOLEAN
  /\ reset \subseteq Board /\ worn \subseteq Board

(* While an ID is changed, one board at most has the old one or the new one. *)
Holds(b) == tool.ids[1] \in OwnIDs(b) \/ tool.new \in OwnIDs(b)
OneHolder == \A b, c \in Board : b # c => ~Holds(b) \/ ~Holds(c)
IDsInv == unique => Apart /\ (tool.name = "change_id" => OneHolder)

ToolsInv == ClientInv /\ BusInv /\ BoardInv /\ IDsInv

-----------------------------------------------------------------------------
(* Programs and lists *)

LEMMA Constants ==
  /\ IsFiniteSet(ID) /\ ID \subseteq Nat \ {0} /\ List \subseteq Seq(ID)
  /\ Begin \subseteq [Board -> [ram : ID, flash : ID]]
  /\ retry_limit \in Nat /\ InboxCap \in Nat /\ InboxCap > 0 /\ MaxRuns \in Nat /\ MaxResets \in Nat
  /\ NONE \notin ID
BY ToolsAssumption DEF NONE

(* An update of another kind than a change of ID is the first command of
   write_config.                                                            *)
LEMMA ProgramSteps ==
  ASSUME NEW name \in Names
  PROVE  LET p == Program(name)
         IN  /\ Len(p) \in 1 .. 2
             /\ \A i \in 1 .. Len(p) : p[i] \in Ops
             /\ p[1] = "update" => name \in {"change_id", "write_config"}
             /\ Len(p) = 2 => p[2] # "update"
<1>1. CASE name \in {"change_id", "write_config"}
  <2>1. Program(name) = <<"update", "save">>
    BY <1>1 DEF Program
  <2>. QED
    BY <1>1, <2>1 DEF Ops
<1>2. CASE name = "read_config"
  <2>1. Program(name) = <<"read">>
    BY <1>2 DEF Program
  <2>. QED
    BY <2>1 DEF Ops
<1>3. CASE name = "read_config_all"
  <2>1. Program(name) = <<"ping", "read">>
    BY <1>3 DEF Program
  <2>. QED
    BY <2>1 DEF Ops
<1>4. CASE name = "run_application"
  <2>1. Program(name) = <<"jump">>
    BY <1>4 DEF Program
  <2>. QED
    BY <2>1 DEF Ops
<1>. QED
  BY <1>1, <1>2, <1>3, <1>4 DEF Names

LEMMA ElementsType == \A s \in Seq(ID) : Elements(s) \in SUBSET ID
BY DEF Elements

(* list(range(1, 128)) is a list of the IDs. *)
LEMMA AllIDsType == AllIDs \in Seq(ID)
<1>. DEFINE n == Cardinality(ID)
<1>1. n \in Nat /\ Bijection(1 .. n, ID) # {}
  BY Constants, FS_CardinalityType DEF ExistsBijection
<1>2. PICK f \in Bijection(1 .. n, ID) : TRUE
  BY <1>1
<1>3. f \in [1 .. n -> ID] /\ \A i \in ID : \E k \in 1 .. n : f[k] = i
  BY <1>2 DEF Bijection, Injection, Surjection
<1>4. Len(f) = n /\ Elements(f) = ID
  BY <1>1, <1>3 DEF Elements
<1>5. AllIDs \in [1 .. n -> ID]
  BY <1>3, <1>4 DEF AllIDs
<1>. QED
  BY <1>1, <1>5

LEMMA ToType ==
  ASSUME ClientInv, NEW t \in Tools, NEW op,
         op = "save" /\ t.name = "change_id" => t.new # NONE
  PROVE  To(t, op) \in Seq(ID)
<1>1. CASE op = "save" /\ t.name = "change_id"
  BY <1>1 DEF To, Tools
<1>2. CASE ~(op = "save" /\ t.name = "change_id")
  BY <1>2 DEF To, Tools, ClientInv
<1>. QED
  BY <1>1, <1>2

-----------------------------------------------------------------------------
LEMMA InitInv == Init => ToolsInv
<1>. SUFFICES ASSUME Init PROVE ToolsInv
  OBVIOUS
<1>1. ClientInv
  <2>1. tool \in Tools /\ tool.name = "none"
    BY Constants, EmptySeq DEF Init, Tools
  <2>2. DOMAIN answers \subseteq ID
    BY DEF Init, NoAnswers
  <2>. QED
    BY <2>1, <2>2, Constants, EmptySeq DEF Init, ClientInv, Running
<1>2. BusInv
  BY Constants, EmptySeq DEF Init, BusInv
<1>3. BoardInv
  <2>1. PICK ids \in [Board -> [ram : ID, flash : ID]] :
             /\ config = [b \in Board |-> [ID |-> ids[b].ram, value |-> 0]]
             /\ saved  = [b \in Board |-> [ID |-> ids[b].flash, value |-> 0]]
    BY Constants DEF Init
  <2>2. config \in [Board -> Config] /\ saved \in [Board -> Config]
    BY <2>1, Constants DEF Config
  <2>3. unique \in BOOLEAN
    BY DEF Init, Apart
  <2>. QED
    BY <2>2, <2>3 DEF Init, BoardInv
<1>4. IDsInv
  BY DEF Init, IDsInv
<1>. QED
  BY <1>1, <1>2, <1>3, <1>4 DEF ToolsInv

-----------------------------------------------------------------------------
(* Steps of the client *)

(* A datagram is put in inboxes with room, or lost. *)
LEMMA WriteCommand ==
  ASSUME NEW S, inbox \in [Board -> Seq(S)], \A b \in Board : Len(inbox[b]) <= InboxCap,
         NEW t, NEW op, NEW to, NEW before \in 0 .. retry_limit + 1,
         Request(t, op, to) \in S,
         write_command(t, op, to, before)
  PROVE  /\ inbox' \in [Board -> Seq(S)]
         /\ \A b \in Board : Len(inbox'[b]) <= InboxCap
         /\ lost' \in 0 .. retry_limit + 1
<1>. DEFINE d == Request(t, op, to)
<1>1. PICK got \in SUBSET {b \in Board \ in_app : Len(inbox[b]) < InboxCap} :
           /\ inbox' = [b \in Board |-> IF b \in got THEN Append(inbox[b], d) ELSE inbox[b]]
           /\ lost' = IF \E b \in Board \ (got \cup in_app) : config[b].ID \in to
                         THEN OneMore(before) ELSE before
  BY Zenon DEF write_command, Request
<1>. HIDE DEF d
<1>2. d \in S
  BY DEF d
<1>3. \A b \in Board : Len(inbox[b]) \in Nat
  BY LenProperties
<1>4. \A b \in got : b \in Board /\ Append(inbox[b], d) \in Seq(S) /\ Len(Append(inbox[b], d)) <= InboxCap
  <2>. TAKE b \in got
  <2>1. b \in Board /\ Len(inbox[b]) < InboxCap /\ inbox[b] \in Seq(S)
    BY <1>1
  <2>2. Append(inbox[b], d) \in Seq(S) /\ Len(Append(inbox[b], d)) = Len(inbox[b]) + 1
    BY <1>2, <2>1, AppendProperties
  <2>. QED
    BY <1>3, <2>1, <2>2, Constants
<1>5. OneMore(before) \in 0 .. retry_limit + 1
  BY Constants DEF OneMore
<1>6. lost' \in 0 .. retry_limit + 1
  BY <1>1, <1>5, Zenon
<1>7. \A b \in Board : inbox'[b] \in Seq(S) /\ Len(inbox'[b]) <= InboxCap
  BY <1>1, <1>4
<1>. QED
  BY <1>1, <1>4, <1>6, <1>7

LEMMA CommandStep ==
  ASSUME ClientInv, \A b \in Board : Len(inbox[b]) <= InboxCap,
         NEW t \in Tools, t.name \in Names, inbox \in [Board -> Seq(Requests(t))],
         t.name = "change_id" => t.new # NONE,
         NEW s \in 1 .. Len(Program(t.name)),
         Proper(t, Request(t, Program(t.name)[s], Elements(t.ids))),
         NEW before \in 0 .. retry_limit + 1,
         Command(t, s, before)
  PROVE  /\ step' = s /\ destinations' \in Seq(ID) /\ DOMAIN answers' \subseteq ID /\ retry_count' = 0
         /\ Program(t.name)[s] = "update" => destinations' = t.ids
         /\ inbox' \in [Board -> Seq(Requests(t))]
         /\ \A b \in Board : Len(inbox'[b]) <= InboxCap
         /\ lost' \in 0 .. retry_limit + 1
<1>. DEFINE op == Program(t.name)[s]
            to == Elements(To(t, op))
<1>1. op \in Ops
  BY ProgramSteps
<1>2. To(t, op) \in Seq(ID) /\ to \in SUBSET ID
  BY ToType, ElementsType
<1>3. op = "update" => To(t, op) = t.ids
  BY DEF To
<1>4. step' = s /\ destinations' = To(t, op) /\ answers' = NoAnswers /\ retry_count' = 0
      /\ write_command(t, op, to, before)
  BY Zenon DEF Command
<1>. HIDE DEF op
<1>5. Request(t, op, to) \in Requests(t)
  <2>1. Request(t, op, to) \in [op : Ops, to : SUBSET ID, new : ID \cup {NONE}]
    BY <1>1, <1>2 DEF Request, Tools
  <2>2. Proper(t, Request(t, op, to))
    <3>1. CASE op = "update"
      BY <1>3, <3>1, Zenon DEF op
    <3>2. CASE op # "update"
      BY <3>2 DEF Proper, Request
    <3>. QED
      BY <3>1, <3>2
  <2>. QED
    BY <2>1, <2>2 DEF Requests
<1>6. DOMAIN answers' \subseteq ID
  BY <1>4 DEF NoAnswers
<1>. HIDE DEF to
<1>. QED
  BY <1>2, <1>3, <1>4, <1>5, <1>6, WriteCommand DEF op

(* IDs stay apart while no board changes. *)
LEMMA SameIDs == IDsInv /\ UNCHANGED <<tool, config, saved, unique>> => IDsInv'
BY DEF IDsInv, Apart, OneHolder, Holds, OwnIDs

LEMMA SameBoards == BoardInv /\ UNCHANGED <<board, punctual, reset, worn, unique>> => BoardInv'
BY DEF BoardInv, board

(* The user starts a tool: nobody has the ID it gives. *)
LEMMA RunStep ==
  ASSUME ToolsInv, NEW t \in Tool, Run(t)
  PROVE  ToolsInv'
<1>. USE DEF ToolsInv
<1>1. /\ t \in Tools /\ t.name \in Names
      /\ t.name = "change_id" => Len(t.ids) = 1 /\ t.new # NONE /\ Unused(t.new)
  <2>1. t \in [name : Names, ids : List \cup {AllIDs}, new : ID \cup {NONE}]
    BY DEF Tool
  <2>2. t.ids \in Seq(ID)
    BY <2>1, AllIDsType, Constants
  <2>3. t.name = "change_id" => Len(t.ids) = 1 /\ t.new # NONE /\ Unused(t.new)
    BY DEF Tool
  <2>. QED
    BY <2>1, <2>2, <2>3 DEF Tools
<1>2. tool' = t /\ runs' = runs + 1 /\ runs < MaxRuns /\ ~Running /\ scan_queue' = <<>>
      /\ rx' = rx /\ \A b \in Board : inbox[b] = <<>>
  BY DEF Run
<1>3. inbox \in [Board -> Seq(Requests(t))] /\ \A b \in Board : Len(inbox[b]) <= InboxCap
  BY <1>2, EmptySeq DEF BusInv
<1>4. BoardInv'
  BY DEF Run, BoardInv, board
<1>5. IDsInv'
  <2>1. unique' = unique /\ config' = config /\ saved' = saved
    BY DEF Run, board
  <2>2. ASSUME unique, t.name = "change_id" PROVE OneHolder'
    <3>1. \A b \in Board : Holds(b)' <=> t.ids[1] \in OwnIDs(b)
      BY <1>1, <1>2, <2>1, <2>2 DEF Holds, Unused, OwnIDs
    <3>2. \A b, c \in Board : b # c => OwnIDs(b) \cap OwnIDs(c) = {}
      BY <2>2 DEF IDsInv, Apart
    <3>. QED
      BY <3>1, <3>2 DEF OneHolder
  <2>. QED
    BY <1>2, <2>1, <2>2 DEF IDsInv, Apart, OwnIDs
<1>6. runs' \in 0 .. MaxRuns
  <2>1. runs \in 0 .. MaxRuns /\ MaxRuns \in Nat
    BY Constants, Zenon DEF ClientInv
  <2>2. runs' = runs + 1 /\ runs < MaxRuns
    BY <1>2, Zenon
  <2>. QED
    BY <2>1, <2>2
<1>7. CASE Refused(t)
  <2>1. outcome' = "refused" /\ lost' = 0 /\ UNCHANGED <<step, destinations, answers, retry_count, inbox>>
    BY <1>7 DEF Run
  <2>2. ClientInv'
    BY <1>1, <1>2, <1>6, <2>1, EmptySeq DEF ClientInv, Running
  <2>3. BusInv'
    BY <1>2, <1>3, <2>1, Constants DEF BusInv
  <2>. QED
    BY <1>4, <1>5, <2>2, <2>3
<1>8. CASE ~Refused(t)
  <2>1. outcome' = "none" /\ Command(t, 1, 0)
    BY <1>8 DEF Run
  <2>2. ASSUME NEW op \in Ops, op = Program(t.name)[1]
        PROVE  Proper(t, Request(t, op, Elements(t.ids)))
    <3>. SUFFICES ASSUME op = "update", t.new # NONE
                  PROVE  t.name = "change_id" /\ Elements(t.ids) \subseteq {t.ids[1]}
      BY DEF Proper, Request
    <3>1. t.name = "change_id"
      BY <1>1, <1>8, <2>2, ProgramSteps DEF Refused
    <3>2. Len(t.ids) = 1
      BY <1>1, <3>1
    <3>. QED
      BY <3>1, <3>2 DEF Elements
  <2>3. 1 \in 1 .. Len(Program(t.name)) /\ Program(t.name)[1] \in Ops
    BY <1>1, ProgramSteps
  <2>4. 0 \in 0 .. retry_limit + 1
    BY Constants
  <2>5. /\ step' = 1 /\ destinations' \in Seq(ID) /\ DOMAIN answers' \subseteq ID /\ retry_count' = 0
        /\ Program(t.name)[1] = "update" => destinations' = t.ids
        /\ inbox' \in [Board -> Seq(Requests(t))]
        /\ \A b \in Board : Len(inbox'[b]) <= InboxCap
        /\ lost' \in 0 .. retry_limit + 1
    BY <1>1, <1>3, <2>1, <2>2, <2>3, <2>4, CommandStep, Zenon
  <2>6. Op' = Program(t.name)[1]
    BY <1>2, <2>5, Zenon DEF Op
  <2>7. Op' = "update" => Proper(t, Request(t, Op', Elements(destinations')))
    BY <2>2, <2>3, <2>5, <2>6, Zenon
  <2>8. ClientInv'
    <3>1. Running' => tool'.name \in Names /\ step' <= Len(Program(tool'.name))
      BY <1>1, <1>2, <2>3, <2>5, ProgramSteps
    <3>2. scan_queue' \in Seq(ID) /\ retry_count' \in 0 .. retry_limit /\ step' \in 1 .. 2
      BY <1>2, <2>5, EmptySeq, Constants
    <3>3. (Running /\ Op = "update" => Proper(tool, Request(tool, Op, Elements(destinations))))'
      BY <1>2, <2>7 DEF Elements, Request, Proper
    <3>. QED
      BY <1>1, <1>2, <1>6, <2>1, <2>5, <3>1, <3>2, <3>3 DEF ClientInv
  <2>9. BusInv'
    BY <1>2, <2>5 DEF BusInv
  <2>. QED
    BY <1>4, <1>5, <2>8, <2>9
<1>. QED
  BY <1>7, <1>8

(* A tool that ends forgets what it received. *)
LEMMA ExitStep ==
  ASSUME ClientInv, BusInv, NEW result \in {"done", "IOError", "decode error"}, Exit(result),
         UNCHANGED <<tool, runs, scan_queue>>
  PROVE  ClientInv' /\ BusInv'
<1>1. outcome' = result /\ ~Running' /\ rx' = <<>>
      /\ UNCHANGED <<step, destinations, answers, retry_count, inbox, lost>>
  BY DEF Exit, Running
<1>2. BusInv'
  BY <1>1, EmptySeq DEF BusInv
<1>3. ClientInv'
  BY <1>1 DEF ClientInv
<1>. QED
  BY <1>2, <1>3

(* The second command of a tool is no update. *)
LEMMA GoOnStep ==
  ASSUME ClientInv, BusInv, Running, GoOn, UNCHANGED <<tool, runs, scan_queue>>
  PROVE  ClientInv' /\ BusInv'
<1>. DEFINE P == Program(tool.name)
<1>1. tool \in Tools /\ tool.name \in Names /\ step \in 1 .. 2 /\ step <= Len(P)
      /\ (tool.name = "change_id" => tool.new # NONE)
  BY Zenon DEF ClientInv
<1>2. CASE step = Len(P)
  <2>1. Exit("done")
    BY <1>2 DEF GoOn
  <2>. QED
    BY <2>1, ExitStep
<1>3. CASE step # Len(P)
  <2>1. Len(P) = 2 /\ step = 1 /\ P[2] # "update"
    BY <1>1, <1>3, ProgramSteps
  <2>2. Command(tool, 2, lost) /\ rx' = rx /\ outcome' = outcome
    BY <1>3, <2>1 DEF GoOn
  <2>3. \A to : Proper(tool, Request(tool, P[2], to))
    BY <2>1, Zenon DEF Proper, Request
  <2>4. 2 \in 1 .. Len(P)
    BY <2>1
  <2>5. lost \in 0 .. retry_limit + 1 /\ inbox \in [Board -> Seq(Requests(tool))]
        /\ \A b \in Board : Len(inbox[b]) <= InboxCap
    BY Zenon DEF BusInv
  <2>6. /\ step' = 2 /\ destinations' \in Seq(ID) /\ DOMAIN answers' \subseteq ID /\ retry_count' = 0
        /\ inbox' \in [Board -> Seq(Requests(tool))]
        /\ \A b \in Board : Len(inbox'[b]) <= InboxCap
        /\ lost' \in 0 .. retry_limit + 1
    BY <1>1, <2>2, <2>3, <2>4, <2>5, CommandStep, Zenon
  <2>7. (Op # "update")'
    BY <2>1, <2>6 DEF Op
  <2>8. BusInv'
    BY <2>2, <2>6 DEF BusInv
  <2>9. ClientInv'
    <3>1. step' \in 1 .. 2 /\ retry_count' \in 0 .. retry_limit /\ step' <= Len(P)
      BY <2>1, <2>6, Constants
    <3>. QED
      BY <1>1, <2>2, <2>6, <2>7, <3>1, Zenon DEF ClientInv
  <2>. QED
    BY <2>8, <2>9
<1>. QED
  BY <1>2, <1>3

(* What is read is the answer of a source. *)
LEMMA ReadStep ==
  ASSUME ClientInv, BusInv, ReadAnswer \/ ScanAnswer
  PROVE  ClientInv' /\ BusInv'
<1>1. rx # <<>> /\ rx' = Tail(rx)
      /\ UNCHANGED <<tool, runs, step, destinations, retry_count, outcome, inbox, lost>>
  BY DEF ReadAnswer, ScanAnswer, untouched
<1>2. Head(rx).src \in ID /\ Tail(rx) \in Seq(Replies)
  <2>1. Head(rx) \in Replies /\ Tail(rx) \in Seq(Replies)
    BY <1>1, HeadTailProperties DEF BusInv
  <2>. QED
    BY <2>1 DEF Replies
<1>3. BusInv'
  BY <1>1, <1>2 DEF BusInv
<1>4. scan_queue' \in Seq(ID) /\ DOMAIN answers' \subseteq ID
  <2>1. scan_queue \in Seq(ID) /\ DOMAIN answers \subseteq ID
    BY Zenon DEF ClientInv
  <2>2. CASE ReadAnswer
    <3>1. scan_queue' = scan_queue /\ DOMAIN answers' = DOMAIN answers \cup {Head(rx).src}
      BY <2>2 DEF ReadAnswer
    <3>. QED
      BY <1>2, <2>1, <3>1
  <2>3. CASE ScanAnswer
    <3>1. scan_queue' = Append(scan_queue, Head(rx).src) /\ answers' = answers
      BY <2>3 DEF ScanAnswer
    <3>. QED
      BY <1>2, <2>1, <3>1, AppendProperties
  <2>. QED
    BY <2>2, <2>3
<1>5. Running' = Running /\ Op' = Op
  BY <1>1 DEF Running, Op
<1>6. ClientInv'
  BY <1>1, <1>4, <1>5 DEF ClientInv
<1>. QED
  BY <1>3, <1>6

(* A retry repeats the command, for some of its destinations. *)
LEMMA RetryStep ==
  ASSUME ClientInv, BusInv, Retry
  PROVE  ClientInv' /\ BusInv'
<1>1. Calling /\ Running /\ retry_count < retry_limit /\ retry_count' = retry_count + 1
      /\ UNCHANGED <<tool, runs, scan_queue, step, destinations, answers, outcome, rx>>
      /\ write_command(tool, Op, Unanswered, lost)
  BY DEF Retry, CallTimeout, Calling, retryRest, untouched
<1>2. Op \in Ops
  BY <1>1 DEF Calling, Ops
<1>3. destinations \in Seq(ID) /\ tool \in Tools /\ lost \in 0 .. retry_limit + 1
      /\ inbox \in [Board -> Seq(Requests(tool))] /\ (\A b \in Board : Len(inbox[b]) <= InboxCap)
  BY Zenon DEF ClientInv, BusInv
<1>4. Unanswered \in SUBSET ID /\ Unanswered \subseteq Elements(destinations)
  BY <1>3, ElementsType DEF Unanswered
<1>5. Op = "update" => Proper(tool, Request(tool, Op, Elements(destinations)))
  BY <1>1, Zenon DEF ClientInv
<1>6. Request(tool, Op, Unanswered) \in Requests(tool)
  <2>1. Request(tool, Op, Unanswered) \in [op : Ops, to : SUBSET ID, new : ID \cup {NONE}]
    BY <1>2, <1>3, <1>4 DEF Request, Tools
  <2>2. Proper(tool, Request(tool, Op, Unanswered))
    BY <1>4, <1>5 DEF Proper, Request
  <2>. QED
    BY <2>1, <2>2 DEF Requests
<1>7. /\ inbox' \in [Board -> Seq(Requests(tool))]
      /\ \A b \in Board : Len(inbox'[b]) <= InboxCap
      /\ lost' \in 0 .. retry_limit + 1
  BY <1>1, <1>3, <1>6, WriteCommand, Zenon
<1>8. BusInv'
  BY <1>1, <1>7 DEF BusInv
<1>9. retry_count' \in 0 .. retry_limit
  <2>1. retry_count \in 0 .. retry_limit
    BY Zenon DEF ClientInv
  <2>. QED
    BY <1>1, <2>1, Constants
<1>10. Running' = Running /\ Op' = Op
  BY <1>1 DEF Running, Op
<1>11. ClientInv'
  BY <1>1, <1>9, <1>10 DEF ClientInv
<1>. QED
  BY <1>8, <1>11

LEMMA ClientStep ==
  ASSUME ToolsInv, Client
  PROVE  ToolsInv'
<1>. USE DEF ToolsInv
<1>1. UNCHANGED untouched
  BY DEF Client, ReadBroken, ScanAnswer, ScanTimeout, ReadAnswer, Retry, retryRest, GiveUp, Return
<1>2. BoardInv' /\ IDsInv'
  <2>1. UNCHANGED <<board, punctual, reset, worn, unique, tool, config, saved>>
    BY <1>1 DEF untouched, board
  <2>. QED
    BY <2>1, SameIDs, SameBoards
<1>3. CASE ReadBroken \/ GiveUp
  BY <1>1, <1>2, <1>3, ExitStep DEF ReadBroken, GiveUp, untouched
<1>4. CASE ScanTimeout \/ Return
  <2>1. Running /\ GoOn /\ UNCHANGED <<tool, runs, scan_queue>>
    BY <1>4 DEF ScanTimeout, Return, Calling, untouched
  <2>. QED
    BY <1>2, <2>1, GoOnStep
<1>5. CASE ScanAnswer \/ ReadAnswer
  BY <1>2, <1>5, ReadStep
<1>6. CASE Retry
  BY <1>2, <1>6, RetryStep
<1>. QED
  BY <1>2, <1>3, <1>4, <1>5, <1>6 DEF Client

-----------------------------------------------------------------------------
(* Steps of the boards *)

LEMMA SameClient == ClientInv /\ UNCHANGED client => ClientInv'
BY DEF ClientInv, client, Running, Op

(* The only ID a board gets is the new one, and only for the old one. *)
OwnChange(c) ==
  \/ OwnIDs(c)' \subseteq OwnIDs(c)
  \/ /\ tool.name = "change_id" /\ tool.ids[1] \in OwnIDs(c)
     /\ OwnIDs(c)' \subseteq OwnIDs(c) \cup {tool.new}

LEMMA IDsStep ==
  ASSUME IDsInv, tool' = tool, unique' = unique, \A c \in Board : OwnChange(c)
  PROVE  IDsInv'
<1>. SUFFICES ASSUME unique PROVE Apart' /\ (tool.name = "change_id" => OneHolder')
  BY DEF IDsInv
<1>1. \A b, c \in Board : b # c => OwnIDs(b) \cap OwnIDs(c) = {}
  BY DEF IDsInv, Apart
<1>2. tool.name = "change_id" => \A b, c \in Board : b # c => ~Holds(b) \/ ~Holds(c)
  BY DEF IDsInv, OneHolder
<1>3. ASSUME NEW b \in Board, NEW c \in Board, b # c
      PROVE  OwnIDs(b)' \cap OwnIDs(c)' = {}
  <2>1. CASE OwnIDs(b)' \subseteq OwnIDs(b) /\ OwnIDs(c)' \subseteq OwnIDs(c)
    BY <1>1, <1>3, <2>1
  <2>2. CASE tool.name = "change_id" /\ tool.ids[1] \in OwnIDs(b) /\ OwnIDs(b)' \subseteq OwnIDs(b) \cup {tool.new}
    <3>1. tool.ids[1] \notin OwnIDs(c) /\ tool.new \notin OwnIDs(c)
      BY <1>2, <1>3, <2>2 DEF Holds
    <3>2. OwnIDs(c)' \subseteq OwnIDs(c)
      BY <3>1 DEF OwnChange
    <3>. QED
      BY <1>1, <1>3, <2>2, <3>1, <3>2
  <2>3. CASE tool.name = "change_id" /\ tool.ids[1] \in OwnIDs(c) /\ OwnIDs(c)' \subseteq OwnIDs(c) \cup {tool.new}
    <3>1. tool.ids[1] \notin OwnIDs(b) /\ tool.new \notin OwnIDs(b)
      BY <1>2, <1>3, <2>3 DEF Holds
    <3>2. OwnIDs(b)' \subseteq OwnIDs(b)
      BY <3>1 DEF OwnChange
    <3>. QED
      BY <1>1, <1>3, <2>3, <3>1, <3>2
  <2>. QED
    BY <2>1, <2>2, <2>3 DEF OwnChange
<1>4. ASSUME tool.name = "change_id", NEW c \in Board, Holds(c)'
      PROVE  Holds(c)
  <2>1. tool.ids[1] \in OwnIDs(c)' \/ tool.new \in OwnIDs(c)'
    BY <1>4 DEF Holds
  <2>. QED
    BY <2>1 DEF OwnChange, Holds
<1>5. Apart'
  BY <1>3 DEF Apart
<1>6. tool.name = "change_id" => OneHolder'
  BY <1>2, <1>4 DEF OneHolder
<1>. QED
  BY <1>5, <1>6

(* A board that saves, or falls back on what it saved, gets no ID. *)
LEMMA OwnKept ==
  ASSUME BoardInv, NEW b \in Board, NEW r \in {config[b], saved[b]}, NEW f \in {config[b], saved[b]},
         config' = [config EXCEPT ![b] = r], saved' = [saved EXCEPT ![b] = f]
  PROVE  /\ config' \in [Board -> Config] /\ saved' \in [Board -> Config]
         /\ \A c \in Board : OwnChange(c)
<1>1. config \in [Board -> Config] /\ saved \in [Board -> Config]
  BY Zenon DEF BoardInv
<1>2. config' \in [Board -> Config] /\ saved' \in [Board -> Config]
  BY <1>1
<1>3. ASSUME NEW c \in Board PROVE OwnIDs(c)' \subseteq OwnIDs(c)
  BY <1>1, <1>3 DEF OwnIDs
<1>. QED
  BY <1>2, <1>3 DEF OwnChange

(* A datagram is taken, or all of them are lost. *)
LEMMA InboxStep ==
  ASSUME BusInv, NEW b \in Board, NEW s,
         s = <<>> \/ (inbox[b] # <<>> /\ s = Tail(inbox[b])),
         inbox' = [inbox EXCEPT ![b] = s]
  PROVE  /\ inbox' \in [Board -> Seq(Requests(tool))]
         /\ \A c \in Board : Len(inbox'[c]) <= InboxCap
<1>1. inbox \in [Board -> Seq(Requests(tool))] /\ \A c \in Board : Len(inbox[c]) <= InboxCap
  BY Zenon DEF BusInv
<1>2. s \in Seq(Requests(tool)) /\ Len(s) <= InboxCap
  <2>1. CASE s = <<>>
    BY <2>1, EmptySeq, Constants
  <2>2. CASE inbox[b] # <<>> /\ s = Tail(inbox[b])
    <3>1. inbox[b] \in Seq(Requests(tool)) /\ Len(inbox[b]) <= InboxCap /\ Len(inbox[b]) \in Nat
      BY <1>1, LenProperties
    <3>2. s \in Seq(Requests(tool)) /\ Len(s) = Len(inbox[b]) - 1
      BY <2>2, <3>1, HeadTailProperties
    <3>. QED
      BY <3>1, <3>2, Constants
  <2>. QED
    BY <2>1, <2>2
<1>. QED
  BY <1>1, <1>2

LEMMA AnswerStep ==
  ASSUME BusInv, NEW b \in Board, config' \in [Board -> Config], NEW content \in Contents, Answer(b, content)
  PROVE  rx' \in Seq(Replies) /\ lost' \in 0 .. retry_limit + 1
<1>1. rx \in Seq(Replies) /\ lost \in 0 .. retry_limit + 1
  BY Zenon DEF BusInv
<1>2. [src |-> config'[b].ID, content |-> content] \in Replies
  BY DEF Replies, Config
<1>3. OneMore(lost) \in 0 .. retry_limit + 1
  BY <1>1, Constants DEF OneMore
<1>4. Append(rx, [src |-> config'[b].ID, content |-> content]) \in Seq(Replies)
  BY <1>1, <1>2, AppendProperties
<1>. QED
  BY <1>1, <1>3, <1>4 DEF Answer

LEMMA YesNo == Yes \in Contents /\ No \in Contents
BY Constants DEF Yes, No, Says, Contents

(* A step of a board is a step of its inbox, its answer and its IDs. *)
LEMMA BoardStep ==
  ASSUME ToolsInv, UNCHANGED <<client, unique, punctual>>,
         inbox' \in [Board -> Seq(Requests(tool))], \A c \in Board : Len(inbox'[c]) <= InboxCap,
         rx' \in Seq(Replies), lost' \in 0 .. retry_limit + 1,
         config' \in [Board -> Config], saved' \in [Board -> Config],
         in_app' \subseteq Board, reset' \subseteq Board, worn' \subseteq Board,
         \A c \in Board : OwnChange(c)
  PROVE  ToolsInv'
<1>1. ClientInv'
  BY SameClient DEF ToolsInv
<1>2. tool' = tool
  BY DEF client
<1>3. BusInv'
  BY <1>2 DEF BusInv
<1>4. BoardInv'
  BY DEF BoardInv, ToolsInv
<1>5. IDsInv'
  BY <1>2, IDsStep DEF ToolsInv
<1>. QED
  BY <1>1, <1>3, <1>4, <1>5 DEF ToolsInv

(* The types a step of a board needs, and those of what it leaves alone. *)
LEMMA BoardTypes ==
  ASSUME ToolsInv
  PROVE  /\ BusInv /\ BoardInv
         /\ inbox \in [Board -> Seq(Requests(tool))] /\ (\A c \in Board : Len(inbox[c]) <= InboxCap)
         /\ rx \in Seq(Replies) /\ lost \in 0 .. retry_limit + 1
         /\ config \in [Board -> Config] /\ saved \in [Board -> Config]
         /\ in_app \subseteq Board /\ reset \subseteq Board /\ worn \subseteq Board
         /\ runs \in 0 .. MaxRuns
BY Zenon DEF ToolsInv, ClientInv, BusInv, BoardInv

LEMMA SameOwn ==
  ASSUME ToolsInv, config' = config, saved' = saved
  PROVE  \A c \in Board : OwnChange(c)
BY DEF OwnChange, OwnIDs

LEMMA ExecuteReadOnly ==
  ASSUME ToolsInv, NEW b \in Board, Ignore(b) \/ ExecutePing(b) \/ ExecuteRead(b)
  PROVE  ToolsInv'
<1>1. UNCHANGED <<client, unique, punctual, config, saved, in_app, reset, worn>>
  BY DEF Ignore, ExecutePing, ExecuteRead, boardRest, board
<1>2. inbox[b] # <<>> /\ inbox' = [inbox EXCEPT ![b] = Tail(inbox[b])]
  BY DEF Ignore, ExecutePing, ExecuteRead, Take, Addressed
<1>3. rx' \in Seq(Replies) /\ lost' \in 0 .. retry_limit + 1
  <2>1. CASE Ignore(b)
    BY <2>1, BoardTypes DEF Ignore
  <2>2. CASE ExecutePing(b)
    BY <1>1, <2>2, BoardTypes, YesNo, AnswerStep DEF ExecutePing
  <2>3. CASE ExecuteRead(b)
    <3>1. Says("config", config[b]) \in Contents
      BY BoardTypes DEF Says, Contents, Config
    <3>. QED
      BY <1>1, <2>3, <3>1, BoardTypes, AnswerStep DEF ExecuteRead
  <2>. QED
    BY <2>1, <2>2, <2>3
<1>4. inbox' \in [Board -> Seq(Requests(tool))] /\ \A c \in Board : Len(inbox'[c]) <= InboxCap
  BY <1>2, BoardTypes, InboxStep
<1>. QED
  BY <1>1, <1>3, <1>4, BoardTypes, SameOwn, BoardStep

(* The update of change_id: its board has the old ID, in RAM. *)
LEMMA ExecuteUpdateStep ==
  ASSUME ToolsInv, NEW b \in Board, ExecuteUpdate(b)
  PROVE  ToolsInv'
<1>. DEFINE d == Head(inbox[b])
<1>1. UNCHANGED <<client, unique, punctual, saved, in_app, reset, worn>>
  BY DEF ExecuteUpdate, boardRest
<1>2. /\ inbox[b] # <<>> /\ inbox' = [inbox EXCEPT ![b] = Tail(inbox[b])]
      /\ config[b].ID \in d.to /\ d.op = "update"
  BY DEF ExecuteUpdate, Take, Addressed
<1>3. d \in Requests(tool)
  BY <1>2, BoardTypes, HeadTailProperties
<1>4. config' = [config EXCEPT ![b] = Updated(config[b], d)]
  BY DEF ExecuteUpdate
<1>. HIDE DEF d
<1>5. /\ Updated(config[b], d) \in Config
      /\ Updated(config[b], d).ID = IF d.new # NONE THEN d.new ELSE config[b].ID
  <2>1. config[b] \in Config /\ d.new \in ID \cup {NONE}
    BY <1>3, BoardTypes DEF Requests
  <2>. QED
    BY <2>1, BoardTypes DEF Updated, Config
<1>6. config' \in [Board -> Config]
  BY <1>4, <1>5, BoardTypes
<1>7. ASSUME NEW c \in Board PROVE OwnChange(c)
  <2>1. CASE c # b \/ d.new = NONE
    <3>1. config'[c].ID = config[c].ID
      BY <1>4, <1>5, <2>1, BoardTypes
    <3>. QED
      BY <1>1, <3>1 DEF OwnChange, OwnIDs
  <2>2. CASE c = b /\ d.new # NONE
    <3>1. tool.name = "change_id" /\ d.new = tool.new /\ config[b].ID = tool.ids[1]
      BY <1>2, <1>3, <2>2 DEF Requests, Proper
    <3>2. config'[b].ID = tool.new
      BY <1>4, <1>5, <2>2, <3>1, BoardTypes
    <3>. QED
      BY <1>1, <2>2, <3>1, <3>2 DEF OwnChange, OwnIDs
  <2>. QED
    BY <2>1, <2>2
<1>8. rx' \in Seq(Replies) /\ lost' \in 0 .. retry_limit + 1
  BY <1>6, BoardTypes, YesNo, AnswerStep DEF ExecuteUpdate
<1>9. inbox' \in [Board -> Seq(Requests(tool))] /\ \A c \in Board : Len(inbox'[c]) <= InboxCap
  BY <1>2, BoardTypes, InboxStep
<1>. QED
  BY <1>1, <1>6, <1>7, <1>8, <1>9, BoardTypes, BoardStep

LEMMA ExecuteSaveStep ==
  ASSUME ToolsInv, NEW b \in Board, ExecuteSave(b)
  PROVE  ToolsInv'
<1>1. UNCHANGED <<client, unique, punctual, config, in_app, reset>>
  BY DEF ExecuteSave, boardRest
<1>2. inbox[b] # <<>> /\ inbox' = [inbox EXCEPT ![b] = Tail(inbox[b])]
  BY DEF ExecuteSave, Take, Addressed
<1>3. PICK f \in {config[b], saved[b]} : saved' = [saved EXCEPT ![b] = f]
  BY BoardTypes DEF ExecuteSave
<1>4. config' = [config EXCEPT ![b] = config[b]]
  BY <1>1, BoardTypes
<1>5. config' \in [Board -> Config] /\ saved' \in [Board -> Config] /\ \A c \in Board : OwnChange(c)
  BY <1>3, <1>4, BoardTypes, OwnKept
<1>6. worn' \subseteq Board
  BY BoardTypes DEF ExecuteSave
<1>7. rx' \in Seq(Replies) /\ lost' \in 0 .. retry_limit + 1
  BY <1>5, BoardTypes, YesNo, AnswerStep DEF ExecuteSave
<1>8. inbox' \in [Board -> Seq(Requests(tool))] /\ \A c \in Board : Len(inbox'[c]) <= InboxCap
  BY <1>2, BoardTypes, InboxStep
<1>. QED
  BY <1>1, <1>5, <1>6, <1>7, <1>8, BoardTypes, BoardStep

(* After a restart a board has what it saved. *)
LEMMA RestartStep ==
  ASSUME ToolsInv, NEW b \in Board, ExecuteJump(b) \/ Reset(b)
  PROVE  ToolsInv'
<1>1. UNCHANGED <<client, unique, punctual, rx, lost, worn>> /\ inbox' = [inbox EXCEPT ![b] = <<>>]
  BY DEF ExecuteJump, Reset, boardRest
<1>2. PICK f \in {config[b], saved[b]} :
           saved' = [saved EXCEPT ![b] = f] /\ config' = [config EXCEPT ![b] = f]
  <2>1. saved[b] \in Config /\ saved = [saved EXCEPT ![b] = saved[b]]
    BY BoardTypes
  <2>2. CASE ExecuteJump(b)
    BY <2>1, <2>2 DEF ExecuteJump
  <2>3. CASE Reset(b)
    <3>1. \E f \in {config[b], saved[b]} : saved' = [saved EXCEPT ![b] = f]
      BY <2>1, <2>3 DEF Reset
    <3>2. config' = [config EXCEPT ![b] = saved'[b]]
      BY <2>3 DEF Reset
    <3>. QED
      BY <3>1, <3>2, BoardTypes
  <2>. QED
    BY <2>2, <2>3
<1>3. config' \in [Board -> Config] /\ saved' \in [Board -> Config] /\ \A c \in Board : OwnChange(c)
  BY <1>2, BoardTypes, OwnKept
<1>4. in_app' \subseteq Board /\ reset' \subseteq Board
  BY BoardTypes DEF ExecuteJump, Reset
<1>5. inbox' \in [Board -> Seq(Requests(tool))] /\ \A c \in Board : Len(inbox'[c]) <= InboxCap
  BY <1>1, BoardTypes, InboxStep
<1>. QED
  BY <1>1, <1>3, <1>4, <1>5, BoardTypes, BoardStep

-----------------------------------------------------------------------------
LEMMA NextInv == ToolsInv /\ [Next]_vars => ToolsInv'
<1>. SUFFICES ASSUME ToolsInv, [Next]_vars PROVE ToolsInv'
  OBVIOUS
<1>1. ASSUME NEW t \in Tool, Run(t) PROVE ToolsInv'
  BY <1>1, RunStep
<1>2. CASE Client
  BY <1>2, ClientStep
<1>3. ASSUME NEW b \in Board, Execute(b) \/ Reset(b) PROVE ToolsInv'
  BY <1>3, ExecuteReadOnly, ExecuteUpdateStep, ExecuteSaveStep, RestartStep DEF Execute
<1>4. CASE UNCHANGED vars
  <2>1. UNCHANGED <<client, rx, inbox, config, saved, in_app, punctual, lost, reset, worn, unique>>
    BY <1>4 DEF vars, board
  <2>. QED
    BY <2>1, BoardTypes, SameOwn, BoardStep
<1>. QED
  BY <1>1, <1>2, <1>3, <1>4 DEF Next

(* The inductive invariant holds in every reachable state. *)
THEOREM Invariance == Spec => []ToolsInv
BY InitInv, NextInv, PTL DEF Spec

(* Client, bus and boards keep their types: whatever answers come, lists hold
   IDs, inboxes stay within their bound and a tool within its commands.     *)
THEOREM TypeCorrect == Spec => []TypeOK
<1>1. ToolsInv => TypeOK
  <2>. SUFFICES ASSUME ToolsInv PROVE TypeOK
    OBVIOUS
  <2>1. Elements(destinations) \subseteq ID /\ Elements(scan_queue) \subseteq ID
    BY ElementsType DEF ToolsInv, ClientInv
  <2>2. tool.name \in Names \cup {"none"} /\ tool.new \in ID \cup {NONE}
    BY DEF ToolsInv, ClientInv, Tools
  <2>. QED
    BY <2>1, <2>2, Zenon DEF ToolsInv, ClientInv, BusInv, BoardInv, TypeOK
<1>. QED
  BY <1>1, Invariance, PTL

(* However many tools are run, repeated, given up or cut off by resets, boards
   that had different IDs, in RAM and saved, have different IDs.            *)
THEOREM IDsStayUnique == Spec => []UniqueIDs
<1>1. ToolsInv => UniqueIDs
  BY DEF ToolsInv, IDsInv, UniqueIDs
<1>. QED
  BY <1>1, Invariance, PTL

-----------------------------------------------------------------------------
(* What is on its way, and for whom *)

(* A tool that was not refused. *)
Started == tool.name \in Names /\ outcome # "refused"
Commands == {Program(tool.name)[k] : k \in 1 .. step}

(* What is on its way was sent by this tool, for those a command is for. *)
Sound(d) ==
  /\ Started
  /\ d.op \in Commands /\ d.to \subseteq Elements(To(tool, d.op)) /\ d.new = tool.new

SentCall ==
  /\ ~Running => rx = <<>>
  /\ outcome = "done" /\ Started => step = Len(Program(tool.name)) /\ (Op # "jump" => Complete)
  /\ Started => step \in 1 .. Len(Program(tool.name)) /\ destinations = To(tool, Op)
SentTool ==
  /\ Started /\ tool.name # "change_id" => tool.new = NONE
  /\ tool.name = "read_config_all" => tool.ids = AllIDs
SentBus ==
  /\ \A b \in in_app : inbox[b] = <<>>
  /\ \A b \in Board : \A d \in Elements(inbox[b]) : Sound(d)
SentInv == SentCall /\ SentTool /\ SentBus

(* A datagram is put in some inboxes and lost on the way to the others. *)
Delivers(d, before) ==
  \E got \in SUBSET (Board \ in_app) :
    /\ inbox' = [b \in Board |-> IF b \in got THEN Append(inbox[b], d) ELSE inbox[b]]
    /\ lost' = IF \E b \in Board \ (got \cup in_app) : config[b].ID \in d.to THEN OneMore(before) ELSE before

LEMMA ElementsTail ==
  ASSUME NEW S, NEW s \in Seq(S), s # <<>>
  PROVE  Elements(s) = {Head(s)} \cup Elements(Tail(s)) /\ Head(s) = s[1] /\ Len(s) \in Nat \ {0}
<1>1. Len(s) \in Nat \ {0} /\ Len(Tail(s)) = Len(s) - 1 /\ Head(s) = s[1]
      /\ \A i \in 1 .. Len(Tail(s)) : Tail(s)[i] = s[i + 1]
  BY EmptySeq, HeadTailProperties
<1>2. \A i \in 1 .. Len(s) : i = 1 \/ (i - 1 \in 1 .. Len(Tail(s)) /\ s[i] = Tail(s)[i - 1])
  BY <1>1
<1>3. 1 \in 1 .. Len(s) /\ \A i \in 1 .. Len(Tail(s)) : i + 1 \in 1 .. Len(s)
  BY <1>1
<1>4. Elements(s) \subseteq {s[1]} \cup Elements(Tail(s))
  BY <1>2 DEF Elements
<1>5. {s[1]} \cup Elements(Tail(s)) \subseteq Elements(s)
  BY <1>1, <1>3 DEF Elements
<1>. QED
  BY <1>1, <1>4, <1>5

LEMMA ElementsAppend ==
  ASSUME NEW S, NEW s \in Seq(S), NEW x
  PROVE  Elements(Append(s, x)) = Elements(s) \cup {x}
<1>. DEFINE T == S \cup {x}
<1>1. s \in Seq(T) /\ x \in T
  BY SeqMonotonic
<1>2. Len(s) \in Nat /\ Len(Append(s, x)) = Len(s) + 1
      /\ (\A i \in 1 .. Len(s) : Append(s, x)[i] = s[i]) /\ Append(s, x)[Len(s) + 1] = x
  BY <1>1, LenProperties, AppendProperties
<1>3. 1 .. Len(s) + 1 = (1 .. Len(s)) \cup {Len(s) + 1}
  BY <1>2
<1>. QED
  BY <1>2, <1>3 DEF Elements

LEMMA ElementsEmpty == Elements(<<>>) = {}
BY DEF Elements

(* A list has at least as many entries as elements. *)
LEMMA ElementsCardinality ==
  ASSUME NEW S, NEW s \in Seq(S)
  PROVE  IsFiniteSet(Elements(s)) /\ Cardinality(Elements(s)) <= Len(s)
<1>1. Len(s) \in Nat /\ s \in [1 .. Len(s) -> S]
  BY LenProperties
<1>2. IsFiniteSet(1 .. Len(s)) /\ Cardinality(1 .. Len(s)) = Len(s)
  BY <1>1, FS_Interval
<1>. DEFINE f == [i \in 1 .. Len(s) |-> s[i]]
<1>3. f \in Surjection(1 .. Len(s), Elements(s))
  BY DEF Surjection, Elements
<1>. QED
  BY <1>2, <1>3, FS_Surjection

LEMMA Programs ==
  /\ \A n \in {"change_id", "write_config"} :
       Len(Program(n)) = 2 /\ Program(n)[1] = "update" /\ Program(n)[2] = "save"
  /\ Len(Program("read_config")) = 1 /\ Program("read_config")[1] = "read"
  /\ Len(Program("read_config_all")) = 2
  /\ Program("read_config_all")[1] = "ping" /\ Program("read_config_all")[2] = "read"
  /\ Len(Program("run_application")) = 1 /\ Program("run_application")[1] = "jump"
<1>1. \A n \in {"change_id", "write_config"} : Program(n) = <<"update", "save">>
  BY DEF Program
<1>2. \A n \in {"change_id", "write_config"} :
        Len(Program(n)) = 2 /\ Program(n)[1] = "update" /\ Program(n)[2] = "save"
  BY <1>1
<1>3. Program("read_config") = <<"read">>
  BY DEF Program
<1>4. Len(Program("read_config")) = 1 /\ Program("read_config")[1] = "read"
  BY <1>3
<1>5. Program("read_config_all") = <<"ping", "read">>
  BY DEF Program
<1>6. /\ Len(Program("read_config_all")) = 2
      /\ Program("read_config_all")[1] = "ping" /\ Program("read_config_all")[2] = "read"
  BY <1>5
<1>7. Program("run_application") = <<"jump">>
  BY DEF Program
<1>8. Len(Program("run_application")) = 1 /\ Program("run_application")[1] = "jump"
  BY <1>7
<1>. QED
  BY <1>2, <1>4, <1>6, <1>8, ZenonT(30)

(* Lists by command. *)
LEMMA Lists ==
  ASSUME NEW t
  PROVE  /\ t.name = "change_id" => To(t, "save") = <<t.new>>
         /\ t.name = "read_config_all" => To(t, "read") = scan_queue
         /\ \A op \in Ops : ~(op = "save" /\ t.name = "change_id") /\ ~(op = "read" /\ t.name = "read_config_all")
              => To(t, op) = t.ids
BY DEF To, Ops

LEMMA WriteDelivers ==
  ASSUME NEW t, NEW op, NEW to, NEW before, write_command(t, op, to, before)
  PROVE  Delivers(Request(t, op, to), before)
<1>1. PICK got \in SUBSET {b \in Board \ in_app : Len(inbox[b]) < InboxCap} :
           /\ inbox' = [b \in Board |-> IF b \in got THEN Append(inbox[b], Request(t, op, to)) ELSE inbox[b]]
           /\ lost' = IF \E b \in Board \ (got \cup in_app) : config[b].ID \in to
                         THEN OneMore(before) ELSE before
  BY Zenon DEF write_command, Request
<1>2. Request(t, op, to).to = to
  BY DEF Request
<1>. QED
  BY <1>1, <1>2, Zenon DEF Delivers

(* The elements of inboxes after a delivery. *)
LEMMA DeliveredElements ==
  ASSUME NEW S, inbox \in [Board -> Seq(S)], NEW d, NEW before, Delivers(d, before), NEW b \in Board
  PROVE  /\ Elements(inbox'[b]) \subseteq Elements(inbox[b]) \cup {d}
         /\ b \in in_app => inbox'[b] = inbox[b]
<1>1. PICK got \in SUBSET (Board \ in_app) :
           inbox' = [c \in Board |-> IF c \in got THEN Append(inbox[c], d) ELSE inbox[c]]
  BY DEF Delivers
<1>2. inbox[b] \in Seq(S)
  OBVIOUS
<1>. QED
  BY <1>1, <1>2, ElementsAppend

-----------------------------------------------------------------------------
(* The kinds of steps *)

Kept == <<config, saved, in_app, punctual, unique>>

LEMMA SeqTypes ==
  ASSUME ToolsInv
  PROVE  /\ tool \in Tools /\ rx \in Seq(Replies) /\ inbox \in [Board -> Seq(Requests(tool))]
         /\ destinations \in Seq(ID) /\ scan_queue \in Seq(ID) /\ DOMAIN answers \subseteq ID
         /\ lost \in 0 .. retry_limit + 1 /\ retry_count \in 0 .. retry_limit /\ step \in 1 .. 2
         /\ config \in [Board -> Config] /\ saved \in [Board -> Config]
         /\ (tool.name = "change_id" => Len(tool.ids) = 1 /\ tool.new # NONE)
         /\ (Running => tool.name \in Names)
BY Zenon DEF ToolsInv, ClientInv, BusInv, BoardInv

(* A tool is started: its first command is for the list it was given. *)
LEMMA RunIs ==
  ASSUME ToolsInv, SentInv, NEW t \in Tool, Run(t)
  PROVE  /\ tool' = t /\ t \in Tools /\ t.name \in Names /\ UNCHANGED Kept
         /\ t.name = "change_id" => Len(t.ids) = 1 /\ t.new # NONE /\ Unused(t.new)
         /\ t.name = "read_config_all" => t.ids = AllIDs
         /\ t.name # "change_id" /\ ~Refused(t) => t.new = NONE
         /\ reset' = {} /\ worn' = {} /\ scan_queue' = <<>>
         /\ rx = <<>> /\ rx' = <<>> /\ inbox = [b \in Board |-> <<>>]
         /\ Refused(t) => /\ outcome' = "refused" /\ inbox' = inbox /\ t.name = "write_config"
         /\ ~Refused(t) =>
              /\ outcome' = "none" /\ step' = 1 /\ answers' = NoAnswers /\ retry_count' = 0
              /\ destinations' = t.ids
              /\ Delivers(Request(t, Program(t.name)[1], Elements(t.ids)), 0)
<1>1. /\ tool' = t /\ UNCHANGED Kept /\ reset' = {} /\ worn' = {} /\ scan_queue' = <<>>
      /\ ~Running /\ rx' = rx /\ \A b \in Board : inbox[b] = <<>>
  BY DEF Run, board, Kept
<1>2. inbox = [b \in Board |-> <<>>]
  BY <1>1, SeqTypes
<1>3. rx = <<>>
  BY <1>1 DEF SentInv, SentCall
<1>4. /\ t.name \in Names /\ t \in Tools
      /\ t.name = "change_id" => Len(t.ids) = 1 /\ t.new # NONE /\ Unused(t.new)
  <2>1. t \in [name : Names, ids : List \cup {AllIDs}, new : ID \cup {NONE}]
    BY DEF Tool
  <2>2. t.ids \in Seq(ID)
    BY <2>1, AllIDsType, Constants
  <2>3. t.name = "change_id" => Len(t.ids) = 1 /\ t.new # NONE /\ Unused(t.new)
    BY DEF Tool
  <2>. QED
    BY <2>1, <2>2, <2>3 DEF Tools
<1>5. /\ t.name = "read_config_all" => t.ids = AllIDs
      /\ t.name # "change_id" /\ ~Refused(t) => t.new = NONE
  BY <1>4 DEF Tool, Refused, Names
<1>6. ASSUME Refused(t)
      PROVE  outcome' = "refused" /\ inbox' = inbox /\ t.name = "write_config"
  BY <1>6 DEF Run, Refused
<1>7. ASSUME ~Refused(t)
      PROVE  /\ outcome' = "none" /\ step' = 1 /\ answers' = NoAnswers /\ retry_count' = 0
             /\ destinations' = t.ids
             /\ Delivers(Request(t, Program(t.name)[1], Elements(t.ids)), 0)
  <2>1. outcome' = "none" /\ Command(t, 1, 0)
    BY <1>7 DEF Run
  <2>2. To(t, Program(t.name)[1]) = t.ids
    BY <1>4, Programs, Lists DEF Names, Ops
  <2>3. /\ step' = 1 /\ destinations' = t.ids /\ answers' = NoAnswers /\ retry_count' = 0
        /\ write_command(t, Program(t.name)[1], Elements(t.ids), 0)
    BY <2>1, <2>2, Zenon DEF Command
  <2>. QED
    BY <2>1, <2>3, WriteDelivers, Zenon
<1>. QED
  BY <1>1, <1>2, <1>3, <1>4, <1>5, <1>6, <1>7

(* What the client leaves alone. *)
LEMMA ClientKeeps ==
  ASSUME Client
  PROVE  UNCHANGED <<tool, runs, config, saved, in_app, punctual, reset, worn, unique>> /\ Running
BY DEF Client, ReadBroken, ScanAnswer, ScanTimeout, ReadAnswer, Retry, retryRest, GiveUp, Return,
       CallTimeout, Calling, untouched, board

Idle == punctual => rx = <<>> /\ \A b \in Board : inbox[b] = <<>>

Exits ==
  /\ UNCHANGED <<scan_queue, step, destinations, answers, retry_count, inbox, lost>>
  /\ rx' = <<>> /\ outcome' \in {"done", "IOError", "decode error"}
  /\ outcome' = "done" => step = Len(Program(tool.name)) /\ (Op # "jump" => Complete)
  /\ outcome' = "IOError" => Idle /\ ~Complete /\ retry_count = retry_limit

(* The second command follows the first. *)
Continues ==
  /\ UNCHANGED <<scan_queue, outcome, rx>>
  /\ step = 1 /\ step' = 2 /\ answers' = NoAnswers /\ retry_count' = 0
  /\ \/ tool.name \in {"change_id", "write_config"} /\ Op = "update" /\ Complete
     \/ tool.name = "read_config_all" /\ Op = "ping" /\ Idle
  /\ destinations' = To(tool, Program(tool.name)[2])
  /\ Delivers(Request(tool, Program(tool.name)[2], Elements(destinations')), lost)

Reads ==
  /\ UNCHANGED <<step, destinations, retry_count, outcome, inbox, lost>>
  /\ rx # <<>> /\ rx' = Tail(rx)
  /\ \/ /\ Op = "ping" /\ scan_queue' = Append(scan_queue, Head(rx).src) /\ answers' = answers
     \/ /\ Op # "ping" /\ Op # "jump" /\ scan_queue' = scan_queue
        /\ answers' = [i \in DOMAIN answers \cup {Head(rx).src} |->
                         IF i = Head(rx).src THEN Head(rx).content ELSE answers[i]]

Retries ==
  /\ UNCHANGED <<scan_queue, step, destinations, answers, outcome, rx>>
  /\ Idle /\ ~Complete /\ Op # "ping" /\ Op # "jump"
  /\ retry_count < retry_limit /\ retry_count' = retry_count + 1
  /\ Delivers(Request(tool, Op, Unanswered), lost)

LEMMA GoesOn ==
  ASSUME ToolsInv, Client, GoOn, scan_queue' = scan_queue,
         (Op \in {"update", "save", "read"} /\ Complete) \/ Op = "jump" \/ (Op = "ping" /\ Idle)
  PROVE  Exits \/ Continues
<1>. DEFINE P == Program(tool.name)
<1>1. Running /\ tool.name \in Names /\ step \in 1 .. 2 /\ step <= Len(P)
  BY ClientKeeps, Zenon DEF ToolsInv, ClientInv
<1>2. CASE step = Len(P)
  <2>1. Exit("done")
    BY <1>2 DEF GoOn
  <2>2. Op # "ping"
    BY <1>1, <1>2, Programs DEF Names, Op
  <2>. QED
    BY <1>2, <2>1, <2>2 DEF Exits, Exit
<1>3. CASE step # Len(P)
  <2>1. step = 1 /\ Len(P) = 2
    BY <1>1, <1>3, ProgramSteps
  <2>2. \/ tool.name \in {"change_id", "write_config"} /\ Op = "update"
        \/ tool.name = "read_config_all" /\ Op = "ping"
    BY <1>1, <2>1, Programs DEF Names, Op
  <2>3. Command(tool, 2, lost) /\ UNCHANGED <<rx, outcome>>
    BY <1>3, <2>1 DEF GoOn
  <2>4. /\ step' = 2 /\ destinations' = To(tool, P[2]) /\ answers' = NoAnswers /\ retry_count' = 0
        /\ write_command(tool, P[2], Elements(destinations'), lost)
    BY <2>3, Zenon DEF Command
  <2>5. Delivers(Request(tool, P[2], Elements(destinations')), lost)
    BY <2>4, WriteDelivers
  <2>. QED
    BY <2>1, <2>2, <2>3, <2>4, <2>5 DEF Continues
<1>. QED
  BY <1>2, <1>3

LEMMA ClientIs ==
  ASSUME ToolsInv, Client
  PROVE  Exits \/ Continues \/ Reads \/ Retries
<1>1. CASE ReadBroken
  BY <1>1 DEF ReadBroken, Exit, Exits
<1>2. CASE GiveUp
  BY <1>2 DEF GiveUp, CallTimeout, Timeout, Idle, Exit, Exits
<1>3. CASE ScanTimeout
  BY <1>3, GoesOn DEF ScanTimeout, Timeout, Idle
<1>4. CASE Return
  BY <1>4, GoesOn DEF Return, Calling
<1>5. CASE ScanAnswer
  BY <1>5 DEF ScanAnswer, Reads
<1>6. CASE ReadAnswer
  BY <1>6 DEF ReadAnswer, Calling, Reads
<1>7. CASE Retry
  <2>1. write_command(tool, Op, Unanswered, lost)
    BY <1>7 DEF Retry
  <2>2. Delivers(Request(tool, Op, Unanswered), lost)
    BY <2>1, WriteDelivers
  <2>. QED
    BY <1>7, <2>2 DEF Retry, retryRest, CallTimeout, Calling, Timeout, Idle, Retries
<1>. QED
  BY <1>1, <1>2, <1>3, <1>4, <1>5, <1>6, <1>7 DEF Client

-----------------------------------------------------------------------------
BoardKeeps == <<tool, step, destinations, scan_queue, answers, retry_count, outcome, runs, punctual, unique>>

(* The head of an inbox is executed or ignored. *)
Dequeues(b) == inbox[b] # <<>> /\ inbox' = [inbox EXCEPT ![b] = Tail(@)]

Executes(b, op, content) ==
  /\ Dequeues(b) /\ Addressed(b) /\ Head(inbox[b]).op = op /\ reset' = reset /\ in_app' = in_app
  /\ \/ Running /\ rx' = Append(rx, [src |-> config'[b].ID, content |-> content]) /\ lost' = lost
     \/ rx' = rx /\ lost' = OneMore(lost)

Ignores(b) == Dequeues(b) /\ ~Addressed(b) /\ UNCHANGED <<config, saved, in_app, rx, lost, reset, worn>>

Pings(b)   == Executes(b, "ping", Yes) /\ UNCHANGED <<config, saved, worn>>
Shows(b)   == Executes(b, "read", Says("config", config[b])) /\ UNCHANGED <<config, saved, worn>>
Updates(b) == Executes(b, "update", Yes) /\ config' = [config EXCEPT ![b] = Updated(@, Head(inbox[b]))]
                /\ UNCHANGED <<saved, worn>>
Saves(b) ==
  /\ config' = config
  /\ \/ Executes(b, "save", Yes) /\ saved' = [saved EXCEPT ![b] = config[b]] /\ worn' = worn
     \/ Executes(b, "save", No) /\ saved' \in {saved, [saved EXCEPT ![b] = config[b]]} /\ worn' = worn \cup {b}

(* A jump or a reset: what was not executed is lost. *)
Restarts(b) ==
  /\ inbox' = [inbox EXCEPT ![b] = <<>>] /\ UNCHANGED <<rx, lost, worn>>
  /\ config' = [config EXCEPT ![b] = saved'[b]]
  /\ in_app' \subseteq in_app \cup {b}
  /\ \/ Addressed(b) /\ Head(inbox[b]).op = "jump" /\ UNCHANGED <<saved, reset>>
     \/ /\ reset' = reset \cup {b}
        /\ \/ saved' = saved
           \/ Addressed(b) /\ Head(inbox[b]).op = "save" /\ saved' = [saved EXCEPT ![b] = config[b]]

LEMMA BoardIs ==
  ASSUME NEW b \in Board, Execute(b) \/ Reset(b)
  PROVE  /\ UNCHANGED BoardKeeps
         /\ Ignores(b) \/ Pings(b) \/ Shows(b) \/ Updates(b) \/ Saves(b) \/ Restarts(b)
<1>1. UNCHANGED BoardKeeps
  BY DEF BoardKeeps, Execute, Reset, Ignore, ExecutePing, ExecuteRead, ExecuteUpdate, ExecuteSave,
         ExecuteJump, boardRest, client
<1>2. CASE Ignore(b)
  BY <1>1, <1>2 DEF Ignore, Ignores, Dequeues, board
<1>3. CASE ExecutePing(b)
  BY <1>1, <1>3 DEF ExecutePing, Take, Answer, Addressed, Pings, Executes, Dequeues, board
<1>4. CASE ExecuteRead(b)
  BY <1>1, <1>4 DEF ExecuteRead, Take, Answer, Addressed, Shows, Executes, Dequeues, board
<1>5. CASE ExecuteUpdate(b)
  BY <1>1, <1>5 DEF ExecuteUpdate, Take, Answer, Addressed, Updates, Executes, Dequeues
<1>6. CASE ExecuteSave(b)
  BY <1>1, <1>6 DEF ExecuteSave, Take, Answer, Addressed, Saves, Executes, Dequeues
<1>7. CASE ExecuteJump(b)
  BY <1>1, <1>7 DEF ExecuteJump, Restarts
<1>8. CASE Reset(b)
  BY <1>1, <1>8 DEF Reset, Restarts
<1>. QED
  BY <1>1, <1>2, <1>3, <1>4, <1>5, <1>6, <1>7, <1>8 DEF Execute

(* The datagram a board executes, and the inboxes after it. *)
LEMMA Dequeued ==
  ASSUME ToolsInv, NEW b \in Board, Dequeues(b)
  PROVE  /\ Head(inbox[b]) \in Requests(tool) /\ Head(inbox[b]) \in Elements(inbox[b])
         /\ Head(inbox[b]) = inbox[b][1] /\ Len(inbox[b]) \in Nat \ {0}
         /\ Elements(inbox'[b]) \subseteq Elements(inbox[b])
         /\ Len(inbox'[b]) = Len(inbox[b]) - 1
         /\ \A k \in 1 .. Len(inbox'[b]) : inbox'[b][k] = inbox[b][k + 1]
         /\ \A c \in Board \ {b} : inbox'[c] = inbox[c]
<1>1. inbox \in [Board -> Seq(Requests(tool))] /\ inbox[b] \in Seq(Requests(tool))
  BY SeqTypes
<1>2. inbox'[b] = Tail(inbox[b]) /\ \A c \in Board \ {b} : inbox'[c] = inbox[c]
  BY <1>1 DEF Dequeues
<1>. QED
  BY <1>1, <1>2, ElementsTail, HeadTailProperties DEF Dequeues

(* Every datagram in an inbox is sound after a step that only removes some. *)
LEMMA BoardElements ==
  ASSUME ToolsInv, NEW b \in Board, Execute(b) \/ Reset(b), NEW c \in Board
  PROVE  /\ Elements(inbox'[c]) \subseteq Elements(inbox[c])
         /\ c \in in_app' => inbox[c] = <<>> \/ c \in in_app \/ inbox'[c] = <<>>
         /\ inbox[c] = <<>> => inbox'[c] = <<>>
<1>1. inbox \in [Board -> Seq(Requests(tool))]
  BY SeqTypes
<1>2. CASE Dequeues(b) /\ in_app' = in_app
  BY <1>2, Dequeued DEF Dequeues
<1>3. CASE Restarts(b)
  BY <1>1, <1>3, ElementsEmpty DEF Restarts
<1>. QED
  BY <1>2, <1>3, BoardIs DEF Ignores, Pings, Shows, Updates, Saves, Executes

-----------------------------------------------------------------------------
LEMMA SentRun ==
  ASSUME ToolsInv, SentInv, NEW t \in Tool, Run(t)
  PROVE  SentInv'
<1>. DEFINE op == Program(t.name)[1]
            d == Request(t, op, Elements(t.ids))
<1>1. /\ tool' = t /\ t \in Tools /\ t.name \in Names /\ rx' = <<>> /\ in_app' = in_app
      /\ t.name = "read_config_all" => t.ids = AllIDs
      /\ t.name # "change_id" /\ ~Refused(t) => t.new = NONE
      /\ inbox = [b \in Board |-> <<>>]
  BY RunIs DEF Kept
<1>2. CASE Refused(t)
  <2>1. outcome' = "refused" /\ inbox' = inbox
    BY <1>2, RunIs
  <2>2. ~Started'
    BY <2>1 DEF Started
  <2>. QED
    BY <1>1, <2>1, <2>2, ElementsEmpty DEF SentInv, SentCall, SentTool, SentBus, Running
<1>3. CASE ~Refused(t)
  <2>1. outcome' = "none" /\ step' = 1 /\ destinations' = t.ids /\ Delivers(d, 0)
    BY <1>3, RunIs
  <2>2. op \in Ops /\ Len(Program(t.name)) \in 1 .. 2 /\ Op' = op
        /\ To(t, op) = t.ids /\ To(t, op)' = t.ids
    <3>1. op \in {"ping", "read", "update", "jump"} /\ (t.name = "read_config_all" => op = "ping")
      BY <1>1, Programs DEF Names
    <3>2. Op' = op
      BY <1>1, <2>1 DEF Op
    <3>3. Len(Program(t.name)) \in 1 .. 2
      BY <1>1, ProgramSteps
    <3>. HIDE DEF op
    <3>4. To(t, op) = t.ids
      BY <3>1, Lists DEF Ops
    <3>5. To(t, op)' = t.ids
      BY <3>1 DEF To
    <3>. QED
      BY <3>1, <3>2, <3>3, <3>4, <3>5 DEF Ops
  <2>3. Started' /\ op \in Commands'
    <3>1. 1 \in 1 .. step'
      BY <2>1
    <3>2. Program(tool'.name)[1] \in Commands'
      BY <3>1 DEF Commands
    <3>. QED
      BY <1>1, <2>1, <3>2 DEF Started
  <2>4. d.op = op /\ d.to = Elements(t.ids) /\ d.new = t.new
    BY DEF Request
  <2>5. Sound(d)'
    <3>1. (Elements(To(tool, d.op)))' = Elements(t.ids)
      BY <1>1, <2>2, <2>4
    <3>. QED
      BY <1>1, <2>3, <2>4, <3>1 DEF Sound
  <2>6. \A b \in Board : Elements(inbox'[b]) \subseteq {d} /\ (b \in in_app => inbox'[b] = <<>>)
    <3>. TAKE b \in Board
    <3>1. inbox[b] = <<>>
      BY <1>1
    <3>. QED
      BY <2>1, <3>1, SeqTypes, DeliveredElements, ElementsEmpty
  <2>7. in_app \subseteq Board
    BY DEF ToolsInv, BoardInv
  <2>8. destinations' = To(tool, Op)'
    BY <1>1, <2>1, <2>2
  <2>9. \A b \in Board : \A e \in Elements(inbox'[b]) : Sound(e)'
    BY <2>5, <2>6
  <2>10. step' \in 1 .. Len(Program(tool'.name))
    <3>1. tool'.name = t.name
      BY <1>1
    <3>2. Len(Program(tool'.name)) \in 1 .. 2
      BY <2>2, <3>1
    <3>3. step' = 1
      BY <2>1
    <3>. QED
      BY <3>2, <3>3
  <2>. HIDE DEF op, d
  <2>11. \A b \in in_app' : inbox'[b] = <<>>
    BY <1>1, <2>6, <2>7
  <2>. QED
    BY <1>1, <1>3, <2>1, <2>8, <2>9, <2>10, <2>11 DEF SentInv, SentCall, SentTool, SentBus
<1>. QED
  BY <1>2, <1>3

(* A command sent after another one, or repeated. *)
LEMMA SentSame ==
  ASSUME tool' = tool, scan_queue' = scan_queue, Started' <=> Started, step' \in {step, 2}, step \in 1 .. 2,
         NEW d, Sound(d)
  PROVE  Sound(d)'
<1>1. Commands \subseteq Commands'
  <2>1. \A k \in 1 .. step : k \in 1 .. step'
    OBVIOUS
  <2>. QED
    BY <2>1 DEF Commands
<1>2. Elements(To(tool, d.op))' = Elements(To(tool, d.op))
  BY DEF To, Elements
<1>. QED
  BY <1>1, <1>2 DEF Sound

LEMMA SentDelivers ==
  ASSUME ToolsInv, \A b \in in_app : inbox[b] = <<>>, in_app \subseteq Board, in_app' = in_app,
         NEW d, Sound(d)', NEW before, Delivers(d, before),
         \A b \in Board : \A e \in Elements(inbox[b]) : Sound(e)'
  PROVE  /\ \A b \in in_app' : inbox'[b] = <<>>
         /\ \A b \in Board : \A e \in Elements(inbox'[b]) : Sound(e)'
<1>1. \A b \in Board : Elements(inbox'[b]) \subseteq Elements(inbox[b]) \cup {d}
                         /\ (b \in in_app => inbox'[b] = inbox[b])
  BY SeqTypes, DeliveredElements
<1>. QED
  BY <1>1, Zenon

LEMMA SentCommand ==
  ASSUME tool.name \in Names, step \in 1 .. 2
  PROVE  Op \in Commands /\ (step = 2 => Program(tool.name)[2] \in Commands)
<1>1. step \in 1 .. step
  OBVIOUS
<1>2. step = 2 => 2 \in 1 .. step
  BY <1>1
<1>. QED
  BY <1>1, <1>2 DEF Commands, Op

LEMMA SentToolSame == SentTool /\ tool' = tool /\ (Started' => Started) => SentTool'
BY DEF SentTool, AllIDs, Elements

LEMMA SentClient ==
  ASSUME ToolsInv, SentInv, Client
  PROVE  SentInv'
<1>1. UNCHANGED <<tool, in_app>> /\ Running /\ step \in 1 .. 2 /\ in_app \subseteq Board
      /\ tool.name \in Names /\ Started
  BY ClientKeeps, SeqTypes DEF Started, Running, ToolsInv, BoardInv
<1>2. SentTool'
  BY <1>1, SentToolSame DEF SentInv
<1>3. SentBus /\ destinations = To(tool, Op) /\ step \in 1 .. Len(Program(tool.name))
  BY <1>1 DEF SentInv, SentCall
<1>4. CASE Exits
  <2>1. UNCHANGED <<scan_queue, step, destinations, answers, inbox>> /\ rx' = <<>>
        /\ (outcome' = "done" => step = Len(Program(tool.name)) /\ (Op # "jump" => Complete))
    BY <1>4 DEF Exits
  <2>2. outcome' # "refused"
    BY <1>4 DEF Exits
  <2>3. Op' = Op /\ Started' /\ Complete' = Complete /\ To(tool, Op)' = To(tool, Op)
    BY <1>1, <2>1, <2>2 DEF Op, To, Started, Complete
  <2>4. \A b \in Board : \A d \in Elements(inbox[b]) : Sound(d)'
    BY <1>1, <1>3, <2>1, <2>3, SentSame DEF SentBus
  <2>5. SentBus'
    BY <1>1, <1>3, <2>1, <2>4 DEF SentBus, Elements
  <2>6. SentCall'
    BY <1>1, <1>3, <2>1, <2>3 DEF SentCall
  <2>. QED
    BY <1>2, <2>5, <2>6 DEF SentInv
<1>5. CASE Continues
  <2>0. PICK op : op = Program(tool.name)[2]
    OBVIOUS
  <2>d. PICK d : d = Request(tool, op, Elements(destinations'))
    OBVIOUS
  <2>1. UNCHANGED <<scan_queue, outcome, rx>> /\ destinations' = To(tool, op)
        /\ Delivers(d, lost)
        /\ tool.name \in {"change_id", "write_config", "read_config_all"}
    BY <1>5, <2>0, <2>d DEF Continues
  <2>s. step' = 2
    BY <1>5 DEF Continues
  <2>2. Op' = op /\ Started' /\ To(tool, op)' = To(tool, op)
    BY <1>1, <2>0, <2>1, <2>s DEF Op, Started, To
  <2>3. op \in Commands'
    <3>1. 2 \in 1 .. step'
      BY <2>s
    <3>2. Program(tool'.name)[2] \in Commands'
      BY <3>1 DEF Commands
    <3>. QED
      BY <1>1, <2>0, <3>2
  <2>4. d.op = op /\ d.to = Elements(destinations') /\ d.new = tool.new
    BY <2>d DEF Request
  <2>5. Len(Program(tool.name)) = 2
    BY <2>1, Programs
  <2>6. step' \in 1 .. Len(Program(tool'.name))
    <3>1. 2 \in 1 .. Len(Program(tool'.name))
      BY <1>1, <2>5
    <3>. QED
      BY <2>s, <3>1
  <2>7. Elements(To(tool, d.op))' = Elements(destinations')
    BY <1>1, <2>1, <2>2, <2>4 DEF Elements, To
  <2>8. Sound(d)'
    BY <1>1, <2>2, <2>3, <2>4, <2>7 DEF Sound
  <2>9. \A b \in Board : \A e \in Elements(inbox[b]) : Sound(e)'
    BY <1>1, <1>3, <2>1, <2>s, <2>2, SentSame DEF SentBus
  <2>10. SentBus'
    BY <1>1, <1>3, <2>1, <2>8, <2>9, SentDelivers DEF SentBus
  <2>11. SentCall'
    BY <1>1, <2>1, <2>2, <2>6 DEF SentCall, Running
  <2>. QED
    BY <1>2, <2>10, <2>11 DEF SentInv
<1>6. CASE Reads
  <2>1. UNCHANGED <<step, destinations, outcome, inbox>>
    BY <1>6 DEF Reads
  <2>2. Op' = Op /\ Started' /\ Running'
    BY <1>1, <2>1 DEF Op, Started, Running
  <2>3. scan_queue' = scan_queue \/ Op = "ping"
    BY <1>6 DEF Reads
  <2>4. To(tool, Op)' = To(tool, Op)
    BY <1>1, <2>2, <2>3 DEF To
  <2>5. \A b \in Board : \A d \in Elements(inbox[b]) : Sound(d)'
    <3>1. CASE scan_queue' = scan_queue
      BY <1>1, <1>3, <2>1, <2>2, <3>1, SentSame DEF SentBus
    <3>2. CASE Op = "ping"
      <4>1. step = 1
        <5>1. \A n \in Names : Len(Program(n)) = 2 => Program(n)[2] # "ping"
          BY Programs DEF Names
        <5>. QED
          BY <1>1, <1>3, <3>2, <5>1, ProgramSteps DEF Op
      <4>2. \A k \in 1 .. step : Program(tool.name)[k] = Op
        BY <4>1 DEF Op
      <4>3. Commands = {"ping"} /\ Commands' = {"ping"}
        BY <1>1, <2>1, <3>2, <4>1, <4>2 DEF Commands
      <4>4. Elements(To(tool, "ping"))' = Elements(To(tool, "ping"))
        BY <1>1 DEF To, Elements
      <4>. QED
        BY <1>1, <1>3, <2>2, <4>3, <4>4 DEF Sound, SentBus
    <3>. QED
      BY <2>3, <3>1, <3>2
  <2>6. SentBus'
    BY <1>1, <1>3, <2>1, <2>5 DEF SentBus, Elements
  <2>7. SentCall'
    BY <1>1, <1>3, <2>1, <2>2, <2>4 DEF SentCall, Running
  <2>. QED
    BY <1>2, <2>6, <2>7 DEF SentInv
<1>7. CASE Retries
  <2>d. PICK d : d = Request(tool, Op, Unanswered)
    OBVIOUS
  <2>1. UNCHANGED <<scan_queue, step, destinations, answers, outcome, rx>> /\ Delivers(d, lost)
    BY <1>7, <2>d DEF Retries
  <2>2. Op' = Op /\ Started' /\ Running' /\ To(tool, Op)' = To(tool, Op)
    BY <1>1, <2>1 DEF Op, Started, To, Running
  <2>3. Op \in Commands
    BY <1>1, SentCommand
  <2>4. d.op = Op /\ d.to \subseteq Elements(destinations) /\ d.new = tool.new
    BY <2>d DEF Request, Unanswered
  <2>5. Sound(d)
    BY <1>1, <1>3, <2>3, <2>4 DEF Sound
  <2>6. Sound(d)' /\ \A b \in Board : \A e \in Elements(inbox[b]) : Sound(e)'
    BY <1>1, <1>3, <2>1, <2>2, <2>5, SentSame DEF SentBus
  <2>7. SentBus'
    BY <1>1, <1>3, <2>1, <2>6, SentDelivers DEF SentBus
  <2>8. SentCall'
    BY <1>1, <1>3, <2>1, <2>2 DEF SentCall, Running
  <2>. QED
    BY <1>2, <2>7, <2>8 DEF SentInv
<1>. QED
  BY <1>4, <1>5, <1>6, <1>7, ClientIs

LEMMA SentBoard ==
  ASSUME ToolsInv, SentInv, NEW b \in Board, Execute(b) \/ Reset(b)
  PROVE  SentInv'
<1>1. UNCHANGED BoardKeeps /\ in_app \subseteq Board /\ step \in 1 .. 2 /\ in_app' \subseteq Board
  <2>1. in_app' \subseteq in_app \cup {b}
    BY BoardIs DEF Ignores, Pings, Shows, Updates, Saves, Executes, Restarts
  <2>. QED
    BY <2>1, BoardIs, SeqTypes DEF ToolsInv, BoardInv
<1>2. UNCHANGED <<tool, step, destinations, scan_queue, answers, outcome>>
  BY <1>1 DEF BoardKeeps
<1>3. Op' = Op /\ Started' = Started /\ Complete' = Complete /\ To(tool, Op)' = To(tool, Op) /\ Running' = Running
  BY <1>2 DEF Op, Started, Complete, To, Running
<1>4. SentTool'
  BY <1>2, <1>3, SentToolSame DEF SentInv
<1>5. \A c \in in_app' : inbox'[c] = <<>>
  BY <1>1, BoardElements DEF SentInv, SentBus
<1>6. \A c \in Board : \A d \in Elements(inbox[c]) : Sound(d)'
  BY <1>1, <1>2, <1>3, SentSame DEF SentInv, SentBus
<1>7. SentBus'
  BY <1>5, <1>6, BoardElements DEF SentBus
<1>8. ~Running => rx' = rx
  BY BoardIs DEF Ignores, Pings, Shows, Updates, Saves, Executes, Restarts
<1>9. SentCall'
  BY <1>2, <1>3, <1>8 DEF SentInv, SentCall
<1>. QED
  BY <1>4, <1>7, <1>9 DEF SentInv

LEMMA SentStep ==
  ASSUME ToolsInv, SentInv, [Next]_vars
  PROVE  SentInv'
<1>1. ASSUME NEW t \in Tool, Run(t) PROVE SentInv'
  BY <1>1, SentRun
<1>2. CASE Client
  BY <1>2, SentClient
<1>3. ASSUME NEW b \in Board, Execute(b) \/ Reset(b) PROVE SentInv'
  BY <1>3, SentBoard
<1>4. CASE UNCHANGED vars
  <2>1. UNCHANGED <<tool, step, destinations, scan_queue, answers, outcome, rx, inbox, in_app>>
    BY <1>4 DEF vars, client, board
  <2>2. SentCall' = SentCall
    BY <2>1 DEF SentCall, Started, Running, Op, Complete, To
  <2>3. SentTool' = SentTool
    BY <2>1 DEF SentTool, Started, AllIDs, Elements
  <2>4. SentBus' = SentBus
    BY <2>1 DEF SentBus, Sound, Started, Commands, To, Elements
  <2>. QED
    BY <2>2, <2>3, <2>4 DEF SentInv
<1>. QED
  BY <1>1, <1>2, <1>3, <1>4 DEF Next

-----------------------------------------------------------------------------
(* change_id *)

(* What an earlier or the present command put on the way. *)
LEMMA CommandsSent ==
  ASSUME ToolsInv, SentInv, NEW b \in Board, NEW d \in Elements(inbox[b])
  PROVE  /\ Sound(d) /\ tool.name \in Names
         /\ d.op = Program(tool.name)[1] \/ (step = 2 /\ d.op = Program(tool.name)[2])
<1>1. Sound(d)
  BY DEF SentInv, SentBus
<1>2. PICK k \in 1 .. step : d.op = Program(tool.name)[k]
  BY <1>1 DEF Sound, Commands
<1>3. step \in 1 .. 2
  BY SeqTypes
<1>4. k = 1 \/ (step = 2 /\ k = 2)
  BY <1>3
<1>. QED
  BY <1>1, <1>2, <1>4 DEF Sound, Started

(* change_id: the update is answered once, and when the first command is over
   no board is left that would answer it.                                   *)
Moved == step = 2 \/ rx # <<>> \/ DOMAIN answers # {}
NewUnheld == tool.ids[1] = tool.new => \A b \in Board : ~Holds(b)
OneAnswer == step = 1 => Len(rx) <= 1 /\ (rx # <<>> => DOMAIN answers = {})
NoUpdateLeft ==
  Moved => \A b \in Board : config[b].ID = tool.ids[1] => \A d \in Elements(inbox[b]) : d.op # "update"
NewSaved ==
  step = 2 /\ (rx # <<>> \/ DOMAIN answers # {}) => worn # {} \/ \E b \in Board : saved[b].ID = tool.new
(* With an answer on its way over a timeout the retry still finds no board. *)
OldGone == ~punctual /\ Moved => \A b \in Board : config[b].ID # tool.ids[1]
Excused == ~punctual /\ reset # {}
Changing == tool.name = "change_id" /\ unique
OneSave == OneAnswer /\ NoUpdateLeft /\ NewSaved /\ OldGone
ChangeInv == Changing => NewUnheld /\ (~Excused => OneSave)

LEMMA ChangeSent ==
  ASSUME ToolsInv, SentInv, Changing
  PROVE  /\ Apart /\ tool.new \in ID /\ tool.new # NONE
         /\ step \in 1 .. 2 /\ Len(tool.ids) = 1 /\ Elements(tool.ids) = {tool.ids[1]}
         /\ step = 1 => Op = "update" /\ To(tool, Op) = tool.ids
         /\ step = 2 => Op = "save" /\ To(tool, Op) = <<tool.new>>
         /\ \A b \in Board : \A d \in Elements(inbox[b]) :
              \/ d.op = "update" /\ d.to \subseteq {tool.ids[1]} /\ d.new = tool.new
              \/ d.op = "save" /\ step = 2 /\ d.to \subseteq {tool.new}
<1>1. tool.name = "change_id" /\ tool \in Tools /\ Len(tool.ids) = 1 /\ tool.new # NONE /\ step \in 1 .. 2
  BY SeqTypes DEF Changing
<1>2. Apart
  BY DEF Changing, ToolsInv, IDsInv
<1>3. Elements(tool.ids) = {tool.ids[1]}
  <2>1. 1 .. Len(tool.ids) = {1}
    BY <1>1
  <2>. QED
    BY <2>1 DEF Elements
<1>4. Program(tool.name)[1] = "update" /\ Program(tool.name)[2] = "save"
  BY <1>1, Programs
<1>5. To(tool, "update") = tool.ids /\ To(tool, "save") = <<tool.new>>
  BY <1>1 DEF To
<1>6. Elements(To(tool, "save")) = {tool.new}
  <2>1. 1 .. Len(<<tool.new>>) = {1} /\ <<tool.new>>[1] = tool.new
    OBVIOUS
  <2>. QED
    BY <1>5, <2>1 DEF Elements
<1>7. \A b \in Board : \A d \in Elements(inbox[b]) :
              \/ d.op = "update" /\ d.to \subseteq {tool.ids[1]} /\ d.new = tool.new
              \/ d.op = "save" /\ step = 2 /\ d.to \subseteq {tool.new}
  BY <1>3, <1>4, <1>5, <1>6, CommandsSent DEF Sound
<1>8. /\ step = 1 => Op = "update" /\ To(tool, Op) = tool.ids
      /\ step = 2 => Op = "save" /\ To(tool, Op) = <<tool.new>>
  BY <1>4, <1>5 DEF Op
<1>. QED
  BY <1>1, <1>2, <1>3, <1>7, <1>8 DEF Tools

LEMMA ChangeRun ==
  ASSUME ToolsInv, SentInv, NEW t \in Tool, Run(t)
  PROVE  ChangeInv'
<1>. SUFFICES ASSUME Changing' PROVE NewUnheld' /\ OneSave'
  BY DEF ChangeInv
<1>1. tool' = t /\ t.name = "change_id" /\ Unused(t.new) /\ UNCHANGED <<config, saved>> /\ rx' = <<>>
  BY RunIs DEF Kept, Changing
<1>2. ~Refused(t)
  BY <1>1 DEF Refused
<1>3. step' = 1 /\ answers' = NoAnswers
  BY <1>2, RunIs
<1>4. ~Moved'
  BY <1>1, <1>3 DEF Moved, NoAnswers
<1>5. NewUnheld'
  BY <1>1 DEF NewUnheld, Holds, Unused, OwnIDs
<1>. QED
  BY <1>1, <1>3, <1>4, <1>5 DEF OneSave, OneAnswer, NoUpdateLeft, NewSaved, OldGone

LEMMA ChangeClient ==
  ASSUME ToolsInv, SentInv, ChangeInv, Client
  PROVE  ChangeInv'
<1>1. UNCHANGED <<tool, config, saved, worn, unique, punctual, reset>> /\ Running
  BY ClientKeeps
<1>a. Changing => NewUnheld'
  BY <1>1 DEF ChangeInv, NewUnheld, Holds, OwnIDs
<1>. SUFFICES ASSUME Changing, ~Excused PROVE OneSave'
  BY <1>1, <1>a DEF ChangeInv, Changing, Excused
<1>2. OneAnswer /\ NoUpdateLeft /\ NewSaved /\ OldGone
  BY DEF ChangeInv, OneSave
<1>3. (Moved' => Moved) => OldGone'
  BY <1>1, <1>2 DEF OldGone
<1>4. step \in 1 .. 2 /\ destinations = To(tool, Op) /\ tool.name = "change_id"
  BY <1>1, SeqTypes DEF SentInv, SentCall, Started, Running, Changing
<1>5. CASE Exits
  <2>1. UNCHANGED <<step, answers, inbox>> /\ rx' = <<>>
    BY <1>5 DEF Exits
  <2>2. Moved' => Moved
    BY <2>1 DEF Moved
  <2>. QED
    BY <1>1, <1>2, <1>3, <2>1, <2>2 DEF OneSave, OneAnswer, NoUpdateLeft, NewSaved, Elements
<1>6. CASE Continues
  <2>1. step = 1 /\ rx' = rx /\ answers' = NoAnswers /\ Complete
    BY <1>4, <1>6 DEF Continues
  <2>2. step' = 2
    BY <1>6 DEF Continues
  <2>3. Len(destinations) = 1
    BY <1>4, <2>1, ChangeSent
  <2>4. DOMAIN answers # {}
    BY <2>1, <2>3, FS_EmptySet DEF Complete
  <2>5. rx' = <<>>
    BY <1>2, <2>1, <2>4 DEF OneAnswer
  <2>6. PICK d : d = Request(tool, Program(tool.name)[2], Elements(destinations'))
    OBVIOUS
  <2>7. d.op = "save" /\ Delivers(d, lost)
    BY <1>4, <1>6, <2>6, Programs DEF Continues, Request
  <2>8. NoUpdateLeft'
    <3>1. Moved
      BY <2>4 DEF Moved
    <3>2. \A b \in Board : Elements(inbox'[b]) \subseteq Elements(inbox[b]) \cup {d}
      BY <2>7, SeqTypes, DeliveredElements
    <3>3. \A b \in Board : config[b].ID = tool.ids[1] => \A e \in Elements(inbox'[b]) : e.op # "update"
      BY <1>2, <2>7, <3>1, <3>2 DEF NoUpdateLeft
    <3>. QED
      BY <1>1, <3>3 DEF NoUpdateLeft, Elements
  <2>. QED
    BY <1>3, <2>1, <2>2, <2>4, <2>5, <2>8 DEF OneSave, OneAnswer, NewSaved, NoAnswers, Moved
<1>7. CASE Reads
  <2>1. UNCHANGED <<step, inbox>> /\ rx # <<>> /\ rx' = Tail(rx)
    BY <1>7 DEF Reads
  <2>2. Moved /\ rx \in Seq(Replies)
    BY <2>1, SeqTypes DEF Moved
  <2>3. step = 1 => rx' = <<>>
    <3>1. Len(rx) \in Nat \ {0} /\ Len(Tail(rx)) = Len(rx) - 1 /\ Tail(rx) \in Seq(Replies)
      BY <2>1, <2>2, ElementsTail, HeadTailProperties
    <3>2. Len(Tail(rx)) = 0 => Tail(rx) = <<>>
      BY <3>1, EmptySeq
    <3>. QED
      BY <1>2, <2>1, <3>1, <3>2 DEF OneAnswer
  <2>4. OneAnswer'
    <3>1. rx' = <<>> => Len(rx') <= 1
      OBVIOUS
    <3>. QED
      BY <2>1, <2>3, <3>1, Zenon DEF OneAnswer
  <2>5. NoUpdateLeft'
    BY <1>1, <1>2, <2>1, <2>2 DEF NoUpdateLeft, Elements
  <2>6. NewSaved'
    BY <1>1, <1>2, <2>1 DEF NewSaved
  <2>. QED
    BY <1>3, <2>2, <2>4, <2>5, <2>6 DEF OneSave
<1>8. CASE Retries
  <2>1. UNCHANGED <<step, answers, rx>> /\ ~Complete /\ (punctual => rx = <<>>)
    BY <1>8 DEF Retries, Idle
  <2>2. step = 1 => DOMAIN answers = {}
    <3>. SUFFICES ASSUME step = 1 PROVE DOMAIN answers = {}
      OBVIOUS
    <3>1. Len(destinations) = 1
      BY <1>4, ChangeSent
    <3>2. IsFiniteSet(DOMAIN answers)
      BY SeqTypes, Constants, FS_Subset
    <3>3. Cardinality(DOMAIN answers) \in Nat /\ ~(Cardinality(DOMAIN answers) >= 1)
      BY <2>1, <3>1, <3>2, FS_CardinalityType DEF Complete
    <3>4. Cardinality(DOMAIN answers) = 0
      BY <3>3
    <3>. QED
      BY <3>2, <3>4, FS_EmptySet
  <2>3. PICK d : d = Request(tool, Op, Unanswered)
    OBVIOUS
  <2>4. d.op = Op /\ Delivers(d, lost)
    BY <1>8, <2>3 DEF Retries, Request
  <2>5. Moved' = Moved
    BY <2>1 DEF Moved
  <2>6. NoUpdateLeft'
    <3>1. CASE step = 1 /\ punctual
      <4>1. ~Moved'
        BY <2>1, <2>2, <3>1 DEF Moved
      <4>. QED
        BY <4>1 DEF NoUpdateLeft
    <3>2. CASE step = 2
      <4>1. Moved /\ d.op = "save"
        BY <2>4, <3>2, ChangeSent DEF Moved
      <4>2. \A b \in Board : Elements(inbox'[b]) \subseteq Elements(inbox[b]) \cup {d}
        BY <2>4, SeqTypes, DeliveredElements
      <4>3. \A b \in Board : config[b].ID = tool.ids[1] => \A e \in Elements(inbox'[b]) : e.op # "update"
        BY <1>2, <4>1, <4>2 DEF NoUpdateLeft
      <4>. QED
        BY <1>1, <4>3 DEF NoUpdateLeft, Elements
    <3>3. CASE ~punctual
      BY <1>1, <1>2, <2>5, <3>3 DEF NoUpdateLeft, OldGone
    <3>. QED
      BY <1>4, <3>1, <3>2, <3>3
  <2>. QED
    BY <1>1, <1>2, <1>3, <2>1, <2>5, <2>6 DEF OneSave, OneAnswer, NewSaved
<1>. QED
  BY <1>5, <1>6, <1>7, <1>8, ClientIs

LEMMA ChangeBoard ==
  ASSUME ToolsInv, SentInv, ChangeInv, NEW b \in Board, Execute(b) \/ Reset(b)
  PROVE  ChangeInv'
<1>1. UNCHANGED <<tool, step, answers, unique, punctual>>
  BY BoardIs DEF BoardKeeps
<1>. SUFFICES ASSUME Changing PROVE NewUnheld' /\ (~Excused' => OneSave')
  BY <1>1 DEF ChangeInv, Changing
<1>. DEFINE h == Head(inbox[b])
            i == tool.ids[1]
<1>a. reset \subseteq reset'
  BY BoardIs DEF Ignores, Pings, Shows, Updates, Saves, Executes, Restarts
<1>b. ~Excused' => ~Excused
  BY <1>1, <1>a DEF Excused
<1>2. NewUnheld /\ (~Excused' => OneAnswer /\ NoUpdateLeft /\ NewSaved /\ OldGone)
  BY <1>b DEF ChangeInv, OneSave
<1>3. \A c \in Board : Elements(inbox'[c]) \subseteq Elements(inbox[c])
  BY BoardElements
<1>4. config \in [Board -> Config] /\ saved \in [Board -> Config] /\ rx \in Seq(Replies)
  BY SeqTypes
<1>5. inbox[b] # <<>> =>
        \/ h.op = "update" /\ h.to \subseteq {i} /\ h.new = tool.new
        \/ h.op = "save" /\ step = 2 /\ h.to \subseteq {tool.new}
  <2>1. inbox[b] # <<>> => h \in Elements(inbox[b])
    BY SeqTypes, ElementsTail
  <2>. QED
    BY <2>1, ChangeSent
<1>6. CASE Ignores(b)
  <2>1. UNCHANGED <<config, saved, rx, worn>>
    BY <1>6 DEF Ignores
  <2>2. Moved' = Moved
    BY <1>1, <2>1 DEF Moved
  <2>3. ~Excused' => NoUpdateLeft'
    BY <1>1, <1>2, <1>3, <2>1, <2>2 DEF NoUpdateLeft
  <2>. QED
    BY <1>1, <1>2, <2>1, <2>2, <2>3 DEF NewUnheld, Holds, OwnIDs, OneSave, OneAnswer, NewSaved, OldGone
<1>7. CASE Pings(b) \/ Shows(b)
  BY <1>5, <1>7 DEF Pings, Shows, Executes, Addressed
<1>8. CASE Updates(b)
  <2>1. Addressed(b) /\ h.op = "update" /\ config' = [config EXCEPT ![b] = Updated(@, h)]
        /\ inbox[b] # <<>> /\ UNCHANGED <<saved, worn>>
    BY <1>8 DEF Updates, Executes, Addressed
  <2>2. config[b].ID = i /\ h.new = tool.new
    BY <1>5, <2>1 DEF Addressed
  <2>3. ~Excused' => ~Moved
    <3>1. h \in Elements(inbox[b])
      BY <2>1, SeqTypes, ElementsTail
    <3>. QED
      BY <1>2, <2>1, <2>2, <3>1 DEF NoUpdateLeft
  <2>4. i # tool.new
    <3>1. Holds(b)
      BY <2>2 DEF Holds, OwnIDs
    <3>. QED
      BY <1>2, <3>1 DEF NewUnheld
  <2>5. config'[b].ID = tool.new /\ \A c \in Board \ {b} : config'[c] = config[c]
    BY <1>4, <2>1, <2>2, ChangeSent DEF Updated, Config
  <2>6. \A c \in Board : config'[c].ID # i
    <3>1. \A c \in Board \ {b} : config[c].ID # i
      BY <2>2, ChangeSent DEF Apart, OwnIDs
    <3>. QED
      BY <2>4, <2>5, <3>1
  <2>7. ~Excused' => Len(rx') <= 1
    <3>. SUFFICES ASSUME ~Excused' PROVE Len(rx') <= 1
      OBVIOUS
    <3>1. rx = <<>>
      BY <2>3 DEF Moved
    <3>2. rx' = <<>> \/ \E x : rx' = <<x>>
      BY <1>8, <3>1 DEF Updates, Executes
    <3>3. Len(<<>>) <= 1 /\ \A x : Len(<<x>>) <= 1
      OBVIOUS
    <3>. QED
      BY <3>2, <3>3
  <2>8. ~Excused' => step # 2 /\ DOMAIN answers = {}
    BY <2>3 DEF Moved
  <2>. QED
    BY <1>1, <2>4, <2>6, <2>7, <2>8 DEF NewUnheld, OneSave, OneAnswer, NoUpdateLeft, NewSaved, OldGone
<1>9. CASE Saves(b)
  <2>1. Addressed(b) /\ h.op = "save" /\ config' = config /\ inbox[b] # <<>>
    BY <1>9 DEF Saves, Executes, Addressed
  <2>2. step = 2 /\ config[b].ID = tool.new
    BY <1>5, <2>1 DEF Addressed
  <2>3. i # tool.new
    <3>1. Holds(b)
      BY <2>2 DEF Holds, OwnIDs
    <3>. QED
      BY <1>2, <3>1 DEF NewUnheld
  <2>4. saved'[b].ID = tool.new \/ worn' # {}
    BY <1>4, <1>9, <2>2 DEF Saves
  <2>5. Moved
    BY <2>2 DEF Moved
  <2>6. ~Excused' => NoUpdateLeft'
    BY <1>1, <1>2, <1>3, <2>1, <2>5 DEF NoUpdateLeft
  <2>7. step # 1
    BY <2>2
  <2>. QED
    BY <1>1, <1>2, <2>1, <2>3, <2>4, <2>5, <2>6, <2>7 DEF NewUnheld, OneSave, OneAnswer, NewSaved, OldGone
<1>10. CASE Restarts(b)
  <2>1. inbox' = [inbox EXCEPT ![b] = <<>>] /\ UNCHANGED <<rx, worn>> /\ config' = [config EXCEPT ![b] = saved'[b]]
    BY <1>10 DEF Restarts
  <2>2. \/ saved' = saved
        \/ saved' = [saved EXCEPT ![b] = config[b]] /\ config[b].ID = tool.new
    BY <1>5, <1>10 DEF Restarts, Addressed
  <2>3. /\ \A c \in Board \ {b} : config'[c] = config[c] /\ saved'[c] = saved[c]
        /\ saved'[b] \in {saved[b], config[b]} /\ config'[b] = saved'[b]
    BY <1>4, <2>1, <2>2
  <2>4. NewUnheld'
    <3>1. \A c \in Board : OwnIDs(c)' \subseteq OwnIDs(c)
      BY <2>3 DEF OwnIDs
    <3>. QED
      BY <1>1, <1>2, <3>1 DEF NewUnheld, Holds
  <2>5. Elements(inbox'[b]) = {}
    BY <2>1, SeqTypes, ElementsEmpty
  <2>6. Moved' = Moved
    BY <1>1, <2>1 DEF Moved
  <2>7. ~Excused' => NoUpdateLeft'
    BY <1>1, <1>2, <1>3, <2>3, <2>5, <2>6 DEF NoUpdateLeft
  <2>8. ~Excused' => NewSaved'
    <3>1. (\E c \in Board : saved[c].ID = tool.new) => \E c \in Board : saved'[c].ID = tool.new
      BY <1>4, <2>2
    <3>. QED
      BY <1>1, <1>2, <2>1, <3>1 DEF NewSaved
  <2>9. ~Excused' => OneAnswer'
    BY <1>1, <1>2, <2>1 DEF OneAnswer
  <2>10. ~Excused' => OldGone'
    <3>1. reset' = reset \cup {b}
      BY <1>5, <1>10 DEF Restarts, Addressed
    <3>. QED
      BY <1>1, <3>1 DEF Excused, OldGone
  <2>. QED
    BY <2>4, <2>7, <2>8, <2>9, <2>10 DEF OneSave
<1>. QED
  BY <1>6, <1>7, <1>8, <1>9, <1>10, BoardIs

LEMMA ChangeStep ==
  ASSUME ToolsInv, SentInv, ChangeInv, [Next]_vars
  PROVE  ChangeInv'
<1>1. CASE UNCHANGED vars
  <2>1. UNCHANGED <<tool, step, answers, rx, inbox, config, saved, worn, unique, punctual, reset>>
    BY <1>1 DEF vars, client, board
  <2>. QED
    BY <2>1 DEF ChangeInv, Changing, Excused, OneSave, NewUnheld, Holds, OwnIDs, OneAnswer, NoUpdateLeft, Moved,
             NewSaved, OldGone, Elements
<1>. QED
  BY <1>1, ChangeRun, ChangeClient, ChangeBoard DEF Next

-----------------------------------------------------------------------------
(* Sequences after a step *)

LEMMA AppendedSeq ==
  ASSUME NEW S, NEW s \in Seq(S), NEW x
  PROVE  /\ Len(s) \in Nat /\ Len(Append(s, x)) = Len(s) + 1
         /\ \A k \in 1 .. Len(s) : Append(s, x)[k] = s[k]
         /\ Append(s, x)[Len(s) + 1] = x
<1>. DEFINE T == S \cup {x}
<1>1. s \in Seq(T) /\ x \in T
  BY SeqMonotonic
<1>. QED
  BY <1>1, LenProperties, AppendProperties

LEMMA DeliveredInbox ==
  ASSUME ToolsInv, NEW d, NEW before, Delivers(d, before), NEW b \in Board
  PROVE  /\ Len(inbox[b]) \in Nat
         /\ \/ inbox'[b] = inbox[b]
            \/ /\ b \notin in_app /\ Len(inbox'[b]) = Len(inbox[b]) + 1
               /\ \A k \in 1 .. Len(inbox[b]) : inbox'[b][k] = inbox[b][k]
               /\ inbox'[b][Len(inbox[b]) + 1] = d
<1>1. PICK got \in SUBSET (Board \ in_app) :
           inbox' = [c \in Board |-> IF c \in got THEN Append(inbox[c], d) ELSE inbox[c]]
  BY DEF Delivers
<1>2. inbox[b] \in Seq(Requests(tool))
  BY SeqTypes
<1>3. inbox'[b] = inbox[b] \/ (b \in got /\ inbox'[b] = Append(inbox[b], d))
  BY <1>1
<1>. QED
  BY <1>2, <1>3, AppendedSeq

LEMMA AnswerAdded ==
  ASSUME ToolsInv, NEW b \in Board, NEW op, NEW content, Executes(b, op, content)
  PROVE  /\ Len(rx) \in Nat
         /\ \/ rx' = rx /\ lost' = OneMore(lost)
            \/ /\ Running /\ lost' = lost /\ Len(rx') = Len(rx) + 1
               /\ \A k \in 1 .. Len(rx) : rx'[k] = rx[k]
               /\ rx'[Len(rx) + 1] = [src |-> config'[b].ID, content |-> content]
<1>1. rx \in Seq(Replies)
  BY SeqTypes
<1>2. \/ rx' = rx /\ lost' = OneMore(lost)
      \/ Running /\ lost' = lost /\ rx' = Append(rx, [src |-> config'[b].ID, content |-> content])
  BY DEF Executes
<1>. QED
  BY <1>1, <1>2, AppendedSeq

LEMMA InboxElement ==
  ASSUME NEW b, NEW k \in 1 .. Len(inbox[b])
  PROVE  inbox[b][k] \in Elements(inbox[b])
BY DEF Elements

LEMMA EmptyLen == \A s : s = <<>> => Len(s) = 0 /\ 1 .. Len(s) = {}
OBVIOUS

(* All of a finite set. *)
LEMMA AsMany ==
  ASSUME NEW S, IsFiniteSet(S), NEW T \in SUBSET S, Cardinality(T) >= Cardinality(S)
  PROVE  T = S
<1>1. Cardinality(T) <= Cardinality(S) /\ (Cardinality(S) = Cardinality(T) => S = T) /\ IsFiniteSet(T)
  BY FS_Subset
<1>2. Cardinality(S) \in Nat /\ Cardinality(T) \in Nat
  BY <1>1, FS_CardinalityType
<1>. QED
  BY <1>1, <1>2

-----------------------------------------------------------------------------
(* write_config *)

Addresses(b, d) == config[b].ID \in d.to

(* IDs whose answer to the command at hand is received. *)
Answered == {rx[k].src : k \in 1 .. Len(rx)} \cup DOMAIN answers

(* When punctual: of the command at hand, one datagram or one answer for an ID
   is on its way or received, and none of an earlier one.                   *)
Writing == tool.name = "write_config" /\ Started /\ unique /\ punctual
AnswersOnce ==
  /\ Answered \subseteq Elements(tool.ids)
  /\ \A k \in 1 .. Len(rx) : rx[k].src \notin DOMAIN answers
  /\ \A j, k \in 1 .. Len(rx) : rx[j].src = rx[k].src => j = k
HeardOnce(b) ==
  \A k \in 1 .. Len(inbox[b]) :
    Addresses(b, inbox[b][k]) =>
      /\ inbox[b][k].op = Op /\ config[b].ID \notin Answered
      /\ \A j \in 1 .. Len(inbox[b]) : Addresses(b, inbox[b][j]) => j = k
OneInv == Writing => AnswersOnce /\ \A b \in Board : HeardOnce(b)

(* Who answered the update has the new value, who answered the save has saved it. *)
HasUpdated(b) == step = 1 /\ config[b].ID \in Answered => config[b].value = runs
HasAll(b) == step = 2 /\ config[b].ID \in Elements(tool.ids) => config[b].value = runs
HasSaved(b) == step = 2 /\ b \notin worn /\ saved[b].ID \in Answered => saved[b].value = runs
WriteInv == Writing => \A b \in Board \ reset : HasUpdated(b) /\ HasAll(b) /\ HasSaved(b)

LEMMA WriteSent ==
  ASSUME ToolsInv, SentInv, Writing
  PROVE  /\ Apart /\ tool.new = NONE /\ step \in 1 .. 2 /\ destinations = tool.ids
         /\ IsFiniteSet(Elements(tool.ids)) /\ Cardinality(Elements(tool.ids)) <= Len(tool.ids)
         /\ Cardinality(Elements(tool.ids)) \in Nat /\ Len(tool.ids) \in Nat
         /\ Op \in {"update", "save"}
         /\ step = 1 <=> Op = "update"
         /\ step = 2 <=> Op = "save"
         /\ \A b \in Board : \A d \in Elements(inbox[b]) :
              d.op \in {"update", "save"} /\ d.to \subseteq Elements(tool.ids) /\ d.new = NONE
<1>1. tool.name = "write_config" /\ Started /\ tool \in Tools /\ step \in 1 .. 2
  BY SeqTypes DEF Writing
<1>2. Apart
  BY DEF Writing, ToolsInv, IDsInv
<1>3. tool.new = NONE /\ destinations = To(tool, Op)
  BY <1>1 DEF SentInv, SentTool, SentCall
<1>4. Program(tool.name)[1] = "update" /\ Program(tool.name)[2] = "save"
  BY <1>1, Programs
<1>5. To(tool, "update") = tool.ids /\ To(tool, "save") = tool.ids
  BY <1>1 DEF To
<1>6. (step = 1 => Op = "update") /\ (step = 2 => Op = "save")
  BY <1>4 DEF Op
<1>7. IsFiniteSet(Elements(tool.ids)) /\ Cardinality(Elements(tool.ids)) <= Len(tool.ids)
      /\ Cardinality(Elements(tool.ids)) \in Nat /\ Len(tool.ids) \in Nat
  BY <1>1, ElementsCardinality, FS_CardinalityType, LenProperties DEF Tools
<1>8. \A b \in Board : \A d \in Elements(inbox[b]) :
              d.op \in {"update", "save"} /\ d.to \subseteq Elements(tool.ids) /\ d.new = NONE
  BY <1>3, <1>4, <1>5, CommandsSent DEF Sound
<1>9. Op \in {"update", "save"} /\ (step = 1 <=> Op = "update") /\ (step = 2 <=> Op = "save")
  BY <1>1, <1>6
<1>10. destinations = tool.ids
  BY <1>3, <1>5, <1>9
<1>. QED
  BY <1>1, <1>2, <1>3, <1>7, <1>8, <1>9, <1>10

LEMMA WriteComplete ==
  ASSUME ToolsInv, SentInv, OneInv, Writing, Complete
  PROVE  DOMAIN answers = Elements(tool.ids)
<1>1. Cardinality(DOMAIN answers) >= Len(tool.ids)
  BY WriteSent DEF Complete
<1>2. IsFiniteSet(DOMAIN answers)
  BY SeqTypes, Constants, FS_Subset
<1>3. Cardinality(DOMAIN answers) \in Nat
  BY <1>2, FS_CardinalityType
<1>4. Cardinality(DOMAIN answers) >= Cardinality(Elements(tool.ids))
  BY <1>1, <1>3, WriteSent
<1>5. DOMAIN answers \subseteq Elements(tool.ids)
  BY DEF OneInv, AnswersOnce, Answered
<1>. QED
  BY <1>4, <1>5, WriteSent, AsMany

LEMMA WriteRun ==
  ASSUME ToolsInv, SentInv, NEW t \in Tool, Run(t)
  PROVE  OneInv' /\ WriteInv'
<1>. SUFFICES ASSUME Writing'
              PROVE  AnswersOnce' /\ \A b \in Board : HeardOnce(b)' /\ HasUpdated(b)' /\ HasAll(b)' /\ HasSaved(b)'
  BY DEF OneInv, WriteInv
<1>1. ~Refused(t)
  BY RunIs DEF Writing, Started
<1>2. tool' = t /\ rx' = <<>> /\ answers' = NoAnswers /\ t.name \in Names
  BY <1>1, RunIs
<1>3. step' = 1
  BY <1>1, RunIs
<1>4. Answered' = {}
  BY <1>2, EmptyLen DEF Answered, NoAnswers
<1>5. AnswersOnce'
  BY <1>2, <1>4, EmptyLen DEF AnswersOnce
<1>6. PICK d : d = Request(t, Program(t.name)[1], Elements(t.ids))
  OBVIOUS
<1>7. Delivers(d, 0)
  BY <1>1, <1>6, RunIs
<1>8. d.op = Op'
  BY <1>2, <1>3, <1>6 DEF Request, Op
<1>9. ASSUME NEW b \in Board PROVE HeardOnce(b)' /\ HasUpdated(b)' /\ HasAll(b)' /\ HasSaved(b)'
  <2>1. inbox[b] = <<>>
    BY RunIs
  <2>2. Len(inbox[b]) = 0
    BY <2>1
  <2>3. \A k \in 1 .. Len(inbox'[b]) : k = 1 /\ inbox'[b][k] = d
    BY <1>7, <2>2, DeliveredInbox
  <2>4. HeardOnce(b)'
    BY <1>4, <1>8, <2>3 DEF HeardOnce
  <2>5. step' # 2
    BY <1>3
  <2>. QED
    BY <1>4, <2>4, <2>5 DEF HasUpdated, HasAll, HasSaved
<1>. QED
  BY <1>5, <1>9

LEMMA WriteClient ==
  ASSUME ToolsInv, SentInv, OneInv, WriteInv, Client
  PROVE  OneInv' /\ WriteInv'
<1>1. UNCHANGED <<tool, runs, config, saved, punctual, reset, worn, unique>> /\ Running
  BY ClientKeeps
<1>2. Writing' => Writing
  BY <1>1 DEF Writing, Started, Running
<1>. SUFFICES ASSUME Writing
              PROVE  /\ AnswersOnce' /\ \A b \in Board : HeardOnce(b)'
                     /\ \A b \in Board \ reset : HasUpdated(b)' /\ HasAll(b)' /\ HasSaved(b)'
  BY <1>1, <1>2 DEF OneInv, WriteInv
<1>3. /\ AnswersOnce /\ \A b \in Board : HeardOnce(b)
      /\ \A b \in Board \ reset : HasUpdated(b) /\ HasAll(b) /\ HasSaved(b)
  BY DEF OneInv, WriteInv
<1>4. (Elements(tool.ids))' = Elements(tool.ids)
  BY <1>1 DEF Elements
<1>5. CASE Exits
  <2>1. UNCHANGED <<step, answers, inbox>> /\ rx' = <<>>
    BY <1>5 DEF Exits
  <2>2. Answered' \subseteq Answered /\ Op' = Op
    BY <1>1, <2>1, EmptyLen DEF Answered, Op
  <2>3. AnswersOnce'
    BY <1>3, <1>4, <2>1, <2>2, EmptyLen DEF AnswersOnce
  <2>4. \A b \in Board : HeardOnce(b)'
    BY <1>1, <1>3, <2>1, <2>2 DEF HeardOnce, Addresses
  <2>. QED
    BY <1>1, <1>3, <1>4, <2>1, <2>2, <2>3, <2>4 DEF HasUpdated, HasAll, HasSaved
<1>6. CASE Continues
  <2>1. rx' = rx /\ answers' = NoAnswers /\ Complete /\ step = 1
    BY <1>6 DEF Continues, Writing
  <2>2. step' = 2
    BY <1>6 DEF Continues
  <2>3. DOMAIN answers = Elements(tool.ids)
    BY <2>1, WriteComplete
  <2>4. Answered = Elements(tool.ids)
    BY <1>3, <2>3 DEF AnswersOnce, Answered
  <2>5. 1 .. Len(rx) = {}
    BY <1>3, <2>3 DEF AnswersOnce, Answered
  <2>6. Answered' = {}
    BY <2>1, <2>5 DEF Answered, NoAnswers
  <2>7. AnswersOnce'
    BY <2>1, <2>5, <2>6 DEF AnswersOnce
  <2>8. PICK d : d = Request(tool, Program(tool.name)[2], Elements(destinations'))
    OBVIOUS
  <2>9. Delivers(d, lost)
    BY <1>6, <2>8 DEF Continues
  <2>10. d.op = Op'
    BY <1>1, <2>2, <2>8 DEF Request, Op
  <2>11. ASSUME NEW b \in Board PROVE HeardOnce(b)'
    <3>1. \A k \in 1 .. Len(inbox[b]) : ~Addresses(b, inbox[b][k])
      <4>. SUFFICES ASSUME NEW k \in 1 .. Len(inbox[b]), Addresses(b, inbox[b][k]) PROVE FALSE
        OBVIOUS
      <4>1. config[b].ID \notin Answered
        BY <1>3 DEF HeardOnce
      <4>2. config[b].ID \in Elements(tool.ids)
        BY WriteSent, InboxElement DEF Addresses
      <4>. QED
        BY <2>4, <4>1, <4>2
    <3>2. \A k \in 1 .. Len(inbox'[b]) : Addresses(b, inbox'[b][k]) => k = Len(inbox[b]) + 1 /\ inbox'[b][k] = d
      BY <2>9, <3>1, DeliveredInbox
    <3>3. \A x : Addresses(b, x)' = Addresses(b, x)
      BY <1>1 DEF Addresses
    <3>. QED
      BY <2>6, <2>10, <3>2, <3>3 DEF HeardOnce
  <2>12. \A b \in Board \ reset : HasUpdated(b)' /\ HasAll(b)' /\ HasSaved(b)'
    <3>. TAKE b \in Board \ reset
    <3>1. HasUpdated(b)' /\ HasSaved(b)'
      BY <2>6 DEF HasUpdated, HasSaved
    <3>2. HasAll(b)'
      BY <1>1, <1>3, <1>4, <2>1, <2>4 DEF HasUpdated, HasAll
    <3>. QED
      BY <3>1, <3>2
  <2>. QED
    BY <2>7, <2>11, <2>12
<1>7. CASE Reads
  <2>1. UNCHANGED <<step, inbox>> /\ rx # <<>> /\ rx' = Tail(rx)
    BY <1>7 DEF Reads
  <2>2. answers' = [i \in DOMAIN answers \cup {Head(rx).src} |->
                         IF i = Head(rx).src THEN Head(rx).content ELSE answers[i]]
    <3>1. Op # "ping"
      BY WriteSent
    <3>. QED
      BY <1>7, <3>1 DEF Reads
  <2>3. DOMAIN answers' = DOMAIN answers \cup {Head(rx).src}
    BY <2>2
  <2>4. /\ Len(rx) \in Nat \ {0} /\ Len(rx') = Len(rx) - 1 /\ Head(rx) = rx[1]
        /\ \A k \in 1 .. Len(rx') : rx'[k] = rx[k + 1]
    BY <2>1, SeqTypes, HeadTailProperties, ElementsTail
  <2>5. Answered' = Answered
    <3>1. \A k \in 1 .. Len(rx) : k = 1 \/ (k - 1 \in 1 .. Len(rx') /\ rx[k] = rx'[k - 1])
      BY <2>4
    <3>2. \A k \in 1 .. Len(rx') : k + 1 \in 1 .. Len(rx)
      BY <2>4
    <3>3. 1 \in 1 .. Len(rx)
      BY <2>4
    <3>. QED
      BY <2>3, <2>4, <3>1, <3>2, <3>3 DEF Answered
  <2>6. AnswersOnce'
    <3>1. \A k \in 1 .. Len(rx') : k + 1 \in 1 .. Len(rx) /\ k + 1 # 1 /\ 1 \in 1 .. Len(rx)
      BY <2>4
    <3>2. \A k \in 1 .. Len(rx') : rx'[k].src \notin DOMAIN answers'
      BY <1>3, <2>3, <2>4, <3>1 DEF AnswersOnce
    <3>3. \A j, k \in 1 .. Len(rx') : rx'[j].src = rx'[k].src => j + 1 = k + 1
      BY <1>3, <2>4, <3>1 DEF AnswersOnce
    <3>4. \A j, k \in 1 .. Len(rx') : rx'[j].src = rx'[k].src => j = k
      BY <3>3
    <3>. QED
      BY <1>3, <1>4, <2>5, <3>2, <3>4 DEF AnswersOnce
  <2>7. Op' = Op
    BY <1>1, <2>1 DEF Op
  <2>8. \A b \in Board : HeardOnce(b)'
    BY <1>1, <1>3, <2>1, <2>5, <2>7 DEF HeardOnce, Addresses
  <2>. QED
    BY <1>1, <1>3, <1>4, <2>1, <2>5, <2>6, <2>8 DEF HasUpdated, HasAll, HasSaved
<1>8. CASE Retries
  <2>1. UNCHANGED <<step, answers, rx>> /\ rx = <<>> /\ \A b \in Board : inbox[b] = <<>>
    BY <1>8 DEF Retries, Idle, Writing
  <2>2. Answered' = Answered /\ Answered = DOMAIN answers /\ Op' = Op
    BY <1>1, <2>1, EmptyLen DEF Answered, Op
  <2>3. PICK d : d = Request(tool, Op, Unanswered)
    OBVIOUS
  <2>4. Delivers(d, lost) /\ d.op = Op /\ d.to \cap DOMAIN answers = {}
    BY <1>8, <2>3 DEF Retries, Request, Unanswered
  <2>5. AnswersOnce'
    BY <1>3, <1>4, <2>1, <2>2, EmptyLen DEF AnswersOnce
  <2>6. ASSUME NEW b \in Board PROVE HeardOnce(b)'
    <3>1. Len(inbox[b]) = 0
      BY <2>1
    <3>2. \A k \in 1 .. Len(inbox'[b]) : k = 1 /\ inbox'[b][k] = d
      BY <2>4, <3>1, DeliveredInbox
    <3>3. Addresses(b, d)' => config'[b].ID \notin Answered'
      BY <2>2, <2>4 DEF Addresses
    <3>. QED
      BY <2>2, <2>4, <3>2, <3>3 DEF HeardOnce
  <2>. QED
    BY <1>1, <1>3, <1>4, <2>1, <2>2, <2>5, <2>6 DEF HasUpdated, HasAll, HasSaved
<1>. QED
  BY <1>5, <1>6, <1>7, <1>8, ClientIs

(* The head of an inbox is heard once, and the rest is not for this board. *)
LEMMA WriteHead ==
  ASSUME ToolsInv, SentInv, OneInv, Writing, NEW b \in Board, Dequeues(b)
  PROVE  /\ inbox'[b] = Tail(inbox[b]) /\ Len(inbox[b]) \in Nat \ {0} /\ Len(inbox'[b]) = Len(inbox[b]) - 1
         /\ \A k \in 1 .. Len(inbox'[b]) : k + 1 \in 1 .. Len(inbox[b]) /\ k + 1 # 1 /\ inbox'[b][k] = inbox[b][k + 1]
         /\ \A c \in Board \ {b} : inbox'[c] = inbox[c]
         /\ Head(inbox[b]).op \in {"update", "save"} /\ Head(inbox[b]).new = NONE
         /\ Addressed(b) =>
              /\ Head(inbox[b]).op = Op /\ config[b].ID \in Elements(tool.ids) \ Answered
              /\ \A k \in 1 .. Len(inbox'[b]) : ~Addresses(b, inbox'[b][k])
<1>1. inbox \in [Board -> Seq(Requests(tool))]
  BY SeqTypes
<1>2. inbox'[b] = Tail(inbox[b]) /\ \A c \in Board \ {b} : inbox'[c] = inbox[c]
  BY <1>1 DEF Dequeues
<1>3. /\ Head(inbox[b]) \in Elements(inbox[b]) /\ Head(inbox[b]) = inbox[b][1]
      /\ Len(inbox[b]) \in Nat \ {0} /\ Len(inbox'[b]) = Len(inbox[b]) - 1
      /\ \A k \in 1 .. Len(inbox'[b]) : inbox'[b][k] = inbox[b][k + 1]
  BY Dequeued
<1>4. 1 \in 1 .. Len(inbox[b]) /\ \A k \in 1 .. Len(inbox'[b]) : k + 1 \in 1 .. Len(inbox[b]) /\ k + 1 # 1
  BY <1>3
<1>5. HeardOnce(b)
  BY DEF OneInv
<1>6. Addressed(b) => Addresses(b, inbox[b][1])
  BY <1>3 DEF Addressed, Addresses
<1>7. Addressed(b) => config[b].ID \in Elements(tool.ids)
  BY <1>3, WriteSent DEF Addressed
<1>. QED
  BY <1>2, <1>3, <1>4, <1>5, <1>6, <1>7, WriteSent DEF HeardOnce

(* A board answers an update or a save. *)
LEMMA WriteAnswer ==
  ASSUME ToolsInv, SentInv, OneInv, Writing, UNCHANGED BoardKeeps,
         NEW b \in Board, NEW op, NEW content, Executes(b, op, content),
         config'[b].ID = config[b].ID, \A c \in Board \ {b} : config'[c] = config[c]
  PROVE  /\ Answered' \subseteq Answered \cup {config[b].ID} /\ op = Op
         /\ AnswersOnce' /\ \A c \in Board : HeardOnce(c)'
         /\ config[b].ID \in Elements(tool.ids)
<1>1. Dequeues(b) /\ Addressed(b) /\ Head(inbox[b]).op = op
  BY DEF Executes
<1>2. UNCHANGED <<tool, step, answers>> /\ Op' = Op /\ (Elements(tool.ids))' = Elements(tool.ids)
  BY DEF BoardKeeps, Op, Elements
<1>3. op = Op /\ config[b].ID \in Elements(tool.ids) /\ config[b].ID \notin Answered
      /\ \A k \in 1 .. Len(inbox'[b]) : ~Addresses(b, inbox'[b][k])
  BY <1>1, WriteHead
<1>4. AnswersOnce
  BY DEF OneInv
<1>5. ASSUME rx' = rx PROVE Answered' \subseteq Answered \cup {config[b].ID} /\ AnswersOnce'
  BY <1>2, <1>3, <1>4, <1>5 DEF Answered, AnswersOnce
<1>6. ASSUME rx' # rx PROVE Answered' \subseteq Answered \cup {config[b].ID} /\ AnswersOnce'
  <2>0. PICK x : x = [src |-> config'[b].ID, content |-> content]
    OBVIOUS
  <2>1. /\ Len(rx) \in Nat /\ Len(rx') = Len(rx) + 1 /\ \A k \in 1 .. Len(rx) : rx'[k] = rx[k]
        /\ rx'[Len(rx) + 1].src = config[b].ID
    <3>1. /\ Len(rx) \in Nat /\ Len(rx') = Len(rx) + 1 /\ \A k \in 1 .. Len(rx) : rx'[k] = rx[k]
          /\ rx'[Len(rx) + 1] = x
      BY <1>6, <2>0, AnswerAdded
    <3>2. x.src = config[b].ID
      BY <2>0
    <3>. QED
      BY <3>1, <3>2
  <2>2. \A k \in 1 .. Len(rx') : (k \in 1 .. Len(rx) /\ rx'[k] = rx[k]) \/ (k = Len(rx) + 1 /\ rx'[k].src = config[b].ID)
    BY <2>1
  <2>3. Answered' \subseteq Answered \cup {config[b].ID}
    BY <1>2, <2>2 DEF Answered
  <2>4. /\ config[b].ID \notin DOMAIN answers
        /\ \A k \in 1 .. Len(rx) : rx[k].src # config[b].ID
    BY <1>3 DEF Answered
  <2>5. \A k \in 1 .. Len(rx') : rx'[k].src \notin DOMAIN answers
    BY <1>4, <2>2, <2>4 DEF AnswersOnce
  <2>6. \A j, k \in 1 .. Len(rx') : rx'[j].src = rx'[k].src => j = k
    BY <1>4, <2>2, <2>4 DEF AnswersOnce
  <2>7. AnswersOnce'
    BY <1>2, <1>3, <1>4, <2>3, <2>5, <2>6 DEF AnswersOnce
  <2>. QED
    BY <2>3, <2>7
<1>7. Answered' \subseteq Answered \cup {config[b].ID} /\ AnswersOnce'
  BY <1>5, <1>6
<1>8. ASSUME NEW c \in Board PROVE HeardOnce(c)'
  <2>1. \A x : Addresses(c, x)' = Addresses(c, x)
    BY DEF Addresses
  <2>2. CASE c = b
    BY <1>3, <2>1, <2>2 DEF HeardOnce
  <2>3. CASE c # b
    <3>1. HeardOnce(c) /\ inbox'[c] = inbox[c] /\ config'[c] = config[c]
      BY <1>1, <2>3, WriteHead DEF OneInv
    <3>2. config[c].ID # config[b].ID
      BY <2>3, WriteSent DEF Apart, OwnIDs
    <3>. QED
      BY <1>2, <1>7, <2>1, <3>1, <3>2 DEF HeardOnce
  <2>. QED
    BY <2>2, <2>3
<1>. QED
  BY <1>3, <1>7, <1>8

LEMMA WriteBoard ==
  ASSUME ToolsInv, SentInv, OneInv, WriteInv, NEW b \in Board, Execute(b) \/ Reset(b)
  PROVE  OneInv' /\ WriteInv'
<1>1. UNCHANGED BoardKeeps /\ UNCHANGED <<tool, step, answers, runs, unique>> /\ Op' = Op /\ Writing' = Writing
      /\ (Elements(tool.ids))' = Elements(tool.ids)
  BY BoardIs DEF BoardKeeps, Op, Writing, Started, Elements
<1>. SUFFICES ASSUME Writing
              PROVE  /\ AnswersOnce' /\ \A c \in Board : HeardOnce(c)'
                     /\ \A c \in Board \ reset' : HasUpdated(c)' /\ HasAll(c)' /\ HasSaved(c)'
  BY <1>1 DEF OneInv, WriteInv
<1>2. /\ AnswersOnce /\ \A c \in Board : HeardOnce(c)
      /\ \A c \in Board \ reset : HasUpdated(c) /\ HasAll(c) /\ HasSaved(c)
  BY DEF OneInv, WriteInv
<1>3. config \in [Board -> Config] /\ saved \in [Board -> Config]
  BY SeqTypes
<1>4. \A c \in Board \ {b} : config[c].ID # config[b].ID /\ saved[c].ID # config[b].ID
  BY WriteSent DEF Apart, OwnIDs
<1>5. CASE Ignores(b)
  <2>1. UNCHANGED <<config, saved, rx, reset, worn>> /\ Dequeues(b)
    BY <1>5 DEF Ignores
  <2>2. Answered' = Answered /\ AnswersOnce'
    BY <1>1, <1>2, <2>1 DEF Answered, AnswersOnce
  <2>3. ASSUME NEW c \in Board PROVE HeardOnce(c)'
    <3>1. \A x : Addresses(c, x)' = Addresses(c, x)
      BY <2>1 DEF Addresses
    <3>2. CASE c = b
      <4>1. \A k \in 1 .. Len(inbox'[b]) : k + 1 \in 1 .. Len(inbox[b]) /\ inbox'[b][k] = inbox[b][k + 1]
        BY <2>1, WriteHead
      <4>2. \A k \in 1 .. Len(inbox'[b]) : Addresses(b, inbox'[b][k]) =>
              /\ inbox'[b][k].op = Op /\ config[b].ID \notin Answered
              /\ \A j \in 1 .. Len(inbox'[b]) : Addresses(b, inbox'[b][j]) => j + 1 = k + 1
        BY <1>2, <4>1 DEF HeardOnce
      <4>3. \A j, k \in 1 .. Len(inbox'[b]) : j + 1 = k + 1 => j = k
        OBVIOUS
      <4>. QED
        BY <1>1, <2>1, <2>2, <3>1, <3>2, <4>2, <4>3 DEF HeardOnce
    <3>3. CASE c # b
      <4>1. inbox'[c] = inbox[c]
        BY <2>1, <3>3, WriteHead
      <4>. QED
        BY <1>1, <1>2, <2>1, <2>2, <3>1, <4>1 DEF HeardOnce
    <3>. QED
      BY <3>2, <3>3
  <2>. QED
    BY <1>1, <1>2, <2>1, <2>2, <2>3 DEF HasUpdated, HasAll, HasSaved
<1>6. CASE Pings(b) \/ Shows(b)
  BY <1>6, WriteHead DEF Pings, Shows, Executes
<1>7. CASE Updates(b)
  <2>1. /\ Executes(b, "update", Yes) /\ config' = [config EXCEPT ![b] = Updated(@, Head(inbox[b]))]
        /\ UNCHANGED <<saved, worn>> /\ reset' = reset /\ Dequeues(b)
    BY <1>7 DEF Updates, Executes
  <2>2. Head(inbox[b]).new = NONE
    BY <2>1, WriteHead
  <2>3. config'[b].ID = config[b].ID /\ config'[b].value = runs /\ \A c \in Board \ {b} : config'[c] = config[c]
    BY <1>3, <2>1, <2>2 DEF Updated, Config
  <2>4. /\ Answered' \subseteq Answered \cup {config[b].ID} /\ Op = "update"
        /\ AnswersOnce' /\ \A c \in Board : HeardOnce(c)'
    BY <1>1, <2>1, <2>3, WriteAnswer
  <2>5. step # 2
    BY <2>4, WriteSent
  <2>6. \A c \in Board \ reset' : HasUpdated(c)'
    BY <1>1, <1>2, <1>4, <2>1, <2>3, <2>4 DEF HasUpdated
  <2>. QED
    BY <1>1, <2>4, <2>5, <2>6 DEF HasAll, HasSaved
<1>8. CASE Saves(b)
  <2>1. PICK x \in {Yes, No} :
             /\ Executes(b, "save", x) /\ config' = config /\ reset' = reset
             /\ \/ saved' = [saved EXCEPT ![b] = config[b]] /\ worn' = worn
                \/ saved' \in {saved, [saved EXCEPT ![b] = config[b]]} /\ worn' = worn \cup {b}
    BY <1>8 DEF Saves, Executes
  <2>2. /\ Answered' \subseteq Answered \cup {config[b].ID} /\ Op = "save"
        /\ AnswersOnce' /\ (\A c \in Board : HeardOnce(c)') /\ config[b].ID \in Elements(tool.ids)
    BY <1>1, <2>1, WriteAnswer
  <2>3. step = 2
    BY <2>2, WriteSent
  <2>4. /\ reset' = reset
        /\ \A c \in Board \ {b} : saved'[c] = saved[c] /\ (c \notin worn' => c \notin worn)
        /\ b \notin worn' => saved'[b] = config[b]
    BY <1>3, <2>1
  <2>5. ASSUME NEW c \in Board \ reset' PROVE HasUpdated(c)' /\ HasAll(c)' /\ HasSaved(c)'
    <3>1. HasUpdated(c)' /\ HasAll(c)'
      <4>1. step' # 1 /\ HasAll(c)
        BY <1>1, <1>2, <2>1, <2>3
      <4>. QED
        BY <1>1, <2>1, <4>1 DEF HasUpdated, HasAll
    <3>2. ASSUME c = b PROVE HasSaved(c)'
      BY <1>1, <1>2, <2>2, <2>3, <2>4, <3>2 DEF HasAll, HasSaved
    <3>3. ASSUME c # b PROVE HasSaved(c)'
      BY <1>1, <1>2, <1>4, <2>2, <2>4, <3>3 DEF HasSaved
    <3>4. HasSaved(c)'
      BY <3>2, <3>3
    <3>. QED
      BY <3>1, <3>4
  <2>. QED
    BY <2>2, <2>5
<1>9. CASE Restarts(b)
  <2>1. /\ inbox' = [inbox EXCEPT ![b] = <<>>] /\ UNCHANGED <<rx, worn>>
        /\ config' = [config EXCEPT ![b] = saved'[b]]
        /\ reset' = reset \cup {b} /\ saved' \in {saved, [saved EXCEPT ![b] = config[b]]}
    <3>1. inbox[b] # <<>> => Head(inbox[b]).op # "jump"
      <4>1. inbox[b] # <<>> => Head(inbox[b]) \in Elements(inbox[b])
        BY SeqTypes, ElementsTail
      <4>. QED
        BY <4>1, WriteSent
    <3>. QED
      BY <1>9, <3>1 DEF Restarts, Addressed
  <2>2. \A c \in Board \ {b} : config'[c] = config[c] /\ saved'[c] = saved[c] /\ inbox'[c] = inbox[c]
    BY <1>3, <2>1, SeqTypes
  <2>3. Answered' = Answered /\ AnswersOnce'
    BY <1>1, <1>2, <2>1 DEF Answered, AnswersOnce
  <2>4. HeardOnce(b)'
    <3>1. inbox'[b] = <<>>
      BY <2>1, SeqTypes
    <3>2. 1 .. Len(inbox'[b]) = {}
      BY <3>1, EmptyLen
    <3>. QED
      BY <3>2 DEF HeardOnce
  <2>5. \A c \in Board \ {b} : HeardOnce(c)'
    BY <1>1, <1>2, <2>2, <2>3 DEF HeardOnce, Addresses
  <2>6. \A c \in Board \ reset' : HasUpdated(c)' /\ HasAll(c)' /\ HasSaved(c)'
    BY <1>1, <1>2, <2>1, <2>2, <2>3 DEF HasUpdated, HasAll, HasSaved
  <2>. QED
    BY <2>3, <2>4, <2>5, <2>6
<1>. QED
  BY <1>5, <1>6, <1>7, <1>8, <1>9, BoardIs

LEMMA WriteStep ==
  ASSUME ToolsInv, SentInv, OneInv, WriteInv, [Next]_vars
  PROVE  OneInv' /\ WriteInv'
<1>1. CASE UNCHANGED vars
  <2>1. UNCHANGED <<tool, step, answers, outcome, runs, rx, inbox, config, saved, punctual, unique, reset, worn>>
    BY <1>1 DEF vars, client, board
  <2>2. Answered' = Answered /\ Op' = Op /\ Writing' = Writing
    BY <2>1 DEF Answered, Op, Writing, Started
  <2>3. OneInv'
    BY <2>1, <2>2 DEF OneInv, AnswersOnce, HeardOnce, Addresses, Elements
  <2>. QED
    BY <2>1, <2>2, <2>3 DEF WriteInv, HasUpdated, HasAll, HasSaved, Elements
<1>. QED
  BY <1>1, WriteRun, WriteClient, WriteBoard DEF Next

-----------------------------------------------------------------------------
(* Losses and retries *)

(* An ID that did not answer has a datagram or an answer on its way, or one
   more was lost than there were retries.                                   *)
OnItsWay(i) ==
  \/ \E k \in 1 .. Len(rx) : rx[k].src = i
  \/ \E b \in Board : config[b].ID = i /\ \E d \in Elements(inbox[b]) : i \in d.to
Lossy == Started /\ tool.name \in {"write_config", "read_config"} /\ punctual /\ reset = {}
AwaitedOrLost ==
  Running => \A b \in Board \ in_app :
    config[b].ID \in Unanswered => lost > retry_count \/ (lost = retry_count /\ OnItsWay(config[b].ID))
GaveUpOnLoss == outcome = "IOError" /\ Distinct /\ Present => lost > retry_limit
LossInv == Lossy => AwaitedOrLost /\ GaveUpOnLoss

LEMMA LossSent ==
  ASSUME ToolsInv, SentInv, Lossy
  PROVE  /\ tool.name \in Names /\ tool.new = NONE /\ tool.ids \in Seq(ID)
         /\ Op \in {"update", "save", "read"} /\ destinations = tool.ids
         /\ \A op \in {"update", "save", "read"} : To(tool, op) = tool.ids
         /\ \A b \in Board : \A d \in Elements(inbox[b]) : d.op \in {"update", "save", "read"} /\ d.new = NONE
<1>1. tool.name \in {"write_config", "read_config"} /\ Started /\ tool \in Tools /\ step \in 1 .. 2
      /\ tool.name \in Names
  BY SeqTypes DEF Lossy, Started
<1>2. tool.new = NONE /\ destinations = To(tool, Op) /\ step \in 1 .. Len(Program(tool.name))
  BY <1>1 DEF SentInv, SentTool, SentCall
<1>3. \A op \in {"update", "save", "read"} : To(tool, op) = tool.ids
  BY <1>1 DEF To
<1>4. \A k \in 1 .. Len(Program(tool.name)) : Program(tool.name)[k] \in {"update", "save", "read"}
  <2>1. CASE tool.name = "write_config"
    <3>1. Program(tool.name) = <<"update", "save">>
      BY <2>1 DEF Program
    <3>. QED
      BY <3>1
  <2>2. CASE tool.name = "read_config"
    <3>1. Program(tool.name) = <<"read">>
      BY <2>2 DEF Program
    <3>. QED
      BY <3>1
  <2>. QED
    BY <1>1, <2>1, <2>2
<1>5. Op \in {"update", "save", "read"}
  BY <1>2, <1>4 DEF Op
<1>6. \A b \in Board : \A d \in Elements(inbox[b]) : d.op \in {"update", "save", "read"} /\ d.new = NONE
  <2>. SUFFICES ASSUME NEW b \in Board, NEW d \in Elements(inbox[b])
                PROVE  d.op \in {"update", "save", "read"} /\ d.new = NONE
    OBVIOUS
  <2>1. Sound(d)
    BY DEF SentInv, SentBus
  <2>2. PICK k \in 1 .. step : d.op = Program(tool.name)[k]
    BY <2>1 DEF Sound, Commands
  <2>3. k \in 1 .. Len(Program(tool.name))
    BY <1>2, <2>2
  <2>. QED
    BY <1>2, <1>4, <2>1, <2>2, <2>3 DEF Sound
<1>. QED
  BY <1>1, <1>2, <1>3, <1>5, <1>6 DEF Tools

LEMMA CountLoss ==
  ASSUME NEW n \in 0 .. retry_limit + 1
  PROVE  /\ OneMore(n) \in Nat /\ OneMore(n) >= n /\ OneMore(n) >= 1
         /\ n <= retry_limit => OneMore(n) = n + 1
BY Constants DEF OneMore

(* Who is addressed has received the datagram, or it is counted as lost. *)
LEMMA ReceivedOrLost ==
  ASSUME ToolsInv, NEW d, NEW before \in 0 .. retry_limit + 1, Delivers(d, before)
  PROVE  /\ lost' \in Nat /\ lost' >= before
         /\ \A b \in Board \ in_app : config[b].ID \in d.to => d \in Elements(inbox'[b]) \/ lost' = OneMore(before)
<1>1. PICK got \in SUBSET (Board \ in_app) :
           /\ inbox' = [b \in Board |-> IF b \in got THEN Append(inbox[b], d) ELSE inbox[b]]
           /\ lost' = IF \E b \in Board \ (got \cup in_app) : config[b].ID \in d.to THEN OneMore(before) ELSE before
  BY DEF Delivers
<1>2. \A b \in got : d \in Elements(inbox'[b])
  <2>. TAKE b \in got
  <2>1. inbox'[b] = Append(inbox[b], d) /\ inbox[b] \in Seq(Requests(tool))
    BY <1>1, SeqTypes
  <2>. QED
    BY <2>1, ElementsAppend
<1>3. lost' \in {before, OneMore(before)}
      /\ \A b \in Board \ in_app : config[b].ID \in d.to => b \in got \/ lost' = OneMore(before)
  BY <1>1
<1>4. \A n \in {before, OneMore(before)} : n \in Nat /\ n >= before
  BY CountLoss, Constants
<1>. QED
  BY <1>2, <1>3, <1>4

LEMMA LossRun ==
  ASSUME ToolsInv, SentInv, NEW t \in Tool, Run(t)
  PROVE  LossInv'
<1>. SUFFICES ASSUME Lossy' PROVE AwaitedOrLost' /\ GaveUpOnLoss'
  BY DEF LossInv
<1>1. ~Refused(t)
  BY RunIs DEF Lossy, Started
<1>2. /\ outcome' = "none" /\ answers' = NoAnswers /\ retry_count' = 0 /\ destinations' = t.ids
      /\ UNCHANGED <<config, in_app>>
  BY <1>1, RunIs DEF Kept
<1>3. PICK d : d = Request(t, Program(t.name)[1], Elements(t.ids))
  OBVIOUS
<1>4. d.to = Elements(t.ids) /\ Delivers(d, 0)
  BY <1>1, <1>3, RunIs DEF Request
<1>5. Unanswered' \subseteq d.to
  BY <1>2, <1>4 DEF Unanswered, Elements
<1>6. AwaitedOrLost'
  <2>. SUFFICES ASSUME NEW b \in Board \ in_app, config[b].ID \in d.to
                PROVE  lost' > 0 \/ (lost' = 0 /\ OnItsWay(config[b].ID)')
    BY <1>2, <1>5 DEF AwaitedOrLost
  <2>1. 0 \in 0 .. retry_limit + 1
    BY Constants
  <2>2. lost' \in Nat /\ (d \in Elements(inbox'[b]) \/ lost' = OneMore(0)) /\ OneMore(0) >= 1
    BY <1>4, <2>1, ReceivedOrLost, CountLoss
  <2>3. d \in Elements(inbox'[b]) => OnItsWay(config[b].ID)'
    <3>1. (Elements(inbox[b]))' = Elements(inbox'[b])
      BY DEF Elements
    <3>. QED
      BY <1>2, <3>1 DEF OnItsWay
  <2>. QED
    BY <2>2, <2>3
<1>. QED
  BY <1>2, <1>6 DEF GaveUpOnLoss

LEMMA LossClient ==
  ASSUME ToolsInv, SentInv, LossInv, Client
  PROVE  LossInv'
<1>1. UNCHANGED <<tool, config, in_app, punctual, reset>> /\ Running
  BY ClientKeeps
<1>2. Lossy' => Lossy
  BY <1>1 DEF Lossy, Started, Running
<1>. SUFFICES ASSUME Lossy PROVE AwaitedOrLost' /\ GaveUpOnLoss'
  BY <1>2 DEF LossInv
<1>3. AwaitedOrLost
  BY DEF LossInv
<1>4. retry_count \in 0 .. retry_limit /\ lost \in 0 .. retry_limit + 1 /\ retry_limit \in Nat
  BY SeqTypes, Constants
<1>5. punctual
  BY DEF Lossy
<1>6. CASE Exits
  <2>1. UNCHANGED <<answers, lost>> /\ outcome' \in {"done", "IOError", "decode error"}
        /\ (outcome' = "IOError" => Idle /\ ~Complete /\ retry_count = retry_limit)
    BY <1>6 DEF Exits
  <2>2. AwaitedOrLost'
    BY <2>1 DEF AwaitedOrLost, Running
  <2>3. GaveUpOnLoss'
    <3>. SUFFICES ASSUME outcome' = "IOError", Distinct', Present' PROVE lost' > retry_limit
      BY DEF GaveUpOnLoss
    <3>1. Distinct /\ Present
      BY <1>1 DEF Distinct, Present, Elements
    <3>2. Idle /\ ~Complete /\ retry_count = retry_limit
      BY <2>1
    <3>3. \E i \in Elements(tool.ids) : i \notin DOMAIN answers
      <4>1. IsFiniteSet(DOMAIN answers) /\ Cardinality(DOMAIN answers) \in Nat
        BY SeqTypes, Constants, FS_Subset, FS_CardinalityType
      <4>2. ~(Cardinality(DOMAIN answers) >= Cardinality(Elements(tool.ids)))
        BY <3>1, <3>2, LossSent DEF Complete, Distinct
      <4>3. ~(Elements(tool.ids) \subseteq DOMAIN answers)
        <5>. SUFFICES ASSUME Elements(tool.ids) \subseteq DOMAIN answers PROVE FALSE
          OBVIOUS
        <5>1. Cardinality(Elements(tool.ids)) <= Cardinality(DOMAIN answers) /\ IsFiniteSet(Elements(tool.ids))
          BY <4>1, FS_Subset
        <5>2. Cardinality(Elements(tool.ids)) \in Nat
          BY <5>1, FS_CardinalityType
        <5>. QED
          BY <4>1, <4>2, <5>1, <5>2
      <4>. QED
        BY <4>3
    <3>4. PICK i \in Elements(tool.ids) : i \notin DOMAIN answers
      BY <3>3
    <3>5. PICK b \in Board \ in_app : config[b].ID = i
      BY <3>1 DEF Present
    <3>6. i \in Unanswered
      BY <3>4, LossSent DEF Unanswered
    <3>7. ~OnItsWay(i)
      <4>1. rx = <<>> /\ \A c \in Board : inbox[c] = <<>>
        BY <1>5, <3>2 DEF Idle
      <4>2. 1 .. Len(rx) = {} /\ \A c \in Board : Elements(inbox[c]) = {}
        BY <4>1, EmptyLen, ElementsEmpty
      <4>. QED
        BY <4>2 DEF OnItsWay
    <3>8. lost > retry_count
      BY <1>1, <1>3, <3>5, <3>6, <3>7 DEF AwaitedOrLost
    <3>. QED
      BY <2>1, <3>2, <3>8
  <2>. QED
    BY <2>2, <2>3
<1>7. CASE Continues
  <2>1. outcome' = outcome /\ answers' = NoAnswers /\ retry_count' = 0
    BY <1>7 DEF Continues
  <2>2. PICK d : d = Request(tool, Program(tool.name)[2], Elements(destinations'))
    OBVIOUS
  <2>3. d.to = Elements(destinations') /\ Delivers(d, lost)
    BY <1>7, <2>2 DEF Continues, Request
  <2>4. Unanswered' \subseteq d.to
    BY <2>3 DEF Unanswered, Elements
  <2>5. AwaitedOrLost'
    <3>. SUFFICES ASSUME NEW b \in Board \ in_app, config[b].ID \in d.to
                  PROVE  lost' > 0 \/ (lost' = 0 /\ OnItsWay(config[b].ID)')
      BY <1>1, <2>1, <2>4 DEF AwaitedOrLost
    <3>1. lost' \in Nat /\ (d \in Elements(inbox'[b]) \/ lost' = OneMore(lost)) /\ OneMore(lost) >= 1
      BY <1>4, <2>3, ReceivedOrLost, CountLoss
    <3>2. d \in Elements(inbox'[b]) => OnItsWay(config[b].ID)'
      <4>1. (Elements(inbox[b]))' = Elements(inbox'[b])
        BY DEF Elements
      <4>. QED
        BY <1>1, <4>1 DEF OnItsWay
    <3>. QED
      BY <3>1, <3>2
  <2>. QED
    BY <1>1, <2>1, <2>5 DEF GaveUpOnLoss, Running
<1>8. CASE Reads
  <2>1. UNCHANGED <<destinations, retry_count, outcome, inbox, lost>> /\ rx # <<>> /\ rx' = Tail(rx)
    BY <1>8 DEF Reads
  <2>2. DOMAIN answers' = DOMAIN answers \cup {Head(rx).src}
    <3>1. Op # "ping"
      BY LossSent
    <3>. QED
      BY <1>8, <3>1 DEF Reads
  <2>3. Unanswered' \subseteq Unanswered \ {Head(rx).src}
    BY <2>1, <2>2 DEF Unanswered, Elements
  <2>4. \A i : i # Head(rx).src /\ OnItsWay(i) => OnItsWay(i)'
    <3>1. /\ Len(rx) \in Nat \ {0} /\ Len(rx') = Len(rx) - 1 /\ Head(rx) = rx[1]
          /\ \A k \in 1 .. Len(rx') : rx'[k] = rx[k + 1]
      BY <2>1, SeqTypes, HeadTailProperties, ElementsTail
    <3>2. \A k \in 1 .. Len(rx) : k = 1 \/ (k - 1 \in 1 .. Len(rx') /\ rx[k] = rx'[k - 1])
      BY <3>1
    <3>. QED
      BY <1>1, <2>1, <3>1, <3>2 DEF OnItsWay, Elements
  <2>5. AwaitedOrLost'
    BY <1>1, <1>3, <2>1, <2>3, <2>4 DEF AwaitedOrLost, Running
  <2>. QED
    BY <1>1, <2>1, <2>5 DEF GaveUpOnLoss, Running
<1>9. CASE Retries
  <2>1. UNCHANGED <<destinations, answers, outcome, rx>> /\ Idle
        /\ retry_count < retry_limit /\ retry_count' = retry_count + 1
    BY <1>9 DEF Retries
  <2>2. PICK d : d = Request(tool, Op, Unanswered)
    OBVIOUS
  <2>3. d.to = Unanswered /\ Delivers(d, lost)
    BY <1>9, <2>2 DEF Retries, Request
  <2>4. Unanswered' = d.to
    BY <2>1, <2>3 DEF Unanswered, Elements
  <2>5. \A i : ~OnItsWay(i)
    <3>1. rx = <<>> /\ \A c \in Board : inbox[c] = <<>>
      BY <1>5, <2>1 DEF Idle
    <3>2. 1 .. Len(rx) = {} /\ \A c \in Board : Elements(inbox[c]) = {}
      BY <3>1, EmptyLen, ElementsEmpty
    <3>. QED
      BY <3>2 DEF OnItsWay
  <2>6. AwaitedOrLost'
    <3>. SUFFICES ASSUME NEW b \in Board \ in_app, config[b].ID \in d.to
                  PROVE  lost' > retry_count' \/ (lost' = retry_count' /\ OnItsWay(config[b].ID)')
      BY <1>1, <2>4 DEF AwaitedOrLost
    <3>1. lost > retry_count
      BY <1>1, <1>3, <2>3, <2>5 DEF AwaitedOrLost
    <3>2. lost' \in Nat /\ lost' >= lost /\ (d \in Elements(inbox'[b]) \/ lost' = OneMore(lost))
      BY <1>4, <2>3, ReceivedOrLost
    <3>3. d \in Elements(inbox'[b]) => OnItsWay(config[b].ID)'
      <4>1. (Elements(inbox[b]))' = Elements(inbox'[b])
        BY DEF Elements
      <4>. QED
        BY <1>1, <4>1 DEF OnItsWay
    <3>4. OneMore(lost) > retry_count + 1
      BY <1>4, <2>1, <3>1, CountLoss DEF OneMore
    <3>5. lost' >= retry_count'
      BY <1>4, <2>1, <3>1, <3>2
    <3>6. lost' = OneMore(lost) => lost' > retry_count'
      BY <2>1, <3>4
    <3>7. lost' # retry_count' => lost' > retry_count'
      BY <1>4, <2>1, <3>2, <3>5
    <3>. QED
      BY <3>2, <3>3, <3>6, <3>7
  <2>. QED
    BY <1>1, <2>1, <2>6 DEF GaveUpOnLoss, Running
<1>. QED
  BY <1>6, <1>7, <1>8, <1>9, ClientIs

LEMMA LossBoard ==
  ASSUME ToolsInv, SentInv, LossInv, NEW b \in Board, Execute(b) \/ Reset(b)
  PROVE  LossInv'
<1>1. UNCHANGED <<tool, step, destinations, answers, retry_count, outcome, punctual>>
  BY BoardIs DEF BoardKeeps
<1>. SUFFICES ASSUME Lossy' PROVE AwaitedOrLost' /\ GaveUpOnLoss'
  BY DEF LossInv
<1>2. /\ reset = {}
      /\ \/ Ignores(b) \/ Pings(b) \/ Shows(b) \/ Updates(b) \/ Saves(b)
         \/ Head(inbox[b]).op = "jump" /\ inbox[b] # <<>>
  <2>1. reset' = {}
    BY DEF Lossy
  <2>2. CASE Restarts(b)
    <3>1. reset' # reset \cup {b}
      BY <2>1
    <3>. QED
      BY <2>1, <2>2, <3>1 DEF Restarts, Addressed
  <2>3. CASE Ignores(b) \/ Pings(b) \/ Shows(b) \/ Updates(b) \/ Saves(b)
    BY <2>1, <2>3 DEF Ignores, Pings, Shows, Updates, Saves, Executes
  <2>. QED
    BY <2>2, <2>3, BoardIs
<1>3. Lossy
  BY <1>1, <1>2 DEF Lossy, Started
<1>4. AwaitedOrLost /\ GaveUpOnLoss
  BY <1>3 DEF LossInv
<1>5. inbox[b] # <<>> => Head(inbox[b]).op # "jump" /\ Head(inbox[b]).new = NONE
  <2>1. inbox[b] # <<>> => Head(inbox[b]) \in Elements(inbox[b])
    BY SeqTypes, ElementsTail
  <2>. QED
    BY <1>3, <2>1, LossSent
<1>6. Ignores(b) \/ \E op, x : Executes(b, op, x)
  <2>1. Ignores(b) \/ Pings(b) \/ Shows(b) \/ Updates(b) \/ Saves(b)
    BY <1>2, <1>5
  <2>. QED
    BY <2>1 DEF Pings, Shows, Updates, Saves
<1>7. Dequeues(b) /\ in_app' = in_app
  BY <1>6 DEF Ignores, Executes
<1>8. \A c \in Board : config'[c].ID = config[c].ID
  <2>1. config \in [Board -> Config]
    BY SeqTypes
  <2>2. config' = config \/ (config' = [config EXCEPT ![b] = Updated(@, Head(inbox[b]))] /\ inbox[b] # <<>>)
    BY <1>2, <1>5 DEF Ignores, Pings, Shows, Updates, Saves, Executes, Addressed
  <2>. QED
    BY <1>5, <2>1, <2>2 DEF Updated, Config
<1>9. lost' \in Nat /\ lost' >= lost
  <2>1. lost \in 0 .. retry_limit + 1
    BY SeqTypes
  <2>2. lost' = lost \/ lost' = OneMore(lost)
    BY <1>6 DEF Ignores, Executes
  <2>. QED
    BY <2>1, <2>2, CountLoss, Constants
<1>10. \A i : OnItsWay(i) => OnItsWay(i)' \/ lost' = OneMore(lost)
  <2>. SUFFICES ASSUME NEW i, OnItsWay(i), lost' # OneMore(lost) PROVE OnItsWay(i)'
    OBVIOUS
  <2>1. /\ Len(rx) \in Nat
        /\ rx' = rx \/ (Len(rx') = Len(rx) + 1 /\ \A k \in 1 .. Len(rx) : rx'[k] = rx[k])
    BY <1>6, SeqTypes, LenProperties, AnswerAdded DEF Ignores
  <2>2. CASE \E k \in 1 .. Len(rx) : rx[k].src = i
    BY <2>1, <2>2 DEF OnItsWay
  <2>3. CASE \E c \in Board : config[c].ID = i /\ \E d \in Elements(inbox[c]) : i \in d.to
    <3>1. PICK c \in Board : config[c].ID = i /\ \E d \in Elements(inbox[c]) : i \in d.to
      BY <2>3
    <3>2. PICK d \in Elements(inbox[c]) : i \in d.to
      BY <3>1
    <3>3. (Elements(inbox[c]))' = Elements(inbox'[c])
      BY DEF Elements
    <3>4. d \in Elements(inbox'[c]) => OnItsWay(i)'
      BY <1>8, <3>1, <3>2, <3>3 DEF OnItsWay
    <3>5. CASE c # b
      BY <1>7, <3>2, <3>4, <3>5, Dequeued
    <3>6. CASE c = b /\ d # Head(inbox[b])
      <4>1. Elements(inbox[b]) = {Head(inbox[b])} \cup Elements(Tail(inbox[b])) /\ inbox'[b] = Tail(inbox[b])
        BY <1>7, SeqTypes, ElementsTail DEF Dequeues
      <4>. QED
        BY <3>2, <3>4, <3>6, <4>1
    <3>7. CASE c = b /\ d = Head(inbox[b])
      <4>1. Addressed(b)
        BY <1>7, <3>1, <3>2, <3>7 DEF Addressed, Dequeues
      <4>2. PICK op, x : Executes(b, op, x)
        BY <1>6, <4>1 DEF Ignores
      <4>3. Len(rx') = Len(rx) + 1 /\ rx'[Len(rx) + 1].src = i
        <5>1. rx' = Append(rx, [src |-> config'[b].ID, content |-> x])
          BY <4>2 DEF Executes
        <5>2. PICK y : y = [src |-> config'[b].ID, content |-> x]
          OBVIOUS
        <5>3. Len(rx') = Len(rx) + 1 /\ rx'[Len(rx) + 1] = y
          BY <5>1, <5>2, SeqTypes, AppendedSeq
        <5>4. y.src = i
          BY <1>8, <3>1, <3>7, <5>2
        <5>. QED
          BY <5>3, <5>4
      <4>4. Len(rx) + 1 \in 1 .. Len(rx')
        BY <2>1, <4>3
      <4>. QED
        BY <4>3, <4>4 DEF OnItsWay
    <3>. QED
      BY <3>5, <3>6, <3>7
  <2>. QED
    BY <2>2, <2>3 DEF OnItsWay
<1>11. AwaitedOrLost'
  <2>. SUFFICES ASSUME Running', NEW c \in Board \ in_app', config'[c].ID \in Unanswered'
                PROVE  lost' > retry_count' \/ (lost' = retry_count' /\ OnItsWay(config[c].ID)')
    BY DEF AwaitedOrLost
  <2>1. Running /\ c \in Board \ in_app /\ config[c].ID \in Unanswered /\ config'[c].ID = config[c].ID
    BY <1>1, <1>7, <1>8 DEF Running, Unanswered, Elements
  <2>2. lost > retry_count \/ (lost = retry_count /\ OnItsWay(config[c].ID))
    BY <1>4, <2>1 DEF AwaitedOrLost
  <2>3. retry_count \in 0 .. retry_limit /\ lost \in 0 .. retry_limit + 1 /\ retry_limit \in Nat /\ retry_count' = retry_count
    BY <1>1, SeqTypes, Constants
  <2>4. lost = retry_count => OneMore(lost) > retry_count
    BY <2>3, CountLoss
  <2>5. lost > retry_count => lost' > retry_count'
    BY <1>9, <2>3
  <2>6. lost' = OneMore(lost) /\ lost = retry_count => lost' > retry_count'
    BY <2>3, <2>4
  <2>7. lost' > retry_count' \/ lost' = retry_count' \/ lost > lost' \/ lost < retry_count
    BY <1>9, <2>3
  <2>8. ~(lost > lost') /\ (lost = retry_count => ~(lost < retry_count))
    BY <1>9, <2>3
  <2>. QED
    BY <1>10, <2>1, <2>2, <2>5, <2>6, <2>7, <2>8
<1>12. GaveUpOnLoss'
  <2>1. Distinct' = Distinct
    BY <1>1 DEF Distinct, Elements
  <2>2. Present' => Present
    BY <1>1, <1>7, <1>8 DEF Present, Elements
  <2>3. lost > retry_limit => lost' > retry_limit
    BY <1>9, SeqTypes, Constants
  <2>. QED
    BY <1>1, <1>4, <2>1, <2>2, <2>3 DEF GaveUpOnLoss
<1>. QED
  BY <1>11, <1>12

LEMMA LossStep ==
  ASSUME ToolsInv, SentInv, LossInv, [Next]_vars
  PROVE  LossInv'
<1>1. CASE UNCHANGED vars
  <2>1. UNCHANGED <<tool, destinations, answers, retry_count, outcome, rx, inbox, config, in_app, punctual, lost, reset>>
    BY <1>1 DEF vars, client, board
  <2>2. Lossy' = Lossy /\ Distinct' = Distinct /\ Present' = Present /\ Unanswered' = Unanswered
        /\ \A i : OnItsWay(i)' = OnItsWay(i)
    BY <2>1 DEF Lossy, Started, Distinct, Present, Unanswered, OnItsWay, Elements
  <2>. QED
    BY <2>1, <2>2 DEF LossInv, AwaitedOrLost, GaveUpOnLoss, Running
<1>. QED
  BY <1>1, LossRun, LossClient, LossBoard DEF Next

-----------------------------------------------------------------------------
(* read_config *)

(* What a tool reads are configurations, once the scan is over. *)
Reading == Started /\ tool.name \in {"read_config", "read_config_all"} /\ punctual /\ reset = {}
ReadOf(b) == [src |-> config[b].ID, content |-> Says("config", config[b])]
AskedToRead == \A b \in Board : \A d \in Elements(inbox[b]) : d.op = "read"
ReadsReceived == \A k \in 1 .. Len(rx) : \E b \in Board \ in_app : rx[k] = ReadOf(b)
ReadsKept == \A i \in DOMAIN answers : \E b \in Board \ in_app : ReadOf(b) = [src |-> i, content |-> answers[i]]
ReadInv == Reading /\ Op = "read" => AskedToRead /\ ReadsReceived /\ ReadsKept

(* A scan without losses: every board hears one ping, and is counted when it
   has executed it.                                                         *)
Scanning == Reading /\ tool.name = "read_config_all" /\ lost = 0
AskedOnce == \A b \in Board : Len(inbox[b]) <= 1 /\ \A d \in Elements(inbox[b]) : d.op = "ping" /\ d.to = ID
Heard == {b \in Board \ in_app : Op = "ping" => inbox[b] = <<>>}
Counted == Len(scan_queue) + (IF Op = "ping" THEN Len(rx) ELSE 0) = Cardinality(Heard)
ScanInv == Scanning => (Op = "ping" => AskedOnce) /\ (Op = "read" \/ Running => Counted)

LEMMA ReadProgram ==
  ASSUME NEW name \in {"read_config", "read_config_all"}
  PROVE  /\ \A k \in 1 .. Len(Program(name)) : Program(name)[k] \in {"ping", "read"}
         /\ \A k \in 1 .. Len(Program(name)) : Program(name)[k] = "ping" <=> name = "read_config_all" /\ k = 1
         /\ Len(Program(name)) \in 1 .. 2
<1>1. \A n \in 1 .. 2 : \A k \in 1 .. n : k = 1 \/ (k = 2 /\ n # 1)
  OBVIOUS
<1>2. name \in Names /\ Len(Program(name)) \in 1 .. 2
  BY ProgramSteps DEF Names
<1>3. \A k \in 1 .. Len(Program(name)) : k = 1 \/ (k = 2 /\ Len(Program(name)) # 1)
  BY <1>1, <1>2, Zenon
<1>4. CASE name = "read_config"
  BY <1>2, <1>3, <1>4, Programs, Zenon
<1>5. CASE name = "read_config_all"
  <2>1. "ping" # "read"
    OBVIOUS
  <2>. QED
    BY <1>2, <1>3, <1>5, <2>1, Programs
<1>. QED
  BY <1>4, <1>5

LEMMA ReadSent ==
  ASSUME ToolsInv, SentInv, Reading
  PROVE  /\ step \in 1 .. Len(Program(tool.name)) /\ tool.new = NONE
         /\ Op \in {"ping", "read"} /\ (Op = "ping" <=> tool.name = "read_config_all" /\ step = 1)
         /\ tool.name = "read_config_all" => To(tool, "ping") = AllIDs
         /\ \A b \in Board : \A d \in Elements(inbox[b]) :
              Sound(d) /\ d.op \in {"ping", "read"} /\ (Op = "ping" => d.op = "ping")
<1>1. tool.name \in {"read_config", "read_config_all"} /\ Started
  BY DEF Reading
<1>2. step \in 1 .. Len(Program(tool.name)) /\ tool.new = NONE
  BY <1>1 DEF SentInv, SentCall, SentTool
<1>3. Op \in {"ping", "read"} /\ (Op = "ping" <=> tool.name = "read_config_all" /\ step = 1)
  BY <1>1, <1>2, ReadProgram DEF Op
<1>4. tool.name = "read_config_all" => To(tool, "ping") = AllIDs
  BY DEF To, SentInv, SentTool
<1>5. ASSUME NEW b \in Board, NEW d \in Elements(inbox[b])
      PROVE  Sound(d) /\ d.op \in {"ping", "read"} /\ (Op = "ping" => d.op = "ping")
  <2>1. Sound(d)
    BY DEF SentInv, SentBus
  <2>2. PICK k \in 1 .. step : d.op = Program(tool.name)[k]
    BY <2>1 DEF Sound, Commands
  <2>3. step \in 1 .. 2
    BY SeqTypes
  <2>4. k \in 1 .. Len(Program(tool.name)) /\ (step = 1 => k = 1)
    <3>1. Len(Program(tool.name)) \in 1 .. 2
      BY <1>1, ReadProgram
    <3>. QED
      BY <1>2, <2>2, <2>3, <3>1
  <2>. QED
    BY <1>1, <1>3, <2>1, <2>2, <2>4, ReadProgram
<1>. QED
  BY <1>2, <1>3, <1>4, <1>5

LEMMA ReadRun ==
  ASSUME ToolsInv, SentInv, NEW t \in Tool, Run(t)
  PROVE  ReadInv'
<1>. SUFFICES ASSUME Reading', Op' = "read" PROVE AskedToRead' /\ ReadsReceived' /\ ReadsKept'
  BY DEF ReadInv
<1>1. ~Refused(t)
  BY RunIs DEF Reading, Started
<1>2. tool' = t /\ step' = 1 /\ rx' = <<>> /\ answers' = NoAnswers /\ inbox = [b \in Board |-> <<>>]
  BY <1>1, RunIs
<1>3. PICK d : d = Request(t, Program(t.name)[1], Elements(t.ids))
  OBVIOUS
<1>4. Delivers(d, 0) /\ d.op = "read"
  BY <1>1, <1>2, <1>3, RunIs DEF Request, Op
<1>5. AskedToRead'
  <2>1. \A b \in Board : Elements(inbox'[b]) \subseteq {d}
    <3>1. \A b \in Board : Elements(inbox[b]) = {}
      BY <1>2, ElementsEmpty
    <3>. QED
      BY <1>4, <3>1, SeqTypes, DeliveredElements
  <2>. QED
    BY <1>4, <2>1 DEF AskedToRead, Elements
<1>. QED
  BY <1>2, <1>5, EmptyLen DEF ReadsReceived, ReadsKept, NoAnswers

LEMMA ReadClient ==
  ASSUME ToolsInv, SentInv, ReadInv, Client
  PROVE  ReadInv'
<1>1. UNCHANGED <<tool, config, in_app, punctual, reset>> /\ Running
  BY ClientKeeps
<1>2. Reading' => Reading
  BY <1>1 DEF Reading, Started, Running
<1>. SUFFICES ASSUME Reading, Op' = "read" PROVE AskedToRead' /\ ReadsReceived' /\ ReadsKept'
  BY <1>2 DEF ReadInv
<1>3. \A b : ReadOf(b)' = ReadOf(b)
  BY <1>1 DEF ReadOf
<1>4. Op = "read" => AskedToRead /\ ReadsReceived /\ ReadsKept
  BY DEF ReadInv
<1>5. CASE Exits
  <2>1. UNCHANGED <<step, answers, inbox>> /\ rx' = <<>>
    BY <1>5 DEF Exits
  <2>2. Op = "read"
    BY <1>1, <2>1 DEF Op
  <2>. QED
    BY <1>1, <1>3, <1>4, <2>1, <2>2, EmptyLen DEF AskedToRead, ReadsReceived, ReadsKept, Elements
<1>6. CASE Continues
  <2>1. answers' = NoAnswers /\ rx' = rx /\ Idle
    BY <1>6 DEF Continues, Reading
  <2>2. rx = <<>> /\ \A b \in Board : inbox[b] = <<>>
    BY <2>1 DEF Idle, Reading
  <2>3. PICK d : d = Request(tool, Program(tool.name)[2], Elements(destinations'))
    OBVIOUS
  <2>4. Delivers(d, lost) /\ d.op = "read"
    BY <1>1, <1>6, <2>3 DEF Continues, Request, Op
  <2>5. AskedToRead'
    <3>1. \A b \in Board : Elements(inbox[b]) = {}
      BY <2>2, ElementsEmpty
    <3>2. \A b \in Board : Elements(inbox'[b]) \subseteq {d}
      BY <2>4, <3>1, SeqTypes, DeliveredElements
    <3>. QED
      BY <2>4, <3>2 DEF AskedToRead, Elements
  <2>. QED
    BY <2>1, <2>2, <2>5, EmptyLen DEF ReadsReceived, ReadsKept, NoAnswers
<1>7. CASE Reads
  <2>1. UNCHANGED <<step, inbox>> /\ rx # <<>> /\ rx' = Tail(rx)
    BY <1>7 DEF Reads
  <2>2. Op = "read"
    BY <1>1, <2>1 DEF Op
  <2>3. answers' = [i \in DOMAIN answers \cup {Head(rx).src} |->
                         IF i = Head(rx).src THEN Head(rx).content ELSE answers[i]]
    BY <1>7, <2>2 DEF Reads
  <2>4. /\ 1 \in 1 .. Len(rx) /\ Head(rx) = rx[1]
        /\ \A k \in 1 .. Len(rx') : k + 1 \in 1 .. Len(rx) /\ rx'[k] = rx[k + 1]
    <3>1. /\ Len(rx) \in Nat \ {0} /\ Len(rx') = Len(rx) - 1 /\ Head(rx) = rx[1]
          /\ \A k \in 1 .. Len(rx') : rx'[k] = rx[k + 1]
      BY <2>1, SeqTypes, HeadTailProperties, ElementsTail
    <3>. QED
      BY <3>1
  <2>5. AskedToRead' /\ ReadsReceived'
    BY <1>1, <1>3, <1>4, <2>1, <2>2, <2>4 DEF AskedToRead, ReadsReceived, Elements
  <2>6. ReadsKept'
    <3>. SUFFICES ASSUME NEW i \in DOMAIN answers'
                  PROVE  \E b \in Board \ in_app : ReadOf(b) = [src |-> i, content |-> answers'[i]]
      BY <1>1, <1>3 DEF ReadsKept
    <3>1. CASE i = Head(rx).src
      <4>1. PICK b \in Board \ in_app : Head(rx) = ReadOf(b)
        BY <1>4, <2>2, <2>4 DEF ReadsReceived
      <4>2. answers'[i] = Head(rx).content
        BY <2>3, <3>1
      <4>3. ReadOf(b) = [src |-> Head(rx).src, content |-> Head(rx).content]
        BY <4>1 DEF ReadOf
      <4>. QED
        BY <3>1, <4>2, <4>3
    <3>2. CASE i # Head(rx).src
      <4>1. i \in DOMAIN answers /\ answers'[i] = answers[i]
        BY <2>3, <3>2
      <4>. QED
        BY <1>4, <2>2, <4>1 DEF ReadsKept
    <3>. QED
      BY <3>1, <3>2
  <2>. QED
    BY <2>5, <2>6
<1>8. CASE Retries
  <2>1. UNCHANGED <<step, answers, rx>>
    BY <1>8 DEF Retries
  <2>2. Op = "read"
    BY <1>1, <2>1 DEF Op
  <2>3. PICK d : d = Request(tool, Op, Unanswered)
    OBVIOUS
  <2>4. Delivers(d, lost) /\ d.op = "read"
    BY <1>8, <2>2, <2>3 DEF Retries, Request
  <2>5. AskedToRead'
    <3>1. \A b \in Board : Elements(inbox'[b]) \subseteq Elements(inbox[b]) \cup {d}
      BY <2>4, SeqTypes, DeliveredElements
    <3>. QED
      BY <1>4, <2>2, <2>4, <3>1 DEF AskedToRead, Elements
  <2>. QED
    BY <1>1, <1>3, <1>4, <2>1, <2>2, <2>5 DEF ReadsReceived, ReadsKept
<1>. QED
  BY <1>5, <1>6, <1>7, <1>8, ClientIs

(* Boards only execute pings and reads, or are reset. *)
LEMMA ReadHeads ==
  ASSUME ToolsInv, SentInv, Reading', NEW b \in Board, Execute(b) \/ Reset(b)
  PROVE  /\ Reading /\ UNCHANGED <<config, in_app>> /\ b \notin in_app
         /\ Dequeues(b) /\ Head(inbox[b]) \in Elements(inbox[b])
         /\ \/ Ignores(b)
            \/ Pings(b) /\ Head(inbox[b]).op = "ping"
            \/ Shows(b) /\ Head(inbox[b]).op = "read"
<1>1. UNCHANGED <<tool, outcome, punctual>>
  BY BoardIs DEF BoardKeeps
<1>2. reset = {} /\ ~(reset' = reset \cup {b})
  <2>1. reset' = {}
    BY DEF Reading
  <2>2. ~(reset' = reset \cup {b})
    BY <2>1
  <2>3. reset' = reset \/ reset' = reset \cup {b}
    BY BoardIs DEF Ignores, Pings, Shows, Updates, Saves, Executes, Restarts
  <2>. QED
    BY <2>1, <2>2, <2>3
<1>3. Reading
  BY <1>1, <1>2 DEF Reading, Started
<1>4. inbox[b] # <<>> => Head(inbox[b]) \in Elements(inbox[b]) /\ Head(inbox[b]).op \in {"ping", "read"}
  <2>1. inbox[b] # <<>> => Head(inbox[b]) \in Elements(inbox[b])
    BY SeqTypes, ElementsTail
  <2>. QED
    BY <1>3, <2>1, ReadSent
<1>5. CASE Updates(b) \/ Saves(b)
  BY <1>4, <1>5 DEF Updates, Saves, Executes, Dequeues
<1>6. CASE Restarts(b)
  BY <1>2, <1>4, <1>6 DEF Restarts, Addressed
<1>7. Ignores(b) \/ Pings(b) \/ Shows(b)
  BY <1>5, <1>6, BoardIs
<1>8. Dequeues(b) /\ UNCHANGED <<config, in_app>>
  BY <1>7 DEF Ignores, Pings, Shows, Executes
<1>9. b \notin in_app
  BY <1>8 DEF Dequeues, SentInv, SentBus
<1>. QED
  BY <1>3, <1>4, <1>7, <1>8, <1>9 DEF Dequeues, Pings, Shows, Executes

LEMMA ReadBoard ==
  ASSUME ToolsInv, SentInv, ReadInv, NEW b \in Board, Execute(b) \/ Reset(b)
  PROVE  ReadInv'
<1>1. UNCHANGED <<tool, step, answers>> /\ Op' = Op
  BY BoardIs DEF BoardKeeps, Op
<1>. SUFFICES ASSUME Reading', Op = "read" PROVE AskedToRead' /\ ReadsReceived' /\ ReadsKept'
  BY <1>1 DEF ReadInv
<1>2. AskedToRead /\ ReadsReceived /\ ReadsKept
  BY ReadHeads DEF ReadInv
<1>3. /\ UNCHANGED <<config, in_app>> /\ b \notin in_app
      /\ Ignores(b) \/ (Executes(b, "read", Says("config", config[b])))
  BY <1>2, ReadHeads DEF AskedToRead, Shows
<1>4. \A c : ReadOf(c)' = ReadOf(c)
  BY <1>3 DEF ReadOf
<1>5. AskedToRead' /\ ReadsKept'
  BY <1>1, <1>2, <1>3, <1>4, BoardElements DEF AskedToRead, ReadsKept, Elements
<1>6. ReadsReceived'
  <2>1. CASE rx' = rx
    BY <1>2, <1>3, <1>4, <2>1 DEF ReadsReceived
  <2>2. CASE rx' # rx
    <3>1. Executes(b, "read", Says("config", config[b]))
      BY <1>3, <2>2 DEF Ignores
    <3>2. PICK x : x = [src |-> config'[b].ID, content |-> Says("config", config[b])]
      OBVIOUS
    <3>3. /\ Len(rx) \in Nat /\ Len(rx') = Len(rx) + 1 /\ \A k \in 1 .. Len(rx) : rx'[k] = rx[k]
          /\ rx'[Len(rx) + 1] = x
      BY <2>2, <3>1, <3>2, AnswerAdded
    <3>4. x = ReadOf(b)
      BY <1>3, <3>2 DEF ReadOf
    <3>5. \A k \in 1 .. Len(rx') : k \in 1 .. Len(rx) \/ k = Len(rx) + 1
      BY <3>3
    <3>. QED
      BY <1>2, <1>3, <1>4, <3>3, <3>4, <3>5 DEF ReadsReceived
  <2>. QED
    BY <2>1, <2>2
<1>. QED
  BY <1>5, <1>6

LEMMA ReadsStep ==
  ASSUME ToolsInv, SentInv, ReadInv, [Next]_vars
  PROVE  ReadInv'
<1>1. CASE UNCHANGED vars
  <2>1. UNCHANGED <<tool, step, answers, outcome, rx, inbox, config, in_app, punctual, reset>>
    BY <1>1 DEF vars, client, board
  <2>2. Reading' = Reading /\ Op' = Op
    BY <2>1 DEF Reading, Started, Op
  <2>. QED
    BY <2>1, <2>2 DEF ReadInv, AskedToRead, ReadsReceived, ReadsKept, ReadOf, Elements
<1>. QED
  BY <1>1, ReadRun, ReadClient, ReadBoard DEF Next

LEMMA AllIDsElements == Elements(AllIDs) = ID
<1>. DEFINE n == Cardinality(ID)
<1>1. n \in Nat /\ Bijection(1 .. n, ID) # {}
  BY Constants, FS_CardinalityType DEF ExistsBijection
<1>2. PICK f \in Bijection(1 .. n, ID) : TRUE
  BY <1>1
<1>3. f \in [1 .. n -> ID] /\ \A i \in ID : \E k \in 1 .. n : f[k] = i
  BY <1>2 DEF Bijection, Injection, Surjection
<1>4. Len(f) = n /\ Elements(f) = ID
  BY <1>1, <1>3 DEF Elements
<1>. QED
  BY <1>3, <1>4 DEF AllIDs

LEMMA HeardFinite == IsFiniteSet(Heard) /\ Cardinality(Heard) \in Nat
<1>1. Heard \in SUBSET Board /\ IsFiniteSet(Board)
  BY ToolsAssumption DEF Heard
<1>. QED
  BY <1>1, FS_Subset, FS_CardinalityType

LEMMA ScanRun ==
  ASSUME ToolsInv, SentInv, NEW t \in Tool, Run(t)
  PROVE  ScanInv'
<1>. SUFFICES ASSUME Scanning' PROVE AskedOnce' /\ (Op' = "read" \/ Running' => Counted')
  BY DEF ScanInv
<1>1. ~Refused(t)
  BY RunIs DEF Scanning, Reading, Started
<1>2. tool' = t /\ rx' = <<>> /\ scan_queue' = <<>> /\ inbox = [b \in Board |-> <<>>]
      /\ t.name = "read_config_all" /\ t.ids = AllIDs /\ UNCHANGED <<config, in_app>> /\ lost' = 0
  BY <1>1, RunIs DEF Kept, Scanning
<1>3. step' = 1
  BY <1>1, RunIs
<1>4. Op' = "ping" /\ Program(t.name)[1] = "ping"
  BY <1>2, <1>3, Programs DEF Op
<1>5. PICK d : d = Request(t, Program(t.name)[1], Elements(t.ids))
  OBVIOUS
<1>6. Delivers(d, 0) /\ d.op = "ping" /\ d.to = ID
  BY <1>1, <1>2, <1>4, <1>5, RunIs, AllIDsElements DEF Request
<1>7. ASSUME NEW b \in Board
      PROVE  Len(inbox'[b]) <= 1 /\ Elements(inbox'[b]) \subseteq {d}
  <2>1. inbox[b] = <<>> /\ Elements(inbox[b]) = {}
    BY <1>2, ElementsEmpty
  <2>2. Len(inbox[b]) = 0
    BY <2>1
  <2>3. Len(inbox'[b]) <= 1
    BY <1>6, <2>2, DeliveredInbox
  <2>. QED
    BY <1>6, <2>1, <2>3, SeqTypes, DeliveredElements
<1>8. AskedOnce'
  BY <1>6, <1>7 DEF AskedOnce, Elements
<1>9. \A b \in Board \ in_app : inbox'[b] # <<>>
  <2>. TAKE b \in Board \ in_app
  <2>1. config[b].ID \in ID
    BY SeqTypes DEF Config
  <2>2. 0 \in 0 .. retry_limit + 1
    BY Constants
  <2>3. OneMore(0) # 0
    BY <2>2, CountLoss
  <2>4. d \in Elements(inbox'[b])
    BY <1>2, <1>6, <2>1, <2>2, <2>3, ReceivedOrLost
  <2>. QED
    BY <2>4, ElementsEmpty
<1>10. Heard' = {}
  BY <1>2, <1>4, <1>9 DEF Heard
<1>11. Cardinality(Heard') = 0 /\ Len(scan_queue') = 0 /\ Len(rx') = 0
  BY <1>2, <1>10, FS_EmptySet, EmptyLen
<1>. QED
  BY <1>4, <1>8, <1>11 DEF Counted

LEMMA ScanClient ==
  ASSUME ToolsInv, SentInv, ScanInv, Client
  PROVE  ScanInv'
<1>1. UNCHANGED <<tool, config, in_app, punctual, reset>> /\ Running
  BY ClientKeeps
<1>2. Reading' => Reading
  BY <1>1 DEF Reading, Started, Running
<1>3. scan_queue \in Seq(ID) /\ rx \in Seq(Replies) /\ Len(scan_queue) \in Nat /\ Len(rx) \in Nat
      /\ lost \in 0 .. retry_limit + 1
  BY SeqTypes, LenProperties
<1>4. CASE Exits
  <2>1. UNCHANGED <<scan_queue, step, inbox, lost>> /\ outcome' # "none"
    BY <1>4 DEF Exits
  <2>2. Op' = Op /\ Heard' = Heard /\ (Scanning' => Scanning) /\ ~Running'
    BY <1>1, <1>2, <2>1 DEF Op, Heard, Scanning, Running
  <2>3. Op = "read" /\ Counted => Counted'
    BY <2>1, <2>2 DEF Counted
  <2>4. AskedOnce' = AskedOnce
    BY <2>1 DEF AskedOnce, Elements
  <2>. QED
    BY <2>2, <2>3, <2>4 DEF ScanInv
<1>5. CASE Continues
  <2>. SUFFICES ASSUME Scanning' PROVE (Op' = "ping" => AskedOnce') /\ Counted'
    BY DEF ScanInv
  <2>1. UNCHANGED <<scan_queue, rx>> /\ Op = "ping" /\ Idle /\ tool.name = "read_config_all"
    BY <1>1, <1>5 DEF Continues, Scanning
  <2>2. step' = 2
    BY <1>5 DEF Continues
  <2>3. Op' = "read"
    BY <1>1, <2>1, <2>2, Programs DEF Op
  <2>4. PICK d : d = Request(tool, Program(tool.name)[2], Elements(destinations'))
    OBVIOUS
  <2>5. Delivers(d, lost) /\ lost' = 0
    BY <1>5, <2>4 DEF Continues, Scanning
  <2>6. lost = 0
    BY <1>3, <2>5, ReceivedOrLost
  <2>7. Counted /\ rx = <<>> /\ \A b \in Board : inbox[b] = <<>>
    BY <1>1, <1>2, <2>1, <2>6 DEF ScanInv, Scanning, Idle, Reading
  <2>8. Heard' = Board \ in_app /\ Heard = Board \ in_app
    <3>1. Op' # "ping"
      BY <2>3
    <3>. QED
      BY <1>1, <2>7, <3>1 DEF Heard
  <2>9. Len(rx) = 0
    BY <2>7, EmptyLen
  <2>10. Len(scan_queue) + Len(rx) = Cardinality(Heard)
    BY <2>1, <2>7 DEF Counted
  <2>11. Len(scan_queue) + 0 = Cardinality(Heard)
    BY <2>9, <2>10
  <2>12. Op' # "ping"
    BY <2>3
  <2>. QED
    BY <2>1, <2>8, <2>11, <2>12 DEF Counted
<1>6. CASE Reads
  <2>1. UNCHANGED <<step, outcome, inbox, lost>> /\ rx # <<>> /\ rx' = Tail(rx)
        /\ IF Op = "ping" THEN scan_queue' = Append(scan_queue, Head(rx).src) ELSE scan_queue' = scan_queue
    BY <1>6 DEF Reads
  <2>o. Op' = Op
    BY <1>1, <2>1 DEF Op
  <2>h. Heard' = Heard /\ AskedOnce' = AskedOnce
    BY <1>1, <2>1, <2>o DEF Heard, AskedOnce, Elements
  <2>2. Op' = Op /\ Heard' = Heard /\ AskedOnce' = AskedOnce /\ Running' = Running /\ (Scanning' => Scanning)
    BY <1>1, <1>2, <2>1, <2>o, <2>h DEF Running, Scanning
  <2>3. Counted => Counted'
    <3>1. Len(rx) \in Nat \ {0} /\ Len(rx') = Len(rx) - 1
      BY <1>3, <2>1, ElementsTail, HeadTailProperties
    <3>2. CASE Op = "ping"
      <4>1. Len(scan_queue') = Len(scan_queue) + 1
        BY <1>3, <2>1, <3>2, AppendedSeq
      <4>. QED
        BY <1>3, <2>2, <3>1, <3>2, <4>1 DEF Counted
    <3>3. CASE Op # "ping"
      BY <2>1, <2>2, <3>3 DEF Counted
    <3>. QED
      BY <3>2, <3>3
  <2>. QED
    BY <2>2, <2>3 DEF ScanInv
<1>7. CASE Retries
  <2>. SUFFICES ASSUME Scanning' PROVE (Op' = "ping" => AskedOnce') /\ Counted'
    BY DEF ScanInv
  <2>1. UNCHANGED <<scan_queue, step, outcome>> /\ Op # "ping"
    BY <1>7 DEF Retries
  <2>2. Op' = Op /\ Heard' = Heard
    BY <1>1, <2>1 DEF Op, Heard
  <2>3. PICK d : d = Request(tool, Op, Unanswered)
    OBVIOUS
  <2>4. Delivers(d, lost) /\ lost' = 0
    BY <1>7, <2>3 DEF Retries, Scanning
  <2>5. lost = 0
    BY <1>3, <2>4, ReceivedOrLost
  <2>6. Counted
    BY <1>1, <1>2, <2>5 DEF ScanInv, Scanning
  <2>. QED
    BY <2>1, <2>2, <2>6 DEF Counted
<1>. QED
  BY <1>4, <1>5, <1>6, <1>7, ClientIs

LEMMA LastOne == \A m, n : n \in Nat \ {0} /\ n <= 1 /\ m = n - 1 => m = 0
OBVIOUS

LEMMA ScanBoard ==
  ASSUME ToolsInv, SentInv, ScanInv, NEW b \in Board, Execute(b) \/ Reset(b)
  PROVE  ScanInv'
<1>1. UNCHANGED <<tool, step, scan_queue, outcome>> /\ Op' = Op /\ Running' = Running
  BY BoardIs DEF BoardKeeps, Op, Running
<1>. SUFFICES ASSUME Scanning' PROVE (Op = "ping" => AskedOnce') /\ (Op = "read" \/ Running => Counted')
  BY <1>1 DEF ScanInv
<1>2. Reading' /\ lost' = 0 /\ lost \in 0 .. retry_limit + 1 /\ tool.name = "read_config_all"
  BY <1>1, SeqTypes DEF Scanning
<1>3. /\ Reading /\ UNCHANGED <<config, in_app>> /\ b \notin in_app /\ Dequeues(b)
      /\ Head(inbox[b]) \in Elements(inbox[b])
      /\ Ignores(b) \/ Pings(b) \/ (Shows(b) /\ Head(inbox[b]).op = "read")
  BY <1>2, ReadHeads
<1>4. lost = 0 /\ lost' # OneMore(lost)
  <2>1. lost' = lost \/ lost' = OneMore(lost)
    BY <1>3 DEF Ignores, Pings, Shows, Executes
  <2>2. lost' = 0 /\ lost \in 0 .. retry_limit + 1
    BY <1>2
  <2>3. OneMore(lost) >= 1 /\ OneMore(lost) \in Nat
    BY <2>2, CountLoss
  <2>. QED
    BY <2>1, <2>2, <2>3
<1>5. (Op = "ping" => AskedOnce) /\ (Op = "read" \/ Running => Counted)
  BY <1>2, <1>3, <1>4 DEF ScanInv, Scanning
<1>6. CASE Op = "read"
  <2>1. Heard' = Heard /\ Op # "ping"
    BY <1>1, <1>3, <1>6 DEF Heard
  <2>. QED
    BY <1>1, <1>5, <1>6, <2>1 DEF Counted
<1>7. CASE Op = "ping"
  <2>1. /\ Len(inbox[b]) \in Nat \ {0} /\ Len(inbox'[b]) = Len(inbox[b]) - 1 /\ inbox'[b] \in Seq(Requests(tool))
        /\ inbox[b] # <<>> /\ \A c \in Board \ {b} : inbox'[c] = inbox[c]
    BY <1>3, SeqTypes, Dequeued, HeadTailProperties DEF Dequeues
  <2>2. Head(inbox[b]).op = "ping" /\ Head(inbox[b]).to = ID /\ Len(inbox[b]) <= 1
    BY <1>3, <1>5, <1>7 DEF AskedOnce
  <2>3. Addressed(b)
    BY <2>1, <2>2, SeqTypes DEF Addressed, Config
  <2>4. Pings(b)
    BY <1>3, <2>2, <2>3 DEF Ignores
  <2>5. inbox'[b] = <<>>
    <3>1. Len(inbox[b]) <= 1
      BY <2>2
    <3>2. Len(inbox[b]) \in Nat \ {0} /\ Len(inbox'[b]) = Len(inbox[b]) - 1
      BY <2>1
    <3>3. Len(inbox'[b]) = 0
      BY <3>1, <3>2, LastOne
    <3>. QED
      BY <2>1, <3>3, EmptySeq
  <2>6. AskedOnce'
    <3>1. \A c \in Board : Elements(inbox'[c]) \subseteq Elements(inbox[c])
      BY BoardElements
    <3>2. \A c \in Board : Len(inbox'[c]) <= 1
      BY <1>5, <1>7, <2>1, <2>2 DEF AskedOnce
    <3>. QED
      BY <1>5, <1>7, <3>1, <3>2 DEF AskedOnce, Elements
  <2>7. Heard' = Heard \cup {b} /\ b \notin Heard
    BY <1>1, <1>3, <1>7, <2>1, <2>5 DEF Heard
  <2>8. Cardinality(Heard') = Cardinality(Heard) + 1
    BY <2>7, HeardFinite, FS_AddElement
  <2>9. Len(rx) \in Nat /\ Len(rx') = Len(rx) + 1
    BY <1>4, <2>4, AnswerAdded DEF Pings
  <2>10. Len(scan_queue) \in Nat
    BY SeqTypes, LenProperties
  <2>11. Counted => Counted'
    BY <1>1, <1>7, <2>8, <2>9, <2>10, HeardFinite DEF Counted
  <2>. QED
    BY <1>5, <1>7, <2>6, <2>11
<1>. QED
  BY <1>3, <1>6, <1>7, ReadSent

LEMMA ScanStep ==
  ASSUME ToolsInv, SentInv, ScanInv, [Next]_vars
  PROVE  ScanInv'
<1>1. CASE UNCHANGED vars
  <2>1. UNCHANGED <<tool, step, scan_queue, outcome, rx, inbox, in_app, punctual, lost, reset>>
    BY <1>1 DEF vars, client, board
  <2>2. Scanning' = Scanning /\ Op' = Op
    BY <2>1 DEF Scanning, Reading, Started, Op
  <2>. QED
    BY <2>1, <2>2 DEF ScanInv, AskedOnce, Counted, Heard, Running, Elements
<1>. QED
  BY <1>1, ScanRun, ScanClient, ScanBoard DEF Next

-----------------------------------------------------------------------------
CallInv == SentInv /\ ChangeInv /\ OneInv /\ WriteInv /\ LossInv /\ ReadInv /\ ScanInv

LEMMA CallInit == Init => CallInv
<1>. SUFFICES ASSUME Init PROVE CallInv
  OBVIOUS
<1>1. tool.name = "none" /\ tool.name \notin Names /\ rx = <<>> /\ in_app = {}
      /\ \A b \in Board : Elements(inbox[b]) = {}
  BY ElementsEmpty DEF Init, Names
<1>2. ~Started
  BY <1>1 DEF Started
<1>3. SentInv
  BY <1>1, <1>2 DEF SentInv, SentCall, SentTool, SentBus
<1>4. ~Changing /\ ~Writing /\ ~Lossy /\ ~Reading /\ ~Scanning
  BY <1>1, <1>2 DEF Changing, Writing, Lossy, Reading, Scanning
<1>. QED
  BY <1>3, <1>4 DEF CallInv, ChangeInv, OneInv, WriteInv, LossInv, ReadInv, ScanInv

(* A tool that returns got as many answers as its last command has addressees. *)
LEMMA Returned ==
  ASSUME ToolsInv, SentInv, outcome = "done", tool.name \in Names \ {"run_application"}
  PROVE  Started /\ Complete /\ (tool.name # "read_config" => step = 2)
<1>1. Started
  BY DEF Started
<1>2. step = Len(Program(tool.name)) /\ (Op # "jump" => Complete)
  BY <1>1 DEF SentInv, SentCall
<1>3. tool.name # "read_config" => Len(Program(tool.name)) = 2
  BY Programs DEF Names
<1>4. step \in 1 .. 2 /\ step \in 1 .. Len(Program(tool.name))
  BY <1>1, SeqTypes DEF SentInv, SentCall
<1>5. Op # "jump"
  <2>1. CASE tool.name = "read_config"
    BY <1>2, <2>1, Programs DEF Op
  <2>2. CASE tool.name # "read_config"
    <3>1. step = 2
      BY <1>2, <1>3, <2>2
    <3>. QED
      BY <2>2, <3>1, Programs DEF Op, Names
  <2>. QED
    BY <2>1, <2>2
<1>. QED
  BY <1>1, <1>2, <1>3, <1>5

LEMMA SavedWhenReturned == ToolsInv /\ CallInv => ReturnMeansSaved
<1>. SUFFICES ASSUME ToolsInv, CallInv PROVE ChangeSaved /\ WriteSaved
  BY DEF ReturnMeansSaved
<1>. USE DEF CallInv
<1>1. ChangeSaved
  <2>. SUFFICES ASSUME outcome = "done", tool.name = "change_id", unique, ~Excused
                PROVE  worn # {} \/ \E b \in Board : saved[b].ID = tool.new
    BY DEF ChangeSaved, Ended, Excused
  <2>1. Started /\ Complete /\ step = 2 /\ Changing
    BY Returned DEF Names, Changing
  <2>2. Len(destinations) = 1
    <3>1. destinations = To(tool, Op)
      BY <2>1 DEF SentInv, SentCall
    <3>2. destinations = <<tool.new>>
      BY <2>1, <3>1, ChangeSent
    <3>. QED
      BY <3>2
  <2>3. DOMAIN answers # {}
    BY <2>1, <2>2, FS_EmptySet DEF Complete
  <2>. QED
    BY <2>1, <2>3 DEF ChangeInv, OneSave, NewSaved
<1>2. WriteSaved
  <2>. SUFFICES ASSUME outcome = "done", tool.name = "write_config", unique, punctual,
                       NEW b \in Board \ (reset \cup worn), saved[b].ID \in Elements(tool.ids)
                PROVE  saved[b].value = runs
    BY DEF WriteSaved, Ended
  <2>1. Started /\ Complete /\ step = 2 /\ Writing
    BY Returned DEF Names, Writing
  <2>2. saved[b].ID \in Answered
    BY <2>1, WriteComplete DEF Answered
  <2>. QED
    BY <2>1, <2>2 DEF WriteInv, HasSaved
<1>. QED
  BY <1>1, <1>2

(* As many elements of the image as there are of the domain. *)
LEMMA AllDistinct ==
  ASSUME NEW B, IsFiniteSet(B), NEW I, NEW f \in Surjection(B, I), NEW A \in SUBSET I,
         Cardinality(A) >= Cardinality(B)
  PROVE  A = I /\ f \in Injection(B, I)
<1>1. IsFiniteSet(I) /\ Cardinality(I) <= Cardinality(B)
      /\ (Cardinality(I) = Cardinality(B) <=> f \in Injection(B, I))
  BY FS_Surjection
<1>2. IsFiniteSet(A) /\ Cardinality(A) <= Cardinality(I)
  BY <1>1, FS_Subset
<1>3. Cardinality(A) \in Nat /\ Cardinality(B) \in Nat /\ Cardinality(I) \in Nat
  BY <1>1, <1>2, FS_CardinalityType
<1>4. Cardinality(A) >= Cardinality(I) /\ Cardinality(I) = Cardinality(B)
  BY <1>1, <1>2, <1>3
<1>. QED
  BY <1>1, <1>4, AsMany

LEMMA ReplyFields ==
  ASSUME NEW x, NEW y, NEW u, NEW v, [src |-> x, content |-> y] = [src |-> u, content |-> v]
  PROVE  x = u /\ y = v
<1>1. [src |-> x, content |-> y].src = u /\ [src |-> x, content |-> y].content = v
  OBVIOUS
<1>. QED
  BY <1>1

LEMMA BusWhenPrinted == ToolsInv /\ CallInv => PrintsTheBus
<1>. SUFFICES ASSUME ToolsInv, CallInv, Ended({"read_config", "read_config_all"}), punctual, reset = {}
              PROVE  /\ \A i \in DOMAIN answers :
                          \E b \in Board : answers[i] = Says("config", config[b]) /\ config[b].ID = i
                     /\ tool.name = "read_config_all" /\ lost = 0 =>
                          /\ DOMAIN answers = {config[b].ID : b \in Board \ in_app}
                          /\ \A b, c \in Board \ in_app : config[b].ID = config[c].ID => b = c
  BY DEF PrintsTheBus, PrintsOwn, ScanIsComplete, Ended
<1>. USE DEF CallInv
<1>1. Started /\ Complete /\ (tool.name = "read_config_all" => step = 2) /\ Reading
  BY Returned DEF Ended, Names, Reading
<1>2. Op = "read"
  BY <1>1, ReadSent
<1>3. \A i \in DOMAIN answers : \E b \in Board \ in_app : ReadOf(b) = [src |-> i, content |-> answers[i]]
  BY <1>1, <1>2 DEF ReadInv, ReadsKept
<1>4. ASSUME NEW i \in DOMAIN answers
      PROVE  \E b \in Board \ in_app : answers[i] = Says("config", config[b]) /\ config[b].ID = i
  <2>1. PICK b \in Board \ in_app : ReadOf(b) = [src |-> i, content |-> answers[i]]
    BY <1>3
  <2>2. [src |-> config[b].ID, content |-> Says("config", config[b])] = [src |-> i, content |-> answers[i]]
    BY <2>1 DEF ReadOf
  <2>. QED
    BY <2>2, ReplyFields, Zenon
<1>5. ASSUME tool.name = "read_config_all", lost = 0
      PROVE  /\ DOMAIN answers = {config[b].ID : b \in Board \ in_app}
             /\ \A b, c \in Board \ in_app : config[b].ID = config[c].ID => b = c
  <2>. DEFINE B == Board \ in_app
              I == {config[b].ID : b \in B}
              f == [b \in B |-> config[b].ID]
  <2>1. Counted /\ Op # "ping"
    BY <1>1, <1>2, <1>5 DEF ScanInv, Scanning
  <2>2. Heard = B
    BY <2>1 DEF Heard
  <2>3. Len(scan_queue) \in Nat /\ Len(scan_queue) + 0 = Cardinality(B)
    BY <2>1, <2>2, SeqTypes, LenProperties DEF Counted
  <2>4. destinations = scan_queue
    <3>1. destinations = To(tool, Op)
      BY <1>1 DEF SentInv, SentCall
    <3>. QED
      BY <1>2, <1>5, <3>1, Lists
  <2>5. DOMAIN answers \subseteq I
    BY <1>4
  <2>6. IsFiniteSet(B) /\ Cardinality(B) \in Nat
    BY <2>2, HeardFinite
  <2>7. f \in Surjection(B, I)
    BY DEF Surjection
  <2>8. Cardinality(DOMAIN answers) >= Cardinality(B)
    <3>1. Cardinality(DOMAIN answers) >= Len(scan_queue)
      BY <1>1, <2>4 DEF Complete
    <3>. HIDE DEF B
    <3>2. Len(scan_queue) = Cardinality(B)
      BY <2>3
    <3>. QED
      BY <3>1, <3>2
  <2>9. DOMAIN answers = I /\ f \in Injection(B, I)
    <3>. HIDE DEF B, I, f
    <3>. QED
      BY <2>5, <2>6, <2>7, <2>8, AllDistinct
  <2>10. \A b, c \in B : f[b] = f[c] => b = c
    <3>. HIDE DEF B, I, f
    <3>. QED
      BY <2>9 DEF Injection, IsInjective
  <2>. QED
    BY <2>9, <2>10
<1>. QED
  BY <1>4, <1>5

(* What the tools sent, what boards hold of it and what was answered. *)
THEOREM CallsInvariance == Spec => []CallInv
<1>1. Init => CallInv
  BY CallInit
<1>2. ToolsInv /\ CallInv /\ [Next]_vars => CallInv'
  <2>. SUFFICES ASSUME ToolsInv, CallInv, [Next]_vars PROVE CallInv'
    OBVIOUS
  <2>1. SentInv' /\ ChangeInv' /\ OneInv' /\ WriteInv'
    BY SentStep, ChangeStep, WriteStep DEF CallInv
  <2>2. LossInv' /\ ReadInv' /\ ScanInv'
    BY LossStep, ReadsStep, ScanStep DEF CallInv
  <2>. QED
    BY <2>1, <2>2 DEF CallInv
<1>. QED
  BY <1>1, <1>2, Invariance, PTL DEF Spec

(* A tool that returns has made boards save what it was asked to write. *)
THEOREM ReturnsWhenSaved == Spec => []ReturnMeansSaved
BY SavedWhenReturned, Invariance, CallsInvariance, PTL

(* Retries make up for as many losses as there are of them. *)
THEOREM RetriesMakeUpForLosses == Spec => []RetriesSuffice
<1>1. ToolsInv /\ CallInv => RetriesSuffice
  BY DEF CallInv, LossInv, Lossy, Started, Names, GaveUpOnLoss, RetriesSuffice
<1>. QED
  BY <1>1, Invariance, CallsInvariance, PTL

(* read_config prints the configurations the boards have, a scan all of them. *)
THEOREM ReadsTheBus == Spec => []PrintsTheBus
BY BusWhenPrinted, Invariance, CallsInvariance, PTL
=============================================================================
