-------------------------- MODULE FlashSessionProofs --------------------------
(***************************************************************************)
(* For every set of boards, number of pages, retry limit and capacity: a   *)
(* session that prints OK has flashed every board, one whose timeout is    *)
(* long enough leaves out no command, and the boards do what they would do *)
(* if the client called them directly (DirectSession).                     *)
(***************************************************************************)
EXTENDS FlashSession, FiniteSetTheorems, SequenceTheorems, TLAPS

(* Where each command is in the script. *)
LEMMA ScriptAt ==
  /\ Script \in Seq(Command) /\ Len(Script) = CHECK
  /\ Script[1] = Cmd("ping", 0)
  /\ \A i \in 1 .. CHECK :
       /\ 1 < i /\ i <= 1 + PageCount => Script[i] = Cmd("erase", i - 1)
       /\ 1 + PageCount < i /\ i <= 1 + 2 * PageCount => Script[i] = Cmd("write", i - (1 + PageCount))
  /\ Script[CHECK - 2] = Cmd("update", 0)
  /\ Script[CHECK - 1] = Cmd("save", 0)
  /\ Script[CHECK] = Cmd("crc", 0)
<1>. DEFINE ping   == <<Cmd("ping", 0)>>
            erases == [p \in Page |-> Cmd("erase", p)]
            writes == [p \in Page |-> Cmd("write", p)]
            ends   == <<Cmd("update", 0), Cmd("save", 0), Cmd("crc", 0)>>
            head   == ping \o erases
            body   == head \o writes
<1>0. PageCount \in Nat
  BY SessionAssumption
<1>1. \A op \in {"ping", "erase", "write", "update", "save", "crc"}, p \in 0 .. PageCount : Cmd(op, p) \in Command
  BY DEF Cmd, Command
<1>2. ping \in Seq(Command) /\ Len(ping) = 1 /\ ping[1] = Cmd("ping", 0)
  BY <1>0, <1>1
<1>3. erases \in Seq(Command) /\ Len(erases) = PageCount /\ \A p \in Page : erases[p] = Cmd("erase", p)
  BY <1>0, <1>1 DEF Page
<1>4. writes \in Seq(Command) /\ Len(writes) = PageCount /\ \A p \in Page : writes[p] = Cmd("write", p)
  BY <1>0, <1>1 DEF Page
<1>5. /\ ends \in Seq(Command) /\ Len(ends) = 3
      /\ ends[1] = Cmd("update", 0) /\ ends[2] = Cmd("save", 0) /\ ends[3] = Cmd("crc", 0)
  BY <1>0, <1>1
<1>6. Script = body \o ends
  BY DEF Script
<1>. HIDE DEF ping, erases, writes, ends
<1>7. /\ head \in Seq(Command) /\ Len(head) = 1 + PageCount
      /\ \A i \in 1 .. 1 + PageCount : head[i] = IF i <= 1 THEN ping[i] ELSE erases[i - 1]
  <2>1. /\ head \in Seq(Command) /\ Len(head) = Len(ping) + Len(erases)
        /\ \A i \in 1 .. Len(ping) + Len(erases) : head[i] = IF i <= Len(ping) THEN ping[i] ELSE erases[i - Len(ping)]
    BY <1>2, <1>3, ConcatProperties DEF head
  <2>. QED
    BY <1>2, <1>3, <2>1
<1>. HIDE DEF head
<1>8. /\ body \in Seq(Command) /\ Len(body) = 1 + 2 * PageCount
      /\ \A i \in 1 .. 1 + 2 * PageCount : body[i] = IF i <= 1 + PageCount THEN head[i] ELSE writes[i - (1 + PageCount)]
  <2>1. /\ body \in Seq(Command) /\ Len(body) = Len(head) + Len(writes)
        /\ \A i \in 1 .. Len(head) + Len(writes) : body[i] = IF i <= Len(head) THEN head[i] ELSE writes[i - Len(head)]
    BY <1>4, <1>7, ConcatProperties DEF body
  <2>2. Len(head) + Len(writes) = 1 + 2 * PageCount
    BY <1>0, <1>4, <1>7
  <2>. QED
    BY <1>7, <2>1, <2>2
<1>. HIDE DEF body
<1>9. /\ Script \in Seq(Command) /\ Len(Script) = CHECK
      /\ \A i \in 1 .. CHECK : Script[i] = IF i <= 1 + 2 * PageCount THEN body[i] ELSE ends[i - (1 + 2 * PageCount)]
  <2>1. /\ Script \in Seq(Command) /\ Len(Script) = Len(body) + Len(ends)
        /\ \A i \in 1 .. Len(body) + Len(ends) : Script[i] = IF i <= Len(body) THEN body[i] ELSE ends[i - Len(body)]
    BY <1>5, <1>6, <1>8, ConcatProperties
  <2>2. Len(body) + Len(ends) = CHECK
    BY <1>0, <1>5, <1>8 DEF CHECK
  <2>. QED
    BY <1>8, <2>1, <2>2
<1>10. Script[1] = Cmd("ping", 0)
  <2>1. 1 \in 1 .. CHECK /\ 1 \in 1 .. 1 + 2 * PageCount /\ 1 \in 1 .. 1 + PageCount /\ 1 <= 1 + PageCount
    BY <1>0 DEF CHECK
  <2>. QED
    BY <1>2, <1>7, <1>8, <1>9, <2>1
<1>11. ASSUME NEW i \in 1 .. CHECK, 1 < i, i <= 1 + PageCount
       PROVE  Script[i] = Cmd("erase", i - 1)
  <2>1. /\ i \in 1 .. 1 + 2 * PageCount /\ i \in 1 .. 1 + PageCount /\ i <= 1 + 2 * PageCount
        /\ ~(i <= 1) /\ i - 1 \in Page
    BY <1>0, <1>11 DEF CHECK, Page
  <2>. QED
    BY <1>3, <1>7, <1>8, <1>9, <1>11, <2>1
<1>12. ASSUME NEW i \in 1 .. CHECK, 1 + PageCount < i, i <= 1 + 2 * PageCount
       PROVE  Script[i] = Cmd("write", i - (1 + PageCount))
  <2>1. i \in 1 .. 1 + 2 * PageCount /\ ~(i <= 1 + PageCount) /\ i - (1 + PageCount) \in Page
    BY <1>0, <1>12 DEF CHECK, Page
  <2>. QED
    BY <1>4, <1>8, <1>9, <1>12, <2>1
<1>13. /\ Script[CHECK - 2] = Cmd("update", 0)
       /\ Script[CHECK - 1] = Cmd("save", 0)
       /\ Script[CHECK] = Cmd("crc", 0)
  <2>1. \A k \in 1 .. 3 : LET i == CHECK - 3 + k IN i \in 1 .. CHECK /\ ~(i <= 1 + 2 * PageCount) /\ i - (1 + 2 * PageCount) = k
    BY <1>0 DEF CHECK
  <2>2. \A k \in 1 .. 3 : Script[CHECK - 3 + k] = ends[k]
    BY <1>9, <2>1
  <2>3. CHECK - 3 + 1 = CHECK - 2 /\ CHECK - 3 + 2 = CHECK - 1 /\ CHECK - 3 + 3 = CHECK
    BY <1>0 DEF CHECK
  <2>. QED
    BY <1>5, <2>2, <2>3
<1>. QED
  BY <1>9, <1>10, <1>11, <1>12, <1>13

(* Every place of the script is one of these. *)
LEMMA Places ==
  ASSUME NEW i \in PING .. CHECK
  PROVE  /\ i = 1 => Script[i] = Cmd("ping", 0)
         /\ 1 < i /\ i <= 1 + PageCount => Script[i] = Cmd("erase", i - 1)
         /\ 1 + PageCount < i /\ i <= 1 + 2 * PageCount => Script[i] = Cmd("write", i - (1 + PageCount))
         /\ i = CHECK - 2 => Script[i] = Cmd("update", 0)
         /\ i = CHECK - 1 => Script[i] = Cmd("save", 0)
         /\ i = CHECK => Script[i] = Cmd("crc", 0)
         /\ \/ i = 1 \/ (1 < i /\ i <= 1 + PageCount) \/ (1 + PageCount < i /\ i <= 1 + 2 * PageCount)
            \/ i = CHECK - 2 \/ i = CHECK - 1 \/ i = CHECK
<1>1. i \in 1 .. CHECK
  BY DEF PING
<1>2. \/ i = 1 \/ (1 < i /\ i <= 1 + PageCount) \/ (1 + PageCount < i /\ i <= 1 + 2 * PageCount)
      \/ i = CHECK - 2 \/ i = CHECK - 1 \/ i = CHECK
  BY <1>1, SessionAssumption DEF CHECK
<1>. QED
  BY <1>1, <1>2, ScriptAt

(* Update, save and check, and only they, are the last commands of the session. *)
LEMMA ScriptFacts ==
  \A i \in PING .. CHECK :
    /\ Script[i] \in Command
    /\ Script[i].op = "update" <=> i = CHECK - 2
    /\ Script[i].op = "save" <=> i = CHECK - 1
    /\ Script[i].op = "crc" <=> i = CHECK
<1>. SUFFICES ASSUME NEW i \in PING .. CHECK
              PROVE  /\ Script[i] \in Command
                     /\ Script[i].op = "update" <=> i = CHECK - 2
                     /\ Script[i].op = "save" <=> i = CHECK - 1
                     /\ Script[i].op = "crc" <=> i = CHECK
  OBVIOUS
<1>1. Script[i] \in Command
  BY ScriptAt, ElementOfSeq DEF PING
<1>2. \A op, p : Cmd(op, p).op = op
  BY DEF Cmd
<1>3. PageCount \in Nat
  BY SessionAssumption
<1>. QED
  BY <1>1, <1>2, <1>3, Places DEF CHECK, PING

(* No two commands of the script are the same: a command tells its place. *)
LEMMA NumberOf ==
  \A s \in PING .. CHECK : Number(Script[s]) = s
<1>. SUFFICES ASSUME NEW s \in PING .. CHECK PROVE Number(Script[s]) = s
  OBVIOUS
<1>1. \A op, p : Cmd(op, p).op = op /\ Cmd(op, p).page = p
  BY DEF Cmd
<1>2. PageCount \in Nat
  BY SessionAssumption
<1>3. ASSUME NEW t \in PING .. CHECK, Script[t] = Script[s] PROVE t = s
  <2>1. CASE s = 1
    BY <1>1, <1>2, <1>3, <2>1, Places DEF CHECK, PING
  <2>2. CASE 1 < s /\ s <= 1 + PageCount
    <3>1. Script[s].op = "erase" /\ Script[s].page = s - 1
      BY <1>1, <2>2, Places
    <3>2. 1 < t /\ t <= 1 + PageCount
      BY <1>1, <1>3, <3>1, Places
    <3>3. Script[t].page = t - 1
      BY <1>1, <3>2, Places
    <3>. QED
      BY <1>2, <1>3, <3>1, <3>3 DEF CHECK, PING
  <2>3. CASE 1 + PageCount < s /\ s <= 1 + 2 * PageCount
    <3>1. Script[s].op = "write" /\ Script[s].page = s - (1 + PageCount)
      BY <1>1, <2>3, Places
    <3>2. 1 + PageCount < t /\ t <= 1 + 2 * PageCount
      BY <1>1, <1>3, <3>1, Places
    <3>3. Script[t].page = t - (1 + PageCount)
      BY <1>1, <3>2, Places
    <3>. QED
      BY <1>2, <1>3, <3>1, <3>3 DEF CHECK, PING
  <2>4. CASE s \in {CHECK - 2, CHECK - 1, CHECK}
    BY <1>3, <2>4, ScriptFacts
  <2>. QED
    BY <2>1, <2>2, <2>3, <2>4, Places
<1>4. s \in 1 .. Len(Script) /\ 1 .. Len(Script) = PING .. CHECK
  BY ScriptAt DEF PING
<1>. QED
  BY <1>3, <1>4 DEF Number

LEMMA ConstantFacts ==
  /\ PING = 1 /\ PageCount \in Nat \ {0} /\ CHECK = 2 * PageCount + 4
  /\ Cardinality(Board) \in Nat /\ retry_limit \in Nat /\ InboxCap \in Nat \ {0}
  /\ PING \in PING .. CHECK /\ CHECK \in PING .. CHECK /\ PING # CHECK
  /\ Board \cap Stranger = {}
BY SessionAssumption, FS_CardinalityType DEF PING, CHECK

-----------------------------------------------------------------------------
(* A command reaches the end of an inbox that has room for it. *)
LEMMA WriteEffect ==
  ASSUME TypeOK, NEW s \in PING .. CHECK, NEW D \in SUBSET Board, write_command(s, D)
  PROVE  /\ inbox' \in [Board -> Seq(Command)] /\ \A b \in Board : Len(inbox'[b]) <= InboxCap
         /\ check_lost' \in BOOLEAN
         /\ \A b \in Board : inbox'[b] = inbox[b] \/ inbox'[b] = Append(inbox[b], Script[s])
<1>1. PICK got \in SUBSET {b \in D : Len(inbox[b]) < InboxCap} :
        /\ inbox' = [b \in Board |-> IF b \in got THEN Append(inbox[b], Script[s]) ELSE inbox[b]]
        /\ check_lost' = (check_lost \/ (s = CHECK /\ got # D))
  BY DEF write_command
<1>2. Script[s] \in Command
  BY ScriptFacts
<1>3. ASSUME NEW b \in Board
      PROVE  /\ inbox'[b] \in Seq(Command) /\ Len(inbox'[b]) <= InboxCap
             /\ inbox'[b] = inbox[b] \/ inbox'[b] = Append(inbox[b], Script[s])
  <2>1. inbox[b] \in Seq(Command) /\ Len(inbox[b]) <= InboxCap /\ Len(inbox[b]) \in Nat
    BY LenProperties DEF TypeOK, BusTypeOK
  <2>2. CASE b \in got
    BY <1>1, <1>2, <2>1, <2>2, ConstantFacts
  <2>3. CASE b \notin got
    BY <1>1, <2>1, <2>3
  <2>. QED
    BY <2>2, <2>3
<1>4. check_lost' \in BOOLEAN
  BY <1>1
<1>. QED
  BY <1>1, <1>3, <1>4

(* A board takes its first command, and the others move up. *)
LEMMA TakeEffect ==
  ASSUME TypeOK, NEW b \in Board, NEW op, Take(b, op)
  PROVE  /\ inbox' \in [Board -> Seq(Command)] /\ \A c \in Board : Len(inbox'[c]) <= InboxCap
         /\ Len(inbox[b]) \in Nat \ {0} /\ inbox[b][1] \in Command /\ inbox[b][1].op = op
         /\ Head(inbox[b]) = inbox[b][1]
         /\ \A c \in Board \ {b} : inbox'[c] = inbox[c]
         /\ Len(inbox'[b]) = Len(inbox[b]) - 1
         /\ \A i \in 1 .. Len(inbox'[b]) : inbox'[b][i] = inbox[b][i + 1]
         /\ served' \subseteq Board
<1>1. inbox[b] \in Seq(Command) /\ inbox[b] # <<>> /\ Head(inbox[b]).op = op
  BY DEF TypeOK, BusTypeOK, Take
<1>2. Len(inbox[b]) \in Nat \ {0} /\ Head(inbox[b]) = inbox[b][1]
  BY <1>1, EmptySeq
<1>3. inbox' = [inbox EXCEPT ![b] = Tail(inbox[b])] /\ served' \subseteq Board
  BY DEF TypeOK, BusTypeOK, Take
<1>4. inbox'[b] = Tail(inbox[b]) /\ \A c \in Board \ {b} : inbox'[c] = inbox[c]
  BY <1>3 DEF TypeOK, BusTypeOK
<1>5. /\ Head(inbox[b]) \in Command /\ Tail(inbox[b]) \in Seq(Command) /\ Len(Tail(inbox[b])) = Len(inbox[b]) - 1
      /\ \A i \in 1 .. Len(Tail(inbox[b])) : Tail(inbox[b])[i] = inbox[b][i + 1]
  BY <1>1, HeadTailProperties
<1>6. inbox' \in [Board -> Seq(Command)]
  BY <1>3, <1>5 DEF TypeOK, BusTypeOK
<1>7. ASSUME NEW c \in Board PROVE Len(inbox'[c]) <= InboxCap
  <2>1. Len(inbox[c]) <= InboxCap
    BY DEF TypeOK, BusTypeOK
  <2>2. CASE c = b
    <3>1. Len(inbox[b]) <= InboxCap /\ InboxCap \in Nat
      BY <2>1, <2>2, ConstantFacts
    <3>2. Len(inbox[b]) - 1 <= InboxCap
      BY ONLY <1>2, <3>1
    <3>. QED
      BY <1>4, <1>5, <2>2, <3>2
  <2>3. CASE c # b
    BY <1>4, <2>1, <2>3
  <2>. QED
    BY <2>2, <2>3
<1>. QED
  BY <1>1, <1>2, <1>3, <1>4, <1>5, <1>6, <1>7

(* At most this answer is added to those on their way. *)
LEMMA AnswerEffect ==
  ASSUME TypeOK, NEW b \in Board, NEW content \in Content, Answer(b, content)
  PROVE  /\ rx' \in Seq(Message) /\ check_lost' \in BOOLEAN
         /\ outcome # "none" => rx' = rx
         /\ \A i \in 1 .. Len(rx') : \/ rx'[i] = [src |-> b, content |-> content]
                                     \/ i \in 1 .. Len(rx) /\ rx'[i] = rx[i]
<1>. DEFINE m == [src |-> b, content |-> content]
<1>1. m \in Message /\ rx \in Seq(Message)
  BY DEF TypeOK, BusTypeOK, Message
<1>2. rx' = rx \/ (rx' = Append(rx, m) /\ outcome = "none")
  BY DEF Answer
<1>3. check_lost' \in BOOLEAN
  <2>1. check_lost \in BOOLEAN
    BY DEF TypeOK, BusTypeOK
  <2>2. check_lost' = check_lost \/ check_lost' = (check_lost \/ step = CHECK)
    BY DEF Answer
  <2>. QED
    BY ONLY <2>1, <2>2
<1>. HIDE DEF m
<1>4. /\ Append(rx, m) \in Seq(Message) /\ Len(rx) \in Nat /\ Len(Append(rx, m)) = Len(rx) + 1
      /\ \A i \in 1 .. Len(rx) + 1 : Append(rx, m)[i] = IF i <= Len(rx) THEN rx[i] ELSE m
  BY <1>1, AppendProperties, LenProperties
<1>5. rx' \in Seq(Message)
  BY <1>1, <1>2, <1>4
<1>6. \A i \in 1 .. Len(rx') : rx'[i] = m \/ (i \in 1 .. Len(rx) /\ rx'[i] = rx[i])
  BY <1>2, <1>4
<1>. QED
  BY <1>2, <1>3, <1>5, <1>6 DEF m

(* What is read was received, and the rest stays in its order. *)
LEMMA ReadEffect ==
  ASSUME TypeOK, Read
  PROVE  /\ rx' \in Seq(Message) /\ Head(rx) \in Message
         /\ Len(rx) \in Nat \ {0} /\ Head(rx) = rx[1]
         /\ Len(rx') = Len(rx) - 1
         /\ \A i \in 1 .. Len(rx') : rx'[i] = rx[i + 1]
BY HeadTailProperties, EmptySeq DEF TypeOK, BusTypeOK, Read

-----------------------------------------------------------------------------
LEMMA TypeInit == Init => TypeOK
<1>. SUFFICES ASSUME Init PROVE TypeOK
  OBVIOUS
<1>1. ClientTypeOK
  <2>1. Answered = {} /\ answers \in [Answered -> Content]
    BY DEF Init, NoAnswers, Answered
  <2>2. step \in PING .. CHECK /\ retry_count \in 0 .. retry_limit /\ boards_checked \in 0 .. Cardinality(Board)
    BY ConstantFacts DEF Init
  <2>. QED
    BY <2>1, <2>2 DEF Init, ClientTypeOK
<1>2. BusTypeOK
  <2>1. rx \in Seq(Message) /\ inbox \in [Board -> Seq(Command)]
    BY DEF Init
  <2>2. \A b \in Board : Len(inbox[b]) <= InboxCap
    BY ConstantFacts, EmptySeq DEF Init
  <2>3. owing \subseteq Stranger
    BY DEF Init
  <2>. QED
    BY <2>1, <2>2, <2>3 DEF Init, BusTypeOK
<1>3. BoardTypeOK
  BY DEF Init, BoardTypeOK, Data
<1>. QED
  BY <1>1, <1>2, <1>3 DEF TypeOK

(* The parts of a client action keep the types they touch. *)
LEMMA StartTypes ==
  ASSUME TypeOK, NEW s \in PING .. CHECK, Start(s),
         UNCHANGED <<online_boards, valid_nodes, boards_checked, rx, owing>>, started' = TRUE
  PROVE  ClientTypeOK' /\ BusTypeOK'
<1>1. ClientTypeOK'
  BY ConstantFacts DEF TypeOK, ClientTypeOK, Start, NoAnswers, Answered
<1>2. /\ inbox' \in [Board -> Seq(Command)] /\ \A b \in Board : Len(inbox'[b]) <= InboxCap
      /\ check_lost' \in BOOLEAN
  <2>1. write_command(s, Board)
    BY DEF Start
  <2>. QED
    BY <2>1, WriteEffect
<1>3. rx' = rx /\ owing' = owing /\ served' = {}
  BY DEF Start
<1>4. BusTypeOK'
  BY <1>2, <1>3 DEF TypeOK, BusTypeOK
<1>. QED
  BY <1>1, <1>4

LEMMA ExitTypes ==
  ASSUME TypeOK, NEW result, Exit(result),
         result \in {"offline", "aborted", "raised", "verification_failed", "ok"},
         UNCHANGED <<started, online_boards, valid_nodes, boards_checked, owing>>
  PROVE  ClientTypeOK' /\ BusTypeOK'
<1>1. ClientTypeOK'
  BY DEF TypeOK, ClientTypeOK, Exit, Answered
<1>2. BusTypeOK'
  BY EmptySeq DEF TypeOK, BusTypeOK, Exit
<1>. QED
  BY <1>1, <1>2

LEMMA ReadTypes ==
  ASSUME TypeOK, Read, UNCHANGED readRest
  PROVE  /\ BusTypeOK' /\ BoardTypeOK'
         /\ Head(rx).src \in Board \cup Stranger /\ Head(rx).content \in Content
<1>1. rx' \in Seq(Message) /\ Head(rx) \in Message
  BY ReadEffect
<1>2. BusTypeOK'
  BY <1>1 DEF TypeOK, BusTypeOK, readRest
<1>3. BoardTypeOK'
  BY DEF TypeOK, BoardTypeOK, readRest, boardVars, frozenVars
<1>. QED
  BY <1>1, <1>2, <1>3 DEF Message

LEMMA ClientTypes ==
  ASSUME TypeOK, Client
  PROVE  TypeOK'
<1>. USE DEF Running
<1>1. CASE Begin
  <2>1. ClientTypeOK' /\ BusTypeOK'
    BY <1>1, StartTypes, ConstantFacts DEF Begin
  <2>2. BoardTypeOK'
    BY <1>1 DEF Begin, TypeOK, BoardTypeOK, boardVars, frozenVars
  <2>. QED
    BY <2>1, <2>2 DEF TypeOK
<1>2. CASE ReadBroken
  <2>1. ClientTypeOK' /\ BusTypeOK'
    BY <1>2, ExitTypes DEF ReadBroken
  <2>2. BoardTypeOK'
    BY <1>2 DEF ReadBroken, TypeOK, BoardTypeOK, boardVars, frozenVars
  <2>. QED
    BY <2>1, <2>2 DEF TypeOK
<1>3. CASE ReadPong
  <2>1. Read /\ UNCHANGED readRest
    BY <1>3 DEF ReadPong
  <2>2. ClientTypeOK'
    BY <1>3, <2>1, ReadTypes DEF ReadPong, TypeOK, ClientTypeOK, Answered
  <2>. QED
    BY <2>1, <2>2, ReadTypes DEF TypeOK
<1>4. CASE PingTimeout
  <2>1. BoardTypeOK'
    BY <1>4 DEF PingTimeout, TypeOK, BoardTypeOK, boardVars, frozenVars
  <2>2. step + 1 \in PING .. CHECK /\ started' = TRUE
    BY <1>4, ConstantFacts DEF PingTimeout
  <2>3. CASE online_boards = Board
    BY <1>4, <2>1, <2>2, <2>3, StartTypes DEF PingTimeout, TypeOK
  <2>4. CASE online_boards # Board
    BY <1>4, <2>1, <2>4, ExitTypes DEF PingTimeout, TypeOK
  <2>. QED
    BY <2>3, <2>4
<1>5. CASE ReadAnswer
  <2>1. Read /\ UNCHANGED readRest
    BY <1>5 DEF ReadAnswer
  <2>2. Answered' = Answered \cup {Head(rx).src} /\ answers' \in [Answered' -> Content]
    BY <1>5, <2>1, ReadTypes DEF ReadAnswer, TypeOK, ClientTypeOK, Answered
  <2>3. ClientTypeOK'
    BY <1>5, <2>1, <2>2, ReadTypes DEF ReadAnswer, TypeOK, ClientTypeOK
  <2>. QED
    BY <2>1, <2>3, ReadTypes DEF TypeOK
<1>6. CASE Retry
  <2>1. write_command(step, Board \ Answered) /\ step \in PING .. CHECK
    BY <1>6 DEF Retry, TypeOK, ClientTypeOK
  <2>2. BusTypeOK'
    BY <1>6, <2>1, WriteEffect DEF Retry, retryRest, TypeOK, BusTypeOK
  <2>3. ClientTypeOK'
    BY <1>6, ConstantFacts DEF Retry, retryRest, TypeOK, ClientTypeOK, Answered
  <2>4. BoardTypeOK'
    BY <1>6 DEF Retry, retryRest, TypeOK, BoardTypeOK, boardVars, frozenVars
  <2>. QED
    BY <2>2, <2>3, <2>4 DEF TypeOK
<1>7. CASE GiveUp
  <2>1. ClientTypeOK' /\ BusTypeOK'
    BY <1>7, ExitTypes DEF GiveUp
  <2>2. BoardTypeOK'
    BY <1>7 DEF GiveUp, TypeOK, BoardTypeOK, boardVars, frozenVars
  <2>. QED
    BY <2>1, <2>2 DEF TypeOK
<1>8. CASE Return
  <2>1. BoardTypeOK'
    BY <1>8 DEF Return, TypeOK, BoardTypeOK, boardVars, frozenVars
  <2>2. step + 1 \in PING .. CHECK /\ started' = TRUE
    BY <1>8, ConstantFacts DEF Return, Calling
  <2>3. CASE Exit("aborted")
    BY <1>8, <2>1, <2>3, ExitTypes DEF Return, TypeOK
  <2>4. CASE Start(step + 1) /\ UNCHANGED rx
    BY <1>8, <2>1, <2>2, <2>4, StartTypes DEF Return, TypeOK
  <2>. QED
    BY <1>8, <2>3, <2>4 DEF Return
<1>9. CASE ReadCrc
  <2>1. Read /\ UNCHANGED readRest
    BY <1>9 DEF ReadCrc
  <2>2. ClientTypeOK'
    BY <1>9, <2>1, ReadTypes, ConstantFacts DEF ReadCrc, TypeOK, ClientTypeOK, Answered
  <2>. QED
    BY <2>1, <2>2, ReadTypes DEF TypeOK
<1>10. CASE Verdict
  <2>1. ClientTypeOK' /\ BusTypeOK'
    BY <1>10, ExitTypes DEF Verdict
  <2>2. BoardTypeOK'
    BY <1>10 DEF Verdict, TypeOK, BoardTypeOK, boardVars, frozenVars
  <2>. QED
    BY <2>1, <2>2 DEF TypeOK
<1>. QED
  BY <1>1, <1>2, <1>3, <1>4, <1>5, <1>6, <1>7, <1>8, <1>9, <1>10 DEF Client

LEMMA ExecuteBus ==
  ASSUME TypeOK, NEW b \in Board, NEW op, NEW content \in Content,
         Take(b, op), Answer(b, content), UNCHANGED boardRest
  PROVE  BusTypeOK' /\ ClientTypeOK'
<1>1. ClientTypeOK'
  BY DEF TypeOK, ClientTypeOK, Answered, boardRest, clientVars
<1>2. rx' \in Seq(Message) /\ check_lost' \in BOOLEAN
  BY AnswerEffect
<1>3. /\ inbox' \in [Board -> Seq(Command)] /\ \A c \in Board : Len(inbox'[c]) <= InboxCap
      /\ served' \subseteq Board
  BY TakeEffect
<1>4. owing' \subseteq Stranger
  BY DEF boardRest, TypeOK, BusTypeOK
<1>. QED
  BY <1>1, <1>2, <1>3, <1>4 DEF BusTypeOK

LEMMA ExecuteTypes ==
  ASSUME TypeOK, NEW b \in Board, Execute(b)
  PROVE  TypeOK'
<1>1. CASE ExecutePing(b)
  <2>1. BusTypeOK' /\ ClientTypeOK'
    BY <1>1, ExecuteBus DEF ExecutePing, Content
  <2>2. BoardTypeOK'
    BY <1>1 DEF ExecutePing, TypeOK, BoardTypeOK, boardVars, boardRest, frozenVars
  <2>. QED
    BY <2>1, <2>2 DEF TypeOK
<1>2. CASE ExecuteErase(b)
  <2>1. BusTypeOK' /\ ClientTypeOK'
    BY <1>2, ExecuteBus DEF ExecuteErase, Content
  <2>2. flash' \in [Board -> [Page -> Data]]
    BY <1>2 DEF ExecuteErase, TypeOK, BoardTypeOK, Data
  <2>3. BoardTypeOK'
    BY <1>2, <2>2 DEF ExecuteErase, TypeOK, BoardTypeOK, boardRest, frozenVars
  <2>. QED
    BY <2>1, <2>3 DEF TypeOK
<1>3. CASE ExecuteWrite(b)
  <2>1. BusTypeOK' /\ ClientTypeOK'
    BY <1>3, ExecuteBus DEF ExecuteWrite, Content
  <2>2. flash' \in [Board -> [Page -> Data]]
    BY <1>3 DEF ExecuteWrite, TypeOK, BoardTypeOK, Data, Written
  <2>3. disturbed' \subseteq Board
    BY <1>3 DEF ExecuteWrite, Disturb, TypeOK, BoardTypeOK
  <2>4. BoardTypeOK'
    BY <1>3, <2>2, <2>3 DEF ExecuteWrite, TypeOK, BoardTypeOK, boardRest, frozenVars
  <2>. QED
    BY <2>1, <2>4 DEF TypeOK
<1>4. CASE ExecuteUpdate(b)
  <2>1. BusTypeOK' /\ ClientTypeOK'
    BY <1>4, ExecuteBus DEF ExecuteUpdate, Content
  <2>2. BoardTypeOK'
    BY <1>4 DEF ExecuteUpdate, TypeOK, BoardTypeOK, boardRest, frozenVars
  <2>. QED
    BY <2>1, <2>2 DEF TypeOK
<1>5. CASE ExecuteSave(b)
  <2>1. BusTypeOK' /\ ClientTypeOK'
    BY <1>5, ExecuteBus DEF ExecuteSave, Content
  <2>2. saved' \in [Board -> {"old", "new"}]
    BY <1>5 DEF ExecuteSave, TypeOK, BoardTypeOK
  <2>3. disturbed' \subseteq Board
    BY <1>5 DEF ExecuteSave, Disturb, TypeOK, BoardTypeOK
  <2>4. BoardTypeOK'
    BY <1>5, <2>2, <2>3 DEF ExecuteSave, TypeOK, BoardTypeOK, boardRest, frozenVars
  <2>. QED
    BY <2>1, <2>4 DEF TypeOK
<1>6. CASE ExecuteCrc(b)
  <2>1. PICK content \in Content : Answer(b, content)
    BY <1>6 DEF ExecuteCrc, Content
  <2>2. BusTypeOK' /\ ClientTypeOK'
    BY <1>6, <2>1, ExecuteBus DEF ExecuteCrc
  <2>3. BoardTypeOK'
    BY <1>6 DEF ExecuteCrc, TypeOK, BoardTypeOK, boardVars, boardRest, frozenVars
  <2>. QED
    BY <2>2, <2>3 DEF TypeOK
<1>. QED
  BY <1>1, <1>2, <1>3, <1>4, <1>5, <1>6 DEF Execute

LEMMA ResetTypes ==
  ASSUME TypeOK, NEW b \in Board, Reset(b)
  PROVE  TypeOK'
<1>1. ClientTypeOK'
  BY DEF Reset, TypeOK, ClientTypeOK, Answered, boardRest, clientVars
<1>2. BusTypeOK'
  <2>1. inbox' \in [Board -> Seq(Command)]
    BY EmptySeq DEF Reset, TypeOK, BusTypeOK
  <2>2. \A c \in Board : Len(inbox'[c]) <= InboxCap
    BY EmptySeq, ConstantFacts DEF Reset, TypeOK, BusTypeOK
  <2>. QED
    BY <2>1, <2>2 DEF Reset, TypeOK, BusTypeOK, boardRest
<1>3. flash' \in [Board -> [Page -> Data]] /\ saved' \in [Board -> {"old", "new"}]
  BY DEF Reset, TypeOK, BoardTypeOK, Data
<1>4. config' \in [Board -> {"old", "new"}]
  BY <1>3 DEF Reset, TypeOK, BoardTypeOK
<1>5. BoardTypeOK'
  BY <1>3, <1>4 DEF Reset, Disturb, TypeOK, BoardTypeOK, boardRest, frozenVars
<1>. QED
  BY <1>1, <1>2, <1>5 DEF TypeOK

(* An answer of a stranger is added to those on their way. *)
LEMMA LateEffect ==
  ASSUME TypeOK, NEW n \in Stranger, AnswerLate(n)
  PROVE  /\ rx' \in Seq(Message)
         /\ \A i \in 1 .. Len(rx') : \/ rx'[i] = [src |-> n, content |-> "true"]
                                     \/ i \in 1 .. Len(rx) /\ rx'[i] = rx[i]
<1>. DEFINE m == [src |-> n, content |-> "true"]
<1>1. m \in Message /\ rx \in Seq(Message)
  BY DEF TypeOK, BusTypeOK, Message, Content
<1>2. rx' = Append(rx, m)
  BY DEF AnswerLate
<1>. HIDE DEF m
<1>3. /\ Append(rx, m) \in Seq(Message) /\ Len(rx) \in Nat /\ Len(Append(rx, m)) = Len(rx) + 1
      /\ \A i \in 1 .. Len(rx) + 1 : Append(rx, m)[i] = IF i <= Len(rx) THEN rx[i] ELSE m
  BY <1>1, AppendProperties, LenProperties
<1>4. \A i \in 1 .. Len(rx') : rx'[i] = m \/ (i \in 1 .. Len(rx) /\ rx'[i] = rx[i])
  BY <1>2, <1>3
<1>. QED
  BY <1>2, <1>3, <1>4 DEF m

LEMMA LateTypes ==
  ASSUME TypeOK, NEW n \in Stranger, AnswerLate(n)
  PROVE  TypeOK'
<1>1. ClientTypeOK'
  BY DEF AnswerLate, TypeOK, ClientTypeOK, Answered, clientVars
<1>2. BusTypeOK'
  BY LateEffect DEF AnswerLate, TypeOK, BusTypeOK
<1>3. BoardTypeOK'
  BY DEF AnswerLate, TypeOK, BoardTypeOK, boardVars, frozenVars
<1>. QED
  BY <1>1, <1>2, <1>3 DEF TypeOK

LEMMA TypeStep == TypeOK /\ [Next]_vars => TypeOK'
<1>. SUFFICES ASSUME TypeOK, [Next]_vars PROVE TypeOK'
  OBVIOUS
<1>1. CASE UNCHANGED vars
  <2>1. ClientTypeOK'
    BY <1>1 DEF vars, clientVars, TypeOK, ClientTypeOK, Answered
  <2>2. BusTypeOK'
    BY <1>1 DEF vars, TypeOK, BusTypeOK
  <2>3. BoardTypeOK'
    BY <1>1 DEF vars, boardVars, frozenVars, TypeOK, BoardTypeOK
  <2>. QED
    BY <2>1, <2>2, <2>3 DEF TypeOK
<1>. QED
  BY <1>1, ClientTypes, ExecuteTypes, ResetTypes, LateTypes DEF Next

(* Client, bus and boards keep their types, whatever the constants. *)
THEOREM TypeCorrect == Spec => []TypeOK
<1>. QED
  BY TypeInit, TypeStep, PTL DEF Spec

-----------------------------------------------------------------------------
(* A board has been, or is being, reported to hold the binary. *)
Reported(b) ==
  \/ b \in valid_nodes
  \/ \E i \in 1 .. Len(rx) : rx[i] = [src |-> b, content |-> "crc_new"]

(* It does, and nothing is on its way to it. *)
Settled(b) == inbox[b] = <<>> /\ \A p \in Page : flash[b][p] = "new"

(* Before the check nothing of a check is on its way. *)
NoCheckYet ==
  /\ outcome # "ok"
  /\ \A b \in Board : ~Reported(b) /\ \A i \in 1 .. Len(inbox[b]) : inbox[b][i].op # "crc"

(* Commands arrive in order and the check is the last one sent: a board that
   has answered it has nothing left to execute, so its flash stays as it is. *)
CheckInv ==
  /\ ~started => step = PING
  /\ step # CHECK => NoCheckYet
  /\ \A b \in Board : \A i \in 1 .. Len(inbox[b]) : inbox[b][i].op = "crc" => i = Len(inbox[b])
  /\ \A b \in Board : Reported(b) => Settled(b)
  /\ outcome = "ok" => valid_nodes = Board

SessionInv == TypeOK /\ CheckInv

LEMMA CheckInit == Init => CheckInv
BY ConstantFacts, EmptySeq DEF Init, CheckInv, NoCheckYet, Reported, Settled

-----------------------------------------------------------------------------
(* A step that tells of no new board keeps what was reported. *)
LEMMA StartCheck ==
  ASSUME SessionInv, NEW s \in PING .. CHECK, Start(s), step # CHECK, started' = TRUE,
         UNCHANGED <<valid_nodes, rx, flash>>
  PROVE  CheckInv'
<1>1. NoCheckYet /\ TypeOK
  BY DEF SessionInv, CheckInv
<1>2. \A b \in Board : inbox'[b] = inbox[b] \/ inbox'[b] = Append(inbox[b], Script[s])
  BY <1>1, WriteEffect DEF Start
<1>3. \A b \in Board : ~Reported(b)'
  BY <1>1 DEF NoCheckYet, Reported
<1>4. step' = s /\ outcome' # "ok"
  BY <1>1 DEF Start, NoCheckYet
<1>5. ASSUME NEW b \in Board, NEW i \in 1 .. Len(inbox'[b]), inbox'[b][i].op = "crc"
      PROVE  s = CHECK /\ i = Len(inbox'[b])
  <2>1. /\ inbox[b] \in Seq(Command) /\ Len(inbox[b]) \in Nat
        /\ \A j \in 1 .. Len(inbox[b]) : inbox[b][j].op # "crc"
    BY <1>1, LenProperties DEF NoCheckYet, TypeOK, BusTypeOK
  <2>2. inbox'[b] = Append(inbox[b], Script[s])
    BY <1>2, <1>5, <2>1
  <2>3. Script[s] \in Command /\ (Script[s].op = "crc" <=> s = CHECK)
    BY ScriptFacts
  <2>4. /\ Len(inbox'[b]) = Len(inbox[b]) + 1 /\ inbox'[b][Len(inbox[b]) + 1] = Script[s]
        /\ \A j \in 1 .. Len(inbox[b]) : inbox'[b][j] = inbox[b][j]
    BY <2>1, <2>2, <2>3, AppendProperties
  <2>5. i = Len(inbox[b]) + 1
    BY <1>5, <2>1, <2>4
  <2>. QED
    BY <1>5, <2>3, <2>4, <2>5
<1>. QED
  BY <1>3, <1>4, <1>5 DEF CheckInv, NoCheckYet

LEMMA ExitCheck ==
  ASSUME SessionInv, NEW result, Exit(result), UNCHANGED <<started, valid_nodes, flash>>,
         result = "ok" => step = CHECK /\ valid_nodes = Board
  PROVE  CheckInv'
<1>1. rx' = <<>> /\ inbox' = inbox /\ step' = step /\ outcome' = result
  BY DEF Exit
<1>2. \A b \in Board : Reported(b)' => Reported(b)
  BY <1>1, EmptySeq DEF Reported
<1>3. \A b \in Board : Settled(b)' <=> Settled(b)
  BY <1>1 DEF Settled
<1>4. step' # CHECK => NoCheckYet'
  BY <1>1, <1>2 DEF SessionInv, CheckInv, NoCheckYet
<1>. QED
  BY <1>1, <1>2, <1>3, <1>4 DEF SessionInv, CheckInv

LEMMA ReadCheck ==
  ASSUME SessionInv, Read, UNCHANGED <<readRest, started, step, outcome>>,
         valid_nodes' = valid_nodes \/ (/\ Head(rx).content = "crc_new" /\ step = CHECK
                                        /\ valid_nodes' = valid_nodes \cup {Head(rx).src}),
         outcome # "ok"
  PROVE  CheckInv'
<1>1. TypeOK /\ CheckInv
  BY DEF SessionInv
<1>2. /\ Len(rx) \in Nat \ {0} /\ Len(rx') = Len(rx) - 1 /\ Head(rx) = rx[1] /\ Head(rx) \in Message
      /\ \A i \in 1 .. Len(rx') : rx'[i] = rx[i + 1]
  BY <1>1, ReadEffect
<1>3. inbox' = inbox /\ flash' = flash
  BY DEF readRest, boardVars
<1>4. ASSUME NEW b \in Board, Reported(b)' PROVE Reported(b)
  <2>1. CASE b \in valid_nodes'
    <3>1. CASE b \in valid_nodes
      BY <3>1 DEF Reported
    <3>2. CASE b \notin valid_nodes
      <4>1. Head(rx).content = "crc_new" /\ Head(rx).src = b
        BY <2>1, <3>2
      <4>2. rx[1] = [src |-> b, content |-> "crc_new"]
        BY <1>2, <4>1 DEF Message
      <4>. QED
        BY <1>2, <4>2 DEF Reported
    <3>. QED
      BY <3>1, <3>2
  <2>2. CASE \E i \in 1 .. Len(rx') : rx'[i] = [src |-> b, content |-> "crc_new"]
    <3>1. PICK i \in 1 .. Len(rx') : rx'[i] = [src |-> b, content |-> "crc_new"]
      BY <2>2
    <3>2. i + 1 \in 1 .. Len(rx) /\ rx[i + 1] = [src |-> b, content |-> "crc_new"]
      BY <1>2, <3>1
    <3>. QED
      BY <3>2 DEF Reported
  <2>. QED
    BY <1>4, <2>1, <2>2 DEF Reported
<1>5. \A b \in Board : Settled(b)' <=> Settled(b)
  BY <1>3 DEF Settled
<1>6. step' # CHECK => NoCheckYet'
  BY <1>1, <1>3, <1>4 DEF CheckInv, NoCheckYet
<1>. QED
  BY <1>1, <1>3, <1>4, <1>5, <1>6 DEF CheckInv

LEMMA ClientCheck ==
  ASSUME SessionInv, Client
  PROVE  CheckInv'
<1>. USE DEF Running
<1>0. TypeOK /\ CheckInv
  BY DEF SessionInv
<1>1. CASE Begin
  BY <1>0, <1>1, StartCheck, ConstantFacts DEF Begin, CheckInv, boardVars
<1>2. CASE ReadBroken
  BY <1>2, ExitCheck DEF ReadBroken, boardVars
<1>3. CASE ReadPong
  BY <1>3, ReadCheck DEF ReadPong
<1>4. CASE PingTimeout
  <2>1. step # CHECK /\ step + 1 \in PING .. CHECK /\ started' = TRUE
    BY <1>4, ConstantFacts DEF PingTimeout
  <2>. QED
    BY <1>4, <2>1, StartCheck, ExitCheck DEF PingTimeout, boardVars
<1>5. CASE ReadAnswer
  BY <1>5, ReadCheck DEF ReadAnswer, Calling
<1>6. CASE Retry
  <2>1. step # CHECK /\ step \in PING .. CHECK /\ Script[step].op # "crc" /\ Script[step] \in Command
    BY <1>0, <1>6, ScriptFacts, ConstantFacts DEF Retry, CallTimeout, Calling, TypeOK, ClientTypeOK
  <2>2. \A b \in Board : inbox'[b] = inbox[b] \/ inbox'[b] = Append(inbox[b], Script[step])
    BY <1>0, <1>6, <2>1, WriteEffect DEF Retry
  <2>3. \A b \in Board : ~Reported(b)'
    BY <1>0, <1>6, <2>1 DEF CheckInv, NoCheckYet, Reported, Retry, retryRest
  <2>4. ASSUME NEW b \in Board, NEW i \in 1 .. Len(inbox'[b]) PROVE inbox'[b][i].op # "crc"
    <3>1. /\ inbox[b] \in Seq(Command) /\ Len(inbox[b]) \in Nat
          /\ \A j \in 1 .. Len(inbox[b]) : inbox[b][j].op # "crc"
      BY <1>0, <2>1, LenProperties DEF CheckInv, NoCheckYet, TypeOK, BusTypeOK
    <3>2. CASE inbox'[b] = inbox[b]
      BY <3>1, <3>2
    <3>3. CASE inbox'[b] = Append(inbox[b], Script[step])
      <4>1. /\ Len(inbox'[b]) = Len(inbox[b]) + 1 /\ inbox'[b][Len(inbox[b]) + 1] = Script[step]
            /\ \A j \in 1 .. Len(inbox[b]) : inbox'[b][j] = inbox[b][j]
        BY <2>1, <3>1, <3>3, AppendProperties
      <4>. QED
        BY <2>1, <3>1, <4>1
    <3>. QED
      BY <2>2, <3>2, <3>3
  <2>. QED
    BY <1>0, <1>6, <2>1, <2>3, <2>4 DEF CheckInv, NoCheckYet, Retry, retryRest
<1>7. CASE GiveUp
  BY <1>7, ExitCheck DEF GiveUp, boardVars
<1>8. CASE Return
  <2>1. step # CHECK /\ step + 1 \in PING .. CHECK /\ started' = TRUE
    BY <1>8, ConstantFacts DEF Return, Calling
  <2>. QED
    BY <1>8, <2>1, StartCheck, ExitCheck DEF Return, boardVars
<1>9. CASE ReadCrc
  BY <1>9, ReadCheck DEF ReadCrc
<1>10. CASE Verdict
  BY <1>10, ExitCheck DEF Verdict, boardVars
<1>. QED
  BY <1>1, <1>2, <1>3, <1>4, <1>5, <1>6, <1>7, <1>8, <1>9, <1>10 DEF Client

-----------------------------------------------------------------------------
(* A board that takes a command was not settled, and one that answers the
   check with the right CRC is settled from now on.                         *)
LEMMA ExecuteCheck ==
  ASSUME SessionInv, NEW b \in Board, Execute(b)
  PROVE  CheckInv'
<1>0. TypeOK /\ CheckInv
  BY DEF SessionInv
<1>1. PICK op \in {"ping", "erase", "write", "update", "save", "crc"}, content \in Content :
        /\ Take(b, op) /\ Answer(b, content)
        /\ content = "crc_new" => op = "crc" /\ flash' = flash /\ \A p \in Page : flash[b][p] = "new"
  <2>1. CASE ExecuteCrc(b)
    <3>1. CASE \A p \in Page : flash[b][p] = "new"
      <4>1. Take(b, "crc") /\ Answer(b, "crc_new") /\ flash' = flash
        BY <2>1, <3>1 DEF ExecuteCrc, boardVars
      <4>. QED
        BY <3>1, <4>1 DEF Content
    <3>2. CASE ~ \A p \in Page : flash[b][p] = "new"
      <4>1. Take(b, "crc") /\ Answer(b, "crc_other")
        BY <2>1, <3>2 DEF ExecuteCrc
      <4>. QED
        BY <4>1 DEF Content
    <3>. QED
      BY <3>1, <3>2
  <2>2. CASE ~ExecuteCrc(b)
    <3>1. \E op \in {"ping", "erase", "write", "update", "save"}, content \in {"true", "false"} :
            Take(b, op) /\ Answer(b, content)
      BY <2>2 DEF Execute, ExecutePing, ExecuteErase, ExecuteWrite, ExecuteUpdate, ExecuteSave
    <3>. QED
      BY <3>1 DEF Content
  <2>. QED
    BY <2>1, <2>2
<1>2. /\ Len(inbox[b]) \in Nat \ {0} /\ inbox[b][1].op = op
      /\ inbox' \in [Board -> Seq(Command)]
      /\ \A c \in Board \ {b} : inbox'[c] = inbox[c]
      /\ Len(inbox'[b]) = Len(inbox[b]) - 1
      /\ \A i \in 1 .. Len(inbox'[b]) : inbox'[b][i] = inbox[b][i + 1]
  BY <1>0, <1>1, TakeEffect
<1>3. /\ UNCHANGED <<started, step, valid_nodes, outcome>>
      /\ \A c \in Board \ {b} : flash'[c] = flash[c]
  BY <1>0 DEF Execute, ExecutePing, ExecuteErase, ExecuteWrite, ExecuteUpdate, ExecuteSave, ExecuteCrc,
              boardRest, clientVars, boardVars, TypeOK, BoardTypeOK
<1>4. \A i \in 1 .. Len(rx') : rx'[i] = [src |-> b, content |-> content] \/ (i \in 1 .. Len(rx) /\ rx'[i] = rx[i])
  BY <1>0, <1>1, AnswerEffect
<1>5. ~Reported(b)
  <2>1. inbox[b] # <<>>
    BY <1>1 DEF Take
  <2>. QED
    BY <1>0, <2>1 DEF CheckInv, Settled
<1>6. ASSUME NEW c \in Board, Reported(c)'
      PROVE  Reported(c) \/ (c = b /\ content = "crc_new")
  <2>1. CASE c \in valid_nodes'
    BY <1>3, <2>1 DEF Reported
  <2>2. CASE \E i \in 1 .. Len(rx') : rx'[i] = [src |-> c, content |-> "crc_new"]
    BY <1>4, <2>2 DEF Reported
  <2>. QED
    BY <1>6, <2>1, <2>2 DEF Reported
<1>7. ASSUME content = "crc_new" PROVE step = CHECK /\ Settled(b)'
  <2>0. 1 \in 1 .. Len(inbox[b]) /\ inbox[b][1].op = "crc"
    BY <1>1, <1>2, <1>7
  <2>1. step = CHECK /\ Len(inbox[b]) = 1
    BY <1>0, <2>0 DEF CheckInv, NoCheckYet
  <2>2. inbox'[b] = <<>>
    BY <1>2, <2>1, EmptySeq
  <2>. QED
    BY <1>1, <1>7, <2>1, <2>2 DEF Settled
<1>8. \A c \in Board : Reported(c)' => Settled(c)'
  <2>. SUFFICES ASSUME NEW c \in Board, Reported(c)' PROVE Settled(c)'
    OBVIOUS
  <2>1. CASE c = b
    BY <1>5, <1>6, <1>7, <2>1
  <2>2. CASE c # b
    BY <1>0, <1>2, <1>3, <1>6, <2>2 DEF CheckInv, Settled
  <2>. QED
    BY <2>1, <2>2
<1>9. ASSUME NEW c \in Board, NEW i \in 1 .. Len(inbox'[c]), inbox'[c][i].op = "crc"
      PROVE  i = Len(inbox'[c]) /\ step = CHECK
  <2>1. CASE c = b
    <3>1. i + 1 \in 1 .. Len(inbox[b]) /\ inbox[b][i + 1].op = "crc"
      BY <1>2, <1>9, <2>1
    <3>. QED
      BY <1>0, <1>2, <2>1, <3>1 DEF CheckInv, NoCheckYet
  <2>2. CASE c # b
    BY <1>0, <1>2, <1>9, <2>2 DEF CheckInv, NoCheckYet
  <2>. QED
    BY <2>1, <2>2
<1>10. step' # CHECK => NoCheckYet'
  BY <1>0, <1>3, <1>6, <1>7, <1>9 DEF CheckInv, NoCheckYet
<1>. QED
  BY <1>0, <1>3, <1>8, <1>9, <1>10 DEF CheckInv

LEMMA ResetCheck ==
  ASSUME SessionInv, NEW b \in Board, Reset(b)
  PROVE  CheckInv'
<1>0. TypeOK /\ CheckInv
  BY DEF SessionInv
<1>1. UNCHANGED <<started, step, valid_nodes, outcome, rx>>
  BY DEF Reset, boardRest, clientVars
<1>2. inbox'[b] = <<>> /\ Len(inbox'[b]) = 0 /\ \A c \in Board \ {b} : inbox'[c] = inbox[c] /\ flash'[c] = flash[c]
  BY <1>0, EmptySeq DEF Reset, TypeOK, BusTypeOK, BoardTypeOK
<1>3. \A c \in Board : Reported(c)' <=> Reported(c)
  BY <1>1 DEF Reported
<1>4. inbox[b] = <<>> => flash' = flash
  BY DEF Reset
<1>5. \A c \in Board : Settled(c) => Settled(c)'
  BY <1>2, <1>4 DEF Settled
<1>6. \A c \in Board : \A i \in 1 .. Len(inbox'[c]) : c # b
  BY <1>2
<1>. QED
  BY <1>0, <1>1, <1>2, <1>3, <1>5, <1>6 DEF CheckInv, NoCheckYet

LEMMA LateCheck ==
  ASSUME SessionInv, NEW n \in Stranger, AnswerLate(n)
  PROVE  CheckInv'
<1>0. TypeOK /\ CheckInv
  BY DEF SessionInv
<1>1. UNCHANGED <<started, step, valid_nodes, outcome, inbox, flash>>
  BY DEF AnswerLate, clientVars, boardVars
<1>2. \A i \in 1 .. Len(rx') : rx'[i] = [src |-> n, content |-> "true"] \/ (i \in 1 .. Len(rx) /\ rx'[i] = rx[i])
  BY <1>0, LateEffect
<1>3. \A b \in Board : Reported(b)' => Reported(b)
  BY <1>1, <1>2 DEF Reported
<1>. QED
  BY <1>0, <1>1, <1>3 DEF CheckInv, NoCheckYet, Settled

LEMMA SessionStep == SessionInv /\ [Next]_vars => SessionInv'
<1>. SUFFICES ASSUME SessionInv, [Next]_vars PROVE SessionInv'
  OBVIOUS
<1>1. TypeOK'
  BY TypeStep DEF SessionInv
<1>2. CASE UNCHANGED vars
  BY <1>1, <1>2 DEF SessionInv, CheckInv, NoCheckYet, Reported, Settled, vars, clientVars, boardVars
<1>. QED
  BY <1>1, <1>2, ClientCheck, ExecuteCheck, ResetCheck, LateCheck DEF Next, SessionInv

LEMMA SessionHolds == Spec => []SessionInv
<1>1. Init => SessionInv
  BY TypeInit, CheckInit DEF SessionInv
<1>. QED
  BY <1>1, SessionStep, PTL DEF Spec

(* A session that prints OK has flashed every board, whatever was lost, late,
   repeated or taken for another answer, and nothing is left that would
   change it.                                                               *)
THEOREM FlashedIfOk == Spec => []OkMeansFlashed
<1>1. SessionInv => OkMeansFlashed
  <2>. SUFFICES ASSUME SessionInv, outcome = "ok", NEW b \in Board
                PROVE  /\ \A p \in Page : flash[b][p] = "new"
                       /\ \A i \in 1 .. Len(inbox[b]) : inbox[b][i].op \notin {"erase", "write"}
    BY DEF OkMeansFlashed
  <2>1. Settled(b)
    BY DEF SessionInv, CheckInv, Reported
  <2>2. Len(inbox[b]) = 0
    BY <2>1, EmptySeq DEF Settled
  <2>. QED
    BY <2>1, <2>2 DEF Settled
<1>. QED
  BY <1>1, SessionHolds, PTL

-----------------------------------------------------------------------------
(* With a punctual bus a timeout means that nothing is on its way. Then each
   board has at most one command or answer on its way, and it belongs to
   this step.                                                               *)
Idle == rx = <<>> /\ \A b \in Board : inbox[b] = <<>>

OneOnItsWay ==
  /\ \A b \in Board : inbox[b] # <<>> =>
       /\ Len(inbox[b]) = 1 /\ inbox[b][1] = Script[step]
       /\ b \notin Answered /\ \A i \in 1 .. Len(rx) : rx[i].src # b
  /\ \A i \in 1 .. Len(rx) : rx[i].src \in served \ Answered
  /\ \A i, j \in 1 .. Len(rx) : rx[i].src = rx[j].src => i = j

PunctualInv ==
  punctual =>
    /\ owing = {}
    /\ ~started => Idle /\ Answered = {} /\ online_boards = {}
    /\ outcome = "none" => OneOnItsWay /\ Answered \subseteq served
    /\ outcome = "none" /\ step = PING => online_boards \subseteq served

LEMMA PunctualInit == Init => PunctualInv
BY EmptySeq DEF Init, PunctualInv, Idle, OneOnItsWay, Answered, NoAnswers

(* A step starts when nothing is on its way. *)
LEMMA StartOne ==
  ASSUME TypeOK, Idle, NEW s \in PING .. CHECK, Start(s), UNCHANGED rx
  PROVE  OneOnItsWay' /\ Answered' \subseteq served'
<1>1. \A b \in Board : inbox'[b] = inbox[b] \/ inbox'[b] = Append(inbox[b], Script[s])
  BY WriteEffect DEF Start
<1>2. Answered' = {} /\ rx' = <<>> /\ step' = s
  BY DEF Start, Answered, NoAnswers, Idle
<1>3. Script[s] \in Command
  BY ScriptFacts
<1>4. ASSUME NEW b \in Board, inbox'[b] # <<>> PROVE Len(inbox'[b]) = 1 /\ inbox'[b][1] = Script[s]
  <2>1. inbox'[b] = Append(<<>>, Script[s])
    BY <1>1, <1>4 DEF Idle
  <2>. QED
    BY <1>3, <2>1
<1>. QED
  BY <1>2, <1>4, EmptySeq DEF OneOnItsWay

(* What is read is the only answer of its source. *)
LEMMA ReadOne ==
  ASSUME TypeOK, OneOnItsWay, Read, UNCHANGED <<readRest, step>>,
         Answered' \subseteq Answered \cup {Head(rx).src}
  PROVE  /\ Head(rx).src \in served
         /\ OneOnItsWay'
<1>1. /\ Len(rx) \in Nat \ {0} /\ Len(rx') = Len(rx) - 1 /\ Head(rx) = rx[1]
      /\ \A i \in 1 .. Len(rx') : i + 1 \in 1 .. Len(rx) /\ rx'[i] = rx[i + 1]
  BY ReadEffect
<1>2. inbox' = inbox /\ served' = served /\ step' = step
  BY DEF readRest
<1>3. 1 \in 1 .. Len(rx)
  BY <1>1
<1>4. Head(rx).src \in served
  BY <1>1, <1>3 DEF OneOnItsWay
<1>5. \A i \in 1 .. Len(rx') : rx'[i].src \in served' \ Answered'
  <2>. SUFFICES ASSUME NEW i \in 1 .. Len(rx') PROVE rx'[i].src \in served' \ Answered'
    OBVIOUS
  <2>1. i + 1 \in 1 .. Len(rx) /\ rx'[i] = rx[i + 1] /\ i + 1 # 1
    BY <1>1
  <2>2. rx[i + 1].src # rx[1].src /\ rx[i + 1].src \in served \ Answered
    BY <1>3, <2>1 DEF OneOnItsWay
  <2>. QED
    BY <1>1, <1>2, <2>1, <2>2
<1>6. \A i, j \in 1 .. Len(rx') : rx'[i].src = rx'[j].src => i = j
  <2>. SUFFICES ASSUME NEW i \in 1 .. Len(rx'), NEW j \in 1 .. Len(rx'), rx'[i].src = rx'[j].src
                PROVE  i = j
    OBVIOUS
  <2>1. i + 1 = j + 1
    BY <1>1 DEF OneOnItsWay
  <2>. QED
    BY <1>1, <2>1
<1>7. ASSUME NEW b \in Board, inbox'[b] # <<>>
      PROVE  /\ Len(inbox'[b]) = 1 /\ inbox'[b][1] = Script[step']
             /\ b \notin Answered' /\ \A i \in 1 .. Len(rx') : rx'[i].src # b
  BY <1>1, <1>2, <1>3, <1>7 DEF OneOnItsWay
<1>. QED
  BY <1>4, <1>5, <1>6, <1>7 DEF OneOnItsWay

LEMMA CallReturns ==
  ASSUME TypeOK, PunctualInv, punctual, Return
  PROVE  served = Board /\ Idle
<1>1. outcome = "none" /\ Cardinality(Answered) >= Cardinality(Board) /\ OneOnItsWay /\ Answered \subseteq served
  BY DEF Return, Calling, Running, PunctualInv
<1>2. served \subseteq Board /\ IsFiniteSet(Board)
  BY SessionAssumption DEF TypeOK, BusTypeOK
<1>3. Answered = Board
  <2>1. Answered \subseteq Board
    BY <1>1, <1>2
  <2>2. Cardinality(Answered) <= Cardinality(Board) /\ (Cardinality(Answered) = Cardinality(Board) => Answered = Board)
    BY <1>2, <2>1, FS_Subset
  <2>3. Cardinality(Answered) \in Nat /\ Cardinality(Board) \in Nat
    BY <1>2, <2>1, FS_Subset, FS_CardinalityType
  <2>. QED
    BY <1>1, <2>2, <2>3
<1>4. rx = <<>>
  <2>1. \A i \in 1 .. Len(rx) : FALSE
    BY <1>1, <1>2, <1>3 DEF OneOnItsWay
  <2>2. rx \in Seq(Message) /\ Len(rx) \in Nat
    BY LenProperties DEF TypeOK, BusTypeOK
  <2>. QED
    BY <2>1, <2>2, EmptySeq
<1>. QED
  BY <1>1, <1>2, <1>3, <1>4 DEF Idle, OneOnItsWay

LEMMA PunctualClient ==
  ASSUME SessionInv, PunctualInv, punctual, Client
  PROVE  PunctualInv' /\ (step' # step => served = Board)
<1>. USE DEF Running
<1>0. TypeOK /\ (~started => step = PING)
  BY DEF SessionInv, CheckInv
<1>1. CASE Begin
  <2>1. Idle /\ step = PING /\ started' = TRUE /\ Start(PING) /\ UNCHANGED rx
    BY <1>0, <1>1 DEF Begin, PunctualInv
  <2>2. OneOnItsWay' /\ Answered' \subseteq served'
    BY <1>0, <2>1, StartOne, ConstantFacts
  <2>3. step' = step /\ online_boards' = {} /\ owing' = {}
    BY <1>1, <2>1 DEF Begin, Start, PunctualInv
  <2>. QED
    BY <2>1, <2>2, <2>3 DEF PunctualInv
<1>2. CASE ReadBroken
  BY <1>2 DEF ReadBroken, Reading, Calling, Exit, PunctualInv
<1>3. CASE ReadPong
  <2>1. Answered' = Answered /\ UNCHANGED <<readRest, step>> /\ Read /\ OneOnItsWay
    BY <1>3 DEF ReadPong, Answered, PunctualInv
  <2>2. Head(rx).src \in served /\ OneOnItsWay'
    BY <1>0, <2>1, ReadOne
  <2>. QED
    BY <1>3, <2>1, <2>2 DEF ReadPong, PunctualInv, readRest
<1>4. CASE PingTimeout
  <2>1. Idle /\ online_boards \subseteq served
    BY <1>4 DEF PingTimeout, Timeout, Idle, PunctualInv
  <2>2. step + 1 \in PING .. CHECK /\ step + 1 # PING
    BY <1>4, ConstantFacts DEF PingTimeout
  <2>3. CASE online_boards = Board
    <3>1. Start(step + 1) /\ UNCHANGED rx
      BY <1>4, <2>3 DEF PingTimeout
    <3>2. OneOnItsWay' /\ Answered' \subseteq served' /\ step' = step + 1
      BY <1>0, <2>1, <2>2, <3>1, StartOne DEF Start
    <3>3. served = Board
      BY <1>0, <2>1, <2>3 DEF TypeOK, BusTypeOK
    <3>. QED
      BY <1>4, <2>2, <3>2, <3>3 DEF PingTimeout, PunctualInv
  <2>4. CASE online_boards # Board
    BY <1>4, <2>4 DEF PingTimeout, Exit, PunctualInv
  <2>. QED
    BY <2>3, <2>4
<1>5. CASE ReadAnswer
  <2>1. Answered' = Answered \cup {Head(rx).src} /\ UNCHANGED <<readRest, step>> /\ Read /\ OneOnItsWay /\ step # PING
    BY <1>5, ConstantFacts DEF ReadAnswer, Calling, Answered, PunctualInv
  <2>2. Head(rx).src \in served /\ OneOnItsWay'
    BY <1>0, <2>1, ReadOne
  <2>. QED
    BY <1>5, <2>1, <2>2 DEF ReadAnswer, Calling, PunctualInv, readRest
<1>6. CASE Retry
  <2>1. Idle /\ OneOnItsWay /\ write_command(step, Board \ Answered) /\ step # PING
    BY <1>6, ConstantFacts DEF Retry, CallTimeout, Calling, Timeout, Idle, PunctualInv
  <2>2. step' = step /\ rx' = <<>> /\ Answered' = Answered /\ served' = served
    BY <1>6, <2>1 DEF Retry, retryRest, Idle, Answered
  <2>3. ASSUME NEW b \in Board, inbox'[b] # <<>>
        PROVE  Len(inbox'[b]) = 1 /\ inbox'[b][1] = Script[step] /\ b \notin Answered
    <3>1. step \in PING .. CHECK /\ Script[step] \in Command
      BY <1>0, ScriptFacts DEF TypeOK, ClientTypeOK
    <3>2. inbox'[b] = Append(<<>>, Script[step])
      BY <1>0, <2>1, <2>3, <3>1, WriteEffect DEF Idle
    <3>3. b \notin Answered
      BY <2>1, <2>3 DEF write_command, Idle
    <3>. QED
      BY <3>1, <3>2, <3>3
  <2>4. OneOnItsWay'
    BY <2>2, <2>3, EmptySeq DEF OneOnItsWay
  <2>. QED
    BY <1>6, <2>2, <2>4 DEF Retry, CallTimeout, Calling, retryRest, PunctualInv
<1>7. CASE GiveUp
  BY <1>7 DEF GiveUp, CallTimeout, Calling, Exit, PunctualInv
<1>8. CASE Return
  <2>1. served = Board /\ Idle
    BY <1>0, <1>8, CallReturns
  <2>2. step + 1 \in PING .. CHECK /\ step + 1 # PING
    BY <1>8, ConstantFacts DEF Return, Calling
  <2>3. CASE Exit("aborted")
    BY <1>8, <2>3 DEF Return, Calling, Exit, PunctualInv
  <2>4. CASE Start(step + 1) /\ UNCHANGED rx
    <3>1. OneOnItsWay' /\ Answered' \subseteq served' /\ step' = step + 1
      BY <1>0, <2>1, <2>2, <2>4, StartOne DEF Start
    <3>. QED
      BY <1>8, <2>1, <2>2, <3>1 DEF Return, Calling, PunctualInv
  <2>. QED
    BY <1>8, <2>3, <2>4 DEF Return
<1>9. CASE ReadCrc
  <2>1. Answered' = Answered /\ UNCHANGED <<readRest, step>> /\ Read /\ OneOnItsWay /\ step # PING
    BY <1>9, ConstantFacts DEF ReadCrc, Answered, PunctualInv
  <2>2. OneOnItsWay'
    BY <1>0, <2>1, ReadOne
  <2>. QED
    BY <1>9, <2>1, <2>2 DEF ReadCrc, PunctualInv, readRest
<1>10. CASE Verdict
  BY <1>10 DEF Verdict, Exit, PunctualInv
<1>. QED
  BY <1>1, <1>2, <1>3, <1>4, <1>5, <1>6, <1>7, <1>8, <1>9, <1>10 DEF Client

LEMMA PunctualExecute ==
  ASSUME SessionInv, PunctualInv, punctual, NEW b \in Board, Execute(b)
  PROVE  PunctualInv' /\ step' = step
<1>0. TypeOK
  BY DEF SessionInv
<1>1. PICK op \in {"ping", "erase", "write", "update", "save", "crc"}, content \in Content :
        Take(b, op) /\ Answer(b, content)
  BY DEF Execute, ExecutePing, ExecuteErase, ExecuteWrite, ExecuteUpdate, ExecuteSave, ExecuteCrc, Content
<1>2. UNCHANGED <<started, step, answers, online_boards, outcome, owing, punctual>>
  BY DEF Execute, ExecutePing, ExecuteErase, ExecuteWrite, ExecuteUpdate, ExecuteSave, ExecuteCrc,
         boardRest, clientVars, frozenVars
<1>3. /\ Len(inbox[b]) \in Nat \ {0} /\ Head(inbox[b]) = inbox[b][1]
      /\ inbox' \in [Board -> Seq(Command)]
      /\ \A c \in Board \ {b} : inbox'[c] = inbox[c]
      /\ Len(inbox'[b]) = Len(inbox[b]) - 1
  BY <1>0, <1>1, TakeEffect
<1>4. inbox[b] # <<>> /\ started
  BY <1>1 DEF Take, PunctualInv, Idle
<1>5. Answered' = Answered
  BY <1>2 DEF Answered
<1>6. CASE outcome # "none"
  BY <1>2, <1>4, <1>6 DEF PunctualInv
<1>7. CASE outcome = "none"
  <2>1. OneOnItsWay /\ Answered \subseteq served
    BY <1>7 DEF PunctualInv
  <2>2. /\ Len(inbox[b]) = 1 /\ inbox[b][1] = Script[step]
        /\ b \notin Answered /\ \A i \in 1 .. Len(rx) : rx[i].src # b
    BY <1>4, <2>1 DEF OneOnItsWay
  <2>3. inbox'[b] = <<>>
    BY <1>3, <2>2, EmptySeq
  <2>4. served' = served \cup {b}
    BY <1>1, <1>3, <2>2 DEF Take
  <2>5. rx' = rx \/ rx' = Append(rx, [src |-> b, content |-> content])
    BY <1>1 DEF Answer
  <2>a. \A c \in Board : inbox'[c] # <<>> => c # b /\ inbox'[c] = inbox[c]
    BY <1>3, <2>3
  <2>6. ASSUME rx' = rx PROVE OneOnItsWay'
    <3>1. \A i \in 1 .. Len(rx') : rx'[i].src \in served' \ Answered'
      BY <1>5, <2>1, <2>4, <2>6 DEF OneOnItsWay
    <3>2. \A i, j \in 1 .. Len(rx') : rx'[i].src = rx'[j].src => i = j
      BY <2>1, <2>6 DEF OneOnItsWay
    <3>3. \A c \in Board : inbox'[c] # <<>> =>
            /\ Len(inbox'[c]) = 1 /\ inbox'[c][1] = Script[step']
            /\ c \notin Answered' /\ \A i \in 1 .. Len(rx') : rx'[i].src # c
      BY <1>2, <1>5, <2>1, <2>6, <2>a DEF OneOnItsWay
    <3>. QED
      BY ONLY <3>1, <3>2, <3>3 DEF OneOnItsWay
  <2>7. ASSUME rx' = Append(rx, [src |-> b, content |-> content]) PROVE OneOnItsWay'
    <3>. DEFINE m == [src |-> b, content |-> content]
    <3>1. m \in Message /\ rx \in Seq(Message) /\ m.src = b
      BY <1>0 DEF TypeOK, BusTypeOK, Message
    <3>. HIDE DEF m
    <3>2. /\ Len(rx) \in Nat /\ Len(rx') = Len(rx) + 1 /\ rx'[Len(rx) + 1] = m
          /\ \A i \in 1 .. Len(rx) : rx'[i] = rx[i]
      BY <2>7, <3>1, AppendProperties, LenProperties DEF m
    <3>3. \A i \in 1 .. Len(rx') : rx'[i].src \in served' \ Answered'
      BY <1>5, <2>1, <2>2, <2>4, <3>1, <3>2 DEF OneOnItsWay
    <3>4. \A i, j \in 1 .. Len(rx') : rx'[i].src = rx'[j].src => i = j
      BY <2>1, <2>2, <3>1, <3>2 DEF OneOnItsWay
    <3>5. ASSUME NEW c \in Board, inbox'[c] # <<>>
          PROVE  /\ Len(inbox'[c]) = 1 /\ inbox'[c][1] = Script[step']
                 /\ c \notin Answered' /\ \A i \in 1 .. Len(rx') : rx'[i].src # c
      <4>1. c # b /\ inbox'[c] = inbox[c]
        BY <2>a, <3>5
      <4>. QED
        BY <1>2, <1>5, <2>1, <3>1, <3>2, <3>5, <4>1 DEF OneOnItsWay
    <3>. QED
      BY ONLY <3>3, <3>4, <3>5 DEF OneOnItsWay
  <2>8. OneOnItsWay'
    BY <2>5, <2>6, <2>7
  <2>. QED
    BY <1>2, <1>4, <1>5, <1>7, <2>1, <2>4, <2>8 DEF PunctualInv
<1>. QED
  BY <1>2, <1>6, <1>7

LEMMA PunctualReset ==
  ASSUME SessionInv, PunctualInv, NEW b \in Board, Reset(b)
  PROVE  PunctualInv' /\ step' = step
<1>1. UNCHANGED <<started, step, answers, online_boards, outcome, owing, punctual, rx, served>>
  BY DEF Reset, boardRest, clientVars, frozenVars
<1>2. inbox'[b] = <<>> /\ \A c \in Board \ {b} : inbox'[c] = inbox[c]
  BY DEF Reset, SessionInv, TypeOK, BusTypeOK
<1>3. Answered' = Answered
  BY <1>1 DEF Answered
<1>4. OneOnItsWay => OneOnItsWay'
  BY <1>1, <1>2, <1>3 DEF OneOnItsWay
<1>5. Idle => Idle'
  BY <1>1, <1>2 DEF Idle
<1>. QED
  BY <1>1, <1>3, <1>4, <1>5 DEF PunctualInv

LEMMA PunctualStep ==
  ASSUME SessionInv, PunctualInv, [Next]_vars
  PROVE  PunctualInv' /\ ((punctual /\ step' # step) => served = Board)
<1>1. CASE UNCHANGED vars
  BY <1>1 DEF PunctualInv, Idle, OneOnItsWay, Answered, vars, clientVars, frozenVars
<1>2. punctual' = punctual
  BY DEF Next, Client, Begin, ReadBroken, ReadPong, PingTimeout, ReadAnswer, Retry, GiveUp, Return, ReadCrc,
         Verdict, Execute, ExecutePing, ExecuteErase, ExecuteWrite, ExecuteUpdate, ExecuteSave, ExecuteCrc,
         Reset, AnswerLate, readRest, retryRest, boardRest, frozenVars, vars
<1>3. CASE ~punctual
  BY <1>2, <1>3 DEF PunctualInv
<1>4. CASE punctual /\ Next
  <2>1. ASSUME NEW n \in Stranger PROVE ~AnswerLate(n)
    BY <1>4 DEF AnswerLate, PunctualInv
  <2>. QED
    BY <1>4, <2>1, PunctualClient, PunctualExecute, PunctualReset DEF Next
<1>. QED
  BY <1>1, <1>3, <1>4

(* With a timeout longer than any answer takes, the session goes on only when
   every board has executed the command of the step.                        *)
THEOREM ServedIfPunctual == Spec => ServedWhenPunctual
<1>1. SessionInv /\ PunctualInv /\ [Next]_vars => PunctualInv' /\ [(punctual /\ step' # step) => served = Board]_vars
  BY PunctualStep
<1>2. Spec => [](SessionInv /\ PunctualInv)
  BY <1>1, PunctualInit, SessionHolds, PTL DEF Spec
<1>. QED
  BY <1>1, <1>2, PTL DEF Spec, ServedWhenPunctual

-----------------------------------------------------------------------------
(* With a punctual bus every board that is not disturbed has updated its
   configuration when the session is past the update, and saved it when it is
   past the save; while a command is answered, the boards that executed it.  *)
Past(s, b) == step > s \/ (step = s /\ b \in served)

SavedInv ==
  punctual /\ outcome \in {"none", "ok"} =>
    \A b \in Board \ disturbed :
      /\ Past(CHECK - 2, b) => config[b] = "new"
      /\ Past(CHECK - 1, b) => saved[b] = "new"

LEMMA SavedInit == Init => SavedInv
BY ConstantFacts DEF Init, SavedInv, Past

(* The client moves on by one step, when all have executed the last one. *)
LEMMA SavedClient ==
  ASSUME SessionInv, PunctualInv, SavedInv, punctual, Client
  PROVE  SavedInv'
<1>0. /\ step \in PING .. CHECK /\ step' \in PING .. CHECK
      /\ ~started => step = PING
      /\ PING # CHECK - 1 /\ PING # CHECK - 2 /\ CHECK \in Nat /\ PING = 1 /\ CHECK - 2 > PING
  <2>1. TypeOK'
    BY ClientTypes DEF SessionInv
  <2>. QED
    BY <2>1, ConstantFacts DEF SessionInv, TypeOK, ClientTypeOK, CheckInv
<1>1. UNCHANGED <<config, saved, disturbed, punctual>>
  BY DEF Client, Begin, ReadBroken, ReadPong, PingTimeout, ReadAnswer, Retry, GiveUp, Return, ReadCrc,
         Verdict, readRest, retryRest, boardVars, frozenVars
<1>2. CASE Begin
  <2>1. step' = PING
    BY <1>2 DEF Begin, Start
  <2>2. \A b \in Board : ~Past(CHECK - 2, b)' /\ ~Past(CHECK - 1, b)'
    BY <1>0, <2>1 DEF Past
  <2>. QED
    BY <2>2 DEF SavedInv
<1>3. CASE ~Begin
  <2>1. outcome = "none" /\ started
    BY <1>3 DEF Client, ReadBroken, ReadPong, PingTimeout, ReadAnswer, Retry, GiveUp, Return, ReadCrc, Verdict,
                CallTimeout, Calling, Running, Reading
  <2>2. \/ step' = step /\ served' = served
        \/ step' = step + 1
    BY <1>3 DEF Client, ReadBroken, ReadPong, PingTimeout, ReadAnswer, Retry, GiveUp, Return, ReadCrc, Verdict,
                Start, Exit, readRest, retryRest
  <2>3. CASE step' = step /\ served' = served
    BY <1>1, <2>1, <2>3 DEF SavedInv, Past
  <2>4. CASE step' = step + 1
    <3>1. served = Board /\ served' = {}
      BY <1>0, <1>3, <2>4, PunctualClient
          DEF Client, ReadBroken, ReadPong, PingTimeout, ReadAnswer, Retry, GiveUp, Return, ReadCrc, Verdict,
              Start, Exit, readRest, retryRest
    <3>2. ASSUME NEW b \in Board, NEW s \in Nat, Past(s, b)' PROVE Past(s, b)
      BY <1>0, <2>4, <3>1, <3>2 DEF Past
    <3>. QED
      BY <1>0, <1>1, <2>1, <3>2 DEF SavedInv
  <2>. QED
    BY <2>2, <2>3, <2>4
<1>. QED
  BY <1>2, <1>3

LEMMA SavedExecute ==
  ASSUME SessionInv, PunctualInv, SavedInv, punctual, NEW b \in Board, Execute(b)
  PROVE  SavedInv'
<1>1. PICK op \in {"ping", "erase", "write", "update", "save", "crc"}, content \in Content :
        Take(b, op) /\ Answer(b, content)
  BY DEF Execute, ExecutePing, ExecuteErase, ExecuteWrite, ExecuteUpdate, ExecuteSave, ExecuteCrc, Content
<1>2. TypeOK /\ inbox[b] # <<>> /\ step \in PING .. CHECK /\ served \subseteq Board
  BY <1>1 DEF SessionInv, TypeOK, ClientTypeOK, BusTypeOK, Take
<1>3. UNCHANGED <<step, outcome, punctual>> /\ disturbed \subseteq disturbed'
  BY DEF Execute, ExecutePing, ExecuteErase, ExecuteWrite, ExecuteUpdate, ExecuteSave, ExecuteCrc, Disturb,
         boardRest, clientVars, frozenVars
<1>4. outcome # "ok"
  BY <1>2 DEF SessionInv, CheckInv, Reported, Settled
<1>5. CASE outcome # "none"
  BY <1>3, <1>4, <1>5 DEF SavedInv
<1>6. CASE outcome = "none"
  <2>1. inbox[b][1] = Script[step] /\ Head(inbox[b]) = inbox[b][1] /\ inbox[b][1].op = op
    BY <1>1, <1>2, <1>6, TakeEffect DEF PunctualInv, OneOnItsWay
  <2>2. served' = served \cup {b}
    BY <1>1, <2>1 DEF Take
  <2>3. (op = "update" <=> step = CHECK - 2) /\ (op = "save" <=> step = CHECK - 1)
    BY <1>2, <2>1, ScriptFacts
  <2>4. ASSUME NEW c \in Board \ disturbed, c # b
        PROVE  /\ Past(CHECK - 2, c)' => config'[c] = "new"
               /\ Past(CHECK - 1, c)' => saved'[c] = "new"
    <3>1. config'[c] = config[c] /\ saved'[c] = saved[c]
      BY <1>2, <2>4 DEF Execute, ExecutePing, ExecuteErase, ExecuteWrite, ExecuteUpdate, ExecuteSave, ExecuteCrc,
                        boardVars, TypeOK, BoardTypeOK
    <3>2. \A s : Past(s, c)' => Past(s, c)
      BY <1>3, <2>2, <2>4 DEF Past
    <3>. QED
      BY <1>6, <2>4, <3>1, <3>2 DEF SavedInv
  <2>5. ASSUME b \notin disturbed'
        PROVE  /\ Past(CHECK - 2, b)' => config'[b] = "new"
               /\ Past(CHECK - 1, b)' => saved'[b] = "new"
    <3>1. b \notin disturbed /\ step' = step
      BY <1>3, <2>5
    <3>2. CASE op \notin {"update", "save"}
      <4>1. config' = config /\ saved' = saved
        BY <1>1, <2>1, <3>2 DEF Execute, ExecutePing, ExecuteErase, ExecuteWrite, ExecuteUpdate, ExecuteSave,
                        ExecuteCrc, Take, boardVars
      <4>2. Past(CHECK - 2, b)' => Past(CHECK - 2, b)
        BY <2>3, <3>1, <3>2 DEF Past
      <4>3. Past(CHECK - 1, b)' => Past(CHECK - 1, b)
        BY <2>3, <3>1, <3>2 DEF Past
      <4>. QED
        BY <1>6, <3>1, <4>1, <4>2, <4>3 DEF SavedInv
    <3>3. CASE op = "update"
      <4>1. config' = [config EXCEPT ![b] = "new"]
        BY <1>1, <2>1, <3>3 DEF Execute, ExecutePing, ExecuteErase, ExecuteWrite, ExecuteUpdate, ExecuteSave,
                        ExecuteCrc, Take
      <4>2. config'[b] = "new"
        BY <1>2, <4>1 DEF TypeOK, BoardTypeOK
      <4>3. step = CHECK - 2 /\ ~Past(CHECK - 1, b)'
        BY <2>3, <3>1, <3>3, ConstantFacts DEF Past
      <4>. QED
        BY <4>2, <4>3
    <3>4. CASE op = "save"
      <4>1. ExecuteSave(b)
        BY <1>1, <2>1, <3>4 DEF Execute, ExecutePing, ExecuteErase, ExecuteWrite, ExecuteUpdate, ExecuteCrc, Take
      <4>2. saved' = [saved EXCEPT ![b] = config[b]] /\ config' = config
        BY <2>5, <4>1 DEF ExecuteSave, Disturb
      <4>3. step = CHECK - 1 /\ Past(CHECK - 2, b)
        BY <2>3, <3>4, ConstantFacts DEF Past
      <4>4. config[b] = "new"
        BY <1>6, <3>1, <4>3 DEF SavedInv
      <4>5. saved'[b] = "new" /\ config'[b] = "new"
        BY <1>2, <4>2, <4>4 DEF TypeOK, BoardTypeOK
      <4>. QED
        BY <4>5
    <3>. QED
      BY <3>2, <3>3, <3>4
  <2>. QED
    BY <1>3, <2>4, <2>5 DEF SavedInv
<1>. QED
  BY <1>5, <1>6

LEMMA SavedReset ==
  ASSUME SessionInv, SavedInv, punctual, NEW b \in Board, Reset(b)
  PROVE  SavedInv'
<1>1. UNCHANGED <<step, outcome, punctual, served>> /\ disturbed' = disturbed \cup {b}
  BY DEF Reset, Disturb, boardRest, clientVars, frozenVars
<1>2. \A c \in Board \ {b} : config'[c] = config[c] /\ saved'[c] = saved[c]
  BY DEF Reset, SessionInv, TypeOK, BoardTypeOK
<1>. QED
  BY <1>1, <1>2 DEF SavedInv, Past

LEMMA SavedStep ==
  ASSUME SessionInv, PunctualInv, SavedInv, [Next]_vars
  PROVE  SavedInv'
<1>1. CASE UNCHANGED vars
  BY <1>1 DEF SavedInv, Past, vars, clientVars, frozenVars, boardVars
<1>2. punctual' = punctual
  BY DEF Next, Client, Begin, ReadBroken, ReadPong, PingTimeout, ReadAnswer, Retry, GiveUp, Return, ReadCrc,
         Verdict, Execute, ExecutePing, ExecuteErase, ExecuteWrite, ExecuteUpdate, ExecuteSave, ExecuteCrc,
         Reset, AnswerLate, readRest, retryRest, boardRest, frozenVars, vars
<1>3. CASE ~punctual
  BY <1>2, <1>3 DEF SavedInv
<1>4. CASE punctual /\ Next
  <2>1. ASSUME NEW n \in Stranger PROVE ~AnswerLate(n)
    BY <1>4 DEF AnswerLate, PunctualInv
  <2>. QED
    BY <1>4, <2>1, SavedClient, SavedExecute, SavedReset DEF Next
<1>. QED
  BY <1>1, <1>3, <1>4

(* With a timeout longer than any answer takes, OK means that every board that
   did not fail and was not reset has saved the new CRC and size.            *)
THEOREM SavedIfPunctual == Spec => []SavedWhenPunctual
<1>1. SessionInv /\ PunctualInv /\ SavedInv /\ [Next]_vars => PunctualInv' /\ SavedInv'
  BY PunctualStep, SavedStep
<1>2. SessionInv /\ SavedInv => SavedWhenPunctual
  <2>. SUFFICES ASSUME SessionInv, SavedInv, punctual, outcome = "ok", NEW b \in Board \ disturbed
                PROVE  saved[b] = "new"
    BY DEF SavedWhenPunctual
  <2>1. step = CHECK
    BY DEF SessionInv, CheckInv, NoCheckYet
  <2>2. Past(CHECK - 1, b)
    BY <2>1, ConstantFacts DEF Past
  <2>. QED
    BY <2>2 DEF SavedInv
<1>. QED
  BY <1>1, <1>2, PunctualInit, SavedInit, SessionHolds, PTL DEF Spec

-----------------------------------------------------------------------------
(* What waits at a board was sent, in the order of the script; and with a
   punctual bus it belongs to the step of the client, after the session too. *)
Sent(b) ==
  \A i \in 1 .. Len(inbox[b]) :
    /\ \E s \in PING .. step : inbox[b][i] = Script[s]
    /\ \A j \in i .. Len(inbox[b]) : Number(inbox[b][i]) <= Number(inbox[b][j])
    /\ punctual => inbox[b][i] = Script[step]

OrderInv ==
  /\ \A b \in Board : Sent(b)
  /\ ~started => served = {} /\ \A b \in Board : inbox[b] = <<>>

DirectInv == SessionInv /\ PunctualInv /\ OrderInv

LEMMA OrderInit == Init => OrderInv
BY EmptySeq DEF Init, OrderInv, Sent

(* A command of the script that was sent is at a place up to this one. *)
LEMMA SentNumber ==
  ASSUME DirectInv, NEW b \in Board, NEW i \in 1 .. Len(inbox[b])
  PROVE  /\ Number(inbox[b][i]) \in PING .. step
         /\ Script[Number(inbox[b][i])] = inbox[b][i]
         /\ punctual => Number(inbox[b][i]) = step
<1>1. step \in PING .. CHECK
  BY DEF DirectInv, SessionInv, TypeOK, ClientTypeOK
<1>2. PICK s \in PING .. step : inbox[b][i] = Script[s]
  BY DEF DirectInv, OrderInv, Sent
<1>3. s \in PING .. CHECK
  BY <1>1, ConstantFacts
<1>4. punctual => inbox[b][i] = Script[step]
  BY DEF DirectInv, OrderInv, Sent
<1>. QED
  BY <1>1, <1>2, <1>3, <1>4, NumberOf

LEMMA DueRange ==
  ASSUME DirectInv
  PROVE  /\ step \in PING .. CHECK
         /\ Due \in [Board -> Nat]
         /\ \A b \in Board : /\ Due[b] \in PING .. step
                             /\ inbox[b] = <<>> => Due[b] = step
                             /\ inbox[b] # <<>> => /\ Due[b] = Number(inbox[b][1]) /\ Script[Due[b]] = inbox[b][1]
                                                   /\ Head(inbox[b]) = inbox[b][1]
                                                   /\ punctual => Due[b] = step
<1>1. step \in PING .. CHECK /\ inbox \in [Board -> Seq(Command)]
  BY DEF DirectInv, SessionInv, TypeOK, ClientTypeOK, BusTypeOK
<1>2. ASSUME NEW b \in Board, inbox[b] # <<>>
      PROVE  /\ Due[b] = Number(inbox[b][1]) /\ Script[Due[b]] = inbox[b][1]
             /\ Head(inbox[b]) = inbox[b][1] /\ Due[b] \in PING .. step
             /\ punctual => Due[b] = step
  <2>1. 1 \in 1 .. Len(inbox[b]) /\ Head(inbox[b]) = inbox[b][1]
    BY <1>1, <1>2, EmptySeq
  <2>2. Due[b] = Number(inbox[b][1])
    BY <1>2, <2>1 DEF Due
  <2>. QED
    BY <2>1, <2>2, SentNumber
<1>3. ASSUME NEW b \in Board, inbox[b] = <<>> PROVE Due[b] = step /\ Due[b] \in PING .. step
  BY <1>1, <1>3 DEF Due, PING
<1>4. \A b \in Board : Due[b] \in Nat
  BY <1>1, <1>2, <1>3, ConstantFacts
<1>5. Due \in [Board -> Nat]
  BY <1>4 DEF Due
<1>. QED
  BY <1>1, <1>2, <1>3, <1>5

-----------------------------------------------------------------------------
(* A command that is sent is not before those that wait. *)
LEMMA WriteOrder ==
  ASSUME DirectInv, NEW s \in step .. CHECK, step' = s, punctual' = punctual,
         NEW D \in SUBSET Board, write_command(s, D),
         punctual => Idle \/ s = step
  PROVE  \A b \in Board : Sent(b)'
<1>0. TypeOK /\ step \in PING .. CHECK /\ s \in PING .. CHECK
  BY ConstantFacts DEF DirectInv, SessionInv, TypeOK, ClientTypeOK
<1>. SUFFICES ASSUME NEW b \in Board, NEW i \in 1 .. Len(inbox'[b])
              PROVE  /\ \E t \in PING .. s : inbox'[b][i] = Script[t]
                     /\ \A j \in i .. Len(inbox'[b]) : Number(inbox'[b][i]) <= Number(inbox'[b][j])
                     /\ punctual => inbox'[b][i] = Script[s]
  BY DEF Sent
<1>1. inbox'[b] = inbox[b] \/ inbox'[b] = Append(inbox[b], Script[s])
  BY <1>0, WriteEffect
<1>2. inbox[b] \in Seq(Command) /\ Len(inbox[b]) \in Nat /\ Script[s] \in Command
  BY <1>0, LenProperties, ScriptFacts DEF TypeOK, BusTypeOK
<1>3. ASSUME NEW k \in 1 .. Len(inbox[b])
      PROVE  /\ \E t \in PING .. s : inbox[b][k] = Script[t]
             /\ \A j \in k .. Len(inbox[b]) : Number(inbox[b][k]) <= Number(inbox[b][j])
             /\ Number(inbox[b][k]) <= s
             /\ punctual => inbox[b][k] = Script[s]
  <2>1. Sent(b)
    BY DEF DirectInv, OrderInv
  <2>2. PING .. step \subseteq PING .. s
    BY <1>0, ConstantFacts
  <2>3. Number(inbox[b][k]) <= s
    BY <1>0, SentNumber, ConstantFacts
  <2>4. ASSUME punctual PROVE s = step
    <3>1. inbox[b] # <<>>
      BY <1>2, <1>3, EmptySeq
    <3>. QED
      BY <2>4, <3>1 DEF Idle
  <2>. QED
    BY <2>1, <2>2, <2>3, <2>4 DEF Sent
<1>4. CASE inbox'[b] = inbox[b]
  BY <1>3, <1>4
<1>5. CASE inbox'[b] = Append(inbox[b], Script[s])
  <2>. DEFINE n == Len(inbox[b])
  <2>1. /\ Len(inbox'[b]) = n + 1 /\ inbox'[b][n + 1] = Script[s]
        /\ \A k \in 1 .. n : inbox'[b][k] = inbox[b][k]
    BY <1>2, <1>5, AppendProperties
  <2>2. Number(Script[s]) = s /\ s \in PING .. s /\ s \in Nat
    BY <1>0, NumberOf, ConstantFacts
  <2>3. CASE i \in 1 .. n
    <3>1. inbox'[b][i] = inbox[b][i]
      BY <2>1, <2>3
    <3>2. ASSUME NEW j \in i .. Len(inbox'[b])
          PROVE  Number(inbox[b][i]) <= Number(inbox'[b][j])
      <4>1. CASE j = n + 1
        BY <1>3, <2>1, <2>2, <2>3, <4>1
      <4>2. CASE j # n + 1
        <5>1. j \in 1 .. n /\ j \in i .. n
          BY <1>2, <2>1, <2>3, <4>2
        <5>. QED
          BY <1>3, <2>1, <2>3, <5>1
      <4>. QED
        BY <4>1, <4>2
    <3>. QED
      BY <1>3, <2>3, <3>1, <3>2
  <2>4. CASE i \notin 1 .. n
    <3>1. i = n + 1 /\ \A j \in i .. Len(inbox'[b]) : j = n + 1
      BY <1>2, <2>1, <2>4
    <3>2. Number(inbox'[b][i]) <= Number(inbox'[b][i])
      BY <2>1, <2>2, <3>1
    <3>. QED
      BY <2>1, <2>2, <3>1, <3>2
  <2>. QED
    BY <2>3, <2>4
<1>. QED
  BY <1>1, <1>4, <1>5

(* ... and does not change what is due, unless the client goes on. *)
LEMMA WriteDue ==
  ASSUME DirectInv, NEW s \in step .. CHECK, step' = s, NEW D \in SUBSET Board, write_command(s, D)
  PROVE  /\ Due' \in [Board -> Nat]
         /\ \A b \in Board : Due[b] <= Due'[b] /\ Due'[b] <= step'
         /\ s = step => Due' = Due
<1>0. TypeOK /\ step \in PING .. CHECK /\ s \in PING .. CHECK /\ step <= s
  BY ConstantFacts DEF DirectInv, SessionInv, TypeOK, ClientTypeOK
<1>1. Script[s] \in Command /\ Number(Script[s]) = s
  BY <1>0, ScriptFacts, NumberOf
<1>2. ASSUME NEW b \in Board
      PROVE  /\ Due'[b] \in Nat /\ Due[b] <= Due'[b] /\ Due'[b] <= s
             /\ s = step => Due'[b] = Due[b]
  <2>1. inbox[b] \in Seq(Command) /\ (inbox'[b] = inbox[b] \/ inbox'[b] = Append(inbox[b], Script[s]))
    BY <1>0, WriteEffect DEF TypeOK, BusTypeOK
  <2>2. Due'[b] = IF inbox'[b] = <<>> THEN s ELSE Number(Head(inbox'[b]))
    BY DEF Due
  <2>3. CASE inbox[b] = <<>>
    <3>1. Due[b] = step
      BY <2>3, DueRange
    <3>2. CASE inbox'[b] = <<>>
      BY <1>0, <2>2, <3>1, <3>2, ConstantFacts
    <3>3. CASE inbox'[b] # <<>>
      <4>1. inbox'[b] # <<>> /\ Head(inbox'[b]) = Script[s]
        BY <1>1, <2>1, <2>3, <3>3
      <4>. QED
        BY <1>0, <1>1, <2>2, <3>1, <4>1, ConstantFacts
    <3>. QED
      BY <3>2, <3>3
  <2>4. CASE inbox[b] # <<>>
    <3>1. inbox'[b] # <<>> /\ Head(inbox'[b]) = Head(inbox[b])
      <4>1. CASE inbox'[b] = inbox[b]
        BY <2>4, <4>1
      <4>2. CASE inbox'[b] = Append(inbox[b], Script[s])
        <5>1. /\ Len(inbox[b]) \in Nat \ {0} /\ Head(inbox[b]) = inbox[b][1]
          BY <2>1, <2>4, EmptySeq
        <5>2. /\ inbox'[b] \in Seq(Command) /\ Len(inbox'[b]) = Len(inbox[b]) + 1
              /\ inbox'[b][1] = inbox[b][1]
          BY <1>1, <2>1, <4>2, <5>1, AppendProperties
        <5>3. inbox'[b] # <<>> /\ Head(inbox'[b]) = inbox'[b][1]
          BY <5>1, <5>2, EmptySeq
        <5>. QED
          BY <5>1, <5>2, <5>3
      <4>. QED
        BY <2>1, <4>1, <4>2
    <3>2. Due'[b] = Due[b]
      BY <2>2, <2>4, <3>1 DEF Due
    <3>3. Due[b] \in PING .. step
      BY DueRange
    <3>. QED
      BY <1>0, <3>2, <3>3, ConstantFacts
  <2>. QED
    BY <2>3, <2>4
<1>3. Due' = [b \in Board |-> Due'[b]] /\ Due = [b \in Board |-> Due[b]]
  BY DEF Due
<1>4. ASSUME s = step PROVE Due' = Due
  <2>1. \A b \in Board : Due'[b] = Due[b]
    BY <1>2, <1>4
  <2>. QED
    BY ONLY <1>3, <2>1
<1>5. Due' \in [Board -> Nat]
  BY <1>2, <1>3
<1>. QED
  BY <1>2, <1>4, <1>5

-----------------------------------------------------------------------------
(* What the client does, as the abstract session sees it. *)
LEMMA StartDirect ==
  ASSUME DirectInv, step + 1 \in PING .. CHECK, Start(step + 1), outcome = "none", started' = TRUE,
         punctual => served = Board /\ Idle,
         UNCHANGED <<boardVars, frozenVars, disturbed>>
  PROVE  Direct!Advance /\ OrderInv'
<1>1. /\ step' = step + 1 /\ write_command(step + 1, Board) /\ served' = {} /\ outcome' = outcome
      /\ punctual' = punctual
  BY DEF Start, frozenVars
<1>2. step + 1 \in step .. CHECK /\ step < CHECK /\ step \in PING .. CHECK
  BY ConstantFacts, DueRange
<1>3. /\ Due' \in [Board -> Nat]
      /\ \A b \in Board : Due[b] <= Due'[b] /\ Due'[b] <= step'
  BY <1>1, <1>2, WriteDue
<1>4. \A b \in Board : Sent(b)'
  BY <1>1, <1>2, WriteOrder
<1>5. Len(Script) = CHECK
  BY ScriptAt
<1>. QED
  BY <1>1, <1>2, <1>3, <1>4, <1>5 DEF Direct!Advance, Direct!Skip, Direct!memory, OrderInv, boardVars, frozenVars

LEMMA ExitDirect ==
  ASSUME DirectInv, NEW result, Exit(result), outcome = "none",
         result \in {"offline", "aborted", "raised", "verification_failed", "ok"},
         result = "ok" => step = CHECK /\ valid_nodes = Board,
         UNCHANGED <<started, boardVars, frozenVars, disturbed>>
  PROVE  Direct!End /\ OrderInv'
<1>1. UNCHANGED <<inbox, step, served, punctual>> /\ outcome' = result
  BY DEF Exit, frozenVars
<1>2. Due' = Due
  BY <1>1 DEF Due
<1>3. Len(Script) = CHECK
  BY ScriptAt
<1>4. result = "ok" => \A b \in Board : Direct!Flashed(b)
  BY DEF DirectInv, SessionInv, CheckInv, Reported, Settled, Direct!Flashed
<1>5. Direct!End
  BY <1>1, <1>2, <1>3, <1>4 DEF Direct!End, Direct!memory, boardVars, frozenVars
<1>6. OrderInv'
  BY <1>1 DEF DirectInv, OrderInv, Sent
<1>. QED
  BY <1>5, <1>6

(* Steps that neither send nor execute. *)
LEMMA QuietDirect ==
  ASSUME DirectInv, UNCHANGED <<started, step, outcome, inbox, served, boardVars, frozenVars, disturbed>>
  PROVE  UNCHANGED Direct!vars /\ OrderInv'
<1>1. Due' = Due
  BY DEF Due
<1>2. OrderInv'
  BY DEF DirectInv, OrderInv, Sent, frozenVars
<1>. QED
  BY <1>1, <1>2 DEF Direct!vars, Direct!memory, boardVars, frozenVars

LEMMA ClientDirect ==
  ASSUME DirectInv, Client
  PROVE  (Direct!Next \/ UNCHANGED Direct!vars) /\ OrderInv'
<1>. USE DEF Running
<1>0. TypeOK /\ SessionInv /\ PunctualInv /\ step \in PING .. CHECK
  BY DEF DirectInv, SessionInv, TypeOK, ClientTypeOK
<1>1. CASE Begin
  <2>1. /\ step = PING /\ served = {} /\ step' = step /\ write_command(step, Board) /\ served' = served
        /\ UNCHANGED <<outcome, punctual, boardVars, frozenVars, disturbed>> /\ started' = TRUE
    BY <1>1 DEF Begin, Start, DirectInv, OrderInv, SessionInv, CheckInv, frozenVars
  <2>2. step \in step .. CHECK
    BY <1>0, ConstantFacts
  <2>3. Due' = Due
    BY <2>1, <2>2, WriteDue
  <2>4. \A b \in Board : Sent(b)'
    BY <2>1, <2>2, WriteOrder
  <2>. QED
    BY <2>1, <2>3, <2>4 DEF Direct!vars, Direct!memory, OrderInv, boardVars, frozenVars
<1>2. CASE ReadBroken
  BY <1>2, ExitDirect DEF ReadBroken, Reading, Calling, Direct!Next
<1>3. CASE ReadPong
  BY <1>3, QuietDirect DEF ReadPong, readRest
<1>4. CASE PingTimeout
  <2>1. step + 1 \in PING .. CHECK /\ started' = TRUE /\ outcome = "none"
    BY <1>4, ConstantFacts DEF PingTimeout
  <2>2. CASE online_boards = Board
    <3>1. Start(step + 1) /\ step' = step + 1 /\ UNCHANGED <<boardVars, frozenVars, disturbed>>
      BY <1>4, <2>2 DEF PingTimeout, Start
    <3>2. punctual => served = Board /\ Idle
      <4>1. punctual => served = Board
        BY <1>0, <1>4, <3>1, PunctualClient DEF Client
      <4>2. punctual => Idle
        BY <1>4 DEF PingTimeout, Timeout, Idle
      <4>. QED
        BY <4>1, <4>2
    <3>. QED
      BY <2>1, <3>1, <3>2, StartDirect DEF Direct!Next
  <2>3. CASE online_boards # Board
    BY <1>4, <2>1, <2>3, ExitDirect DEF PingTimeout, Direct!Next
  <2>. QED
    BY <2>2, <2>3
<1>5. CASE ReadAnswer
  BY <1>5, QuietDirect DEF ReadAnswer, readRest
<1>6. CASE Retry
  <2>1. /\ step' = step /\ write_command(step, Board \ Answered) /\ started' = started /\ started
        /\ UNCHANGED <<outcome, punctual, served, boardVars, frozenVars, disturbed>>
    BY <1>6 DEF Retry, CallTimeout, Calling, retryRest, frozenVars
  <2>2. step \in step .. CHECK
    BY <1>0, ConstantFacts
  <2>3. Due' = Due
    BY <2>1, <2>2, WriteDue
  <2>4. \A b \in Board : Sent(b)'
    BY <2>1, <2>2, WriteOrder
  <2>. QED
    BY <2>1, <2>3, <2>4 DEF Direct!vars, Direct!memory, OrderInv, boardVars, frozenVars
<1>7. CASE GiveUp
  BY <1>7, ExitDirect DEF GiveUp, CallTimeout, Calling, Direct!Next
<1>8. CASE Return
  <2>1. step + 1 \in PING .. CHECK /\ started' = TRUE /\ outcome = "none"
    BY <1>8, ConstantFacts DEF Return, Calling
  <2>2. CASE Exit("aborted")
    BY <1>8, <2>1, <2>2, ExitDirect DEF Return, Direct!Next
  <2>3. CASE Start(step + 1)
    <3>1. punctual => served = Board /\ Idle
      BY <1>0, <1>8, CallReturns
    <3>. QED
      BY <1>8, <2>1, <2>3, <3>1, StartDirect DEF Return, Direct!Next
  <2>. QED
    BY <1>8, <2>2, <2>3 DEF Return
<1>9. CASE ReadCrc
  BY <1>9, QuietDirect DEF ReadCrc, readRest
<1>10. CASE Verdict
  BY <1>10, ExitDirect DEF Verdict, Direct!Next
<1>. QED
  BY <1>1, <1>2, <1>3, <1>4, <1>5, <1>6, <1>7, <1>8, <1>9, <1>10 DEF Client

(* What a board does, as the abstract session sees it: it takes what is due,
   and what waits behind it is due later.                                   *)
LEMMA TakeDue ==
  ASSUME DirectInv, NEW b \in Board, NEW op, Take(b, op),
         UNCHANGED <<started, step, punctual>>
  PROVE  /\ Direct!Skip({b}) /\ OrderInv'
         /\ Due[b] \in PING .. CHECK /\ Script[Due[b]] = Head(inbox[b])
         /\ Script[Due[b]].op = op /\ Script[Due[b]] \in Command
         /\ punctual => Due[b] = step
         /\ served' = IF punctual THEN served \cup {b} ELSE served
<1>0. TypeOK /\ step \in PING .. CHECK
  BY DEF DirectInv, SessionInv, TypeOK, ClientTypeOK
<1>1. /\ inbox' \in [Board -> Seq(Command)]
      /\ Len(inbox[b]) \in Nat \ {0} /\ inbox[b][1] \in Command /\ inbox[b][1].op = op
      /\ Head(inbox[b]) = inbox[b][1]
      /\ \A c \in Board \ {b} : inbox'[c] = inbox[c]
      /\ Len(inbox'[b]) = Len(inbox[b]) - 1
      /\ \A i \in 1 .. Len(inbox'[b]) : inbox'[b][i] = inbox[b][i + 1]
  BY <1>0, TakeEffect
<1>2. inbox[b] # <<>> /\ started
  BY DEF Take, DirectInv, OrderInv
<1>3. /\ Due[b] = Number(inbox[b][1]) /\ Script[Due[b]] = inbox[b][1]
      /\ Due[b] \in PING .. step /\ (punctual => Due[b] = step)
  BY <1>2, DueRange
<1>4. Sent(b)'
  <2>1. \A i \in 1 .. Len(inbox'[b]) :
          /\ i + 1 \in 1 .. Len(inbox[b])
          /\ \A j \in i .. Len(inbox'[b]) : j + 1 \in i + 1 .. Len(inbox[b]) /\ j \in 1 .. Len(inbox'[b])
    BY <1>1
  <2>2. Sent(b)
    BY DEF DirectInv, OrderInv
  <2>. QED
    BY <1>1, <2>1, <2>2 DEF Sent
<1>5. \A c \in Board \ {b} : Sent(c)'
  BY <1>1 DEF Sent, DirectInv, OrderInv
<1>6. Due'[b] \in Nat /\ Due[b] <= Due'[b] /\ Due'[b] <= step
  <2>1. CASE inbox'[b] = <<>>
    <3>1. Due'[b] = step
      BY <2>1 DEF Due
    <3>. QED
      BY <1>0, <1>3, <3>1, ConstantFacts
  <2>2. CASE inbox'[b] # <<>>
    <3>1. Len(inbox'[b]) \in Nat \ {0} /\ Head(inbox'[b]) = inbox'[b][1]
      BY <1>1, <2>2, EmptySeq
    <3>. DEFINE m == Len(inbox[b])
                n == Len(inbox'[b])
    <3>a. m \in Nat \ {0} /\ n \in Nat \ {0} /\ n = m - 1
      BY <1>1, <3>1
    <3>. HIDE DEF m, n
    <3>b. 1 \in 1 .. n /\ 1 \in 1 .. m /\ 2 \in 1 .. m /\ 1 + 1 = 2
      BY ONLY <3>a
    <3>2. /\ 1 \in 1 .. Len(inbox'[b]) /\ 1 \in 1 .. Len(inbox[b])
          /\ 2 \in 1 .. Len(inbox[b]) /\ 1 + 1 = 2
      BY <3>b DEF m, n
    <3>3. inbox'[b][1] = inbox[b][2]
      BY <1>1, <3>2
    <3>4. Due'[b] = Number(inbox[b][2])
      BY <2>2, <3>1, <3>3 DEF Due
    <3>5. Number(inbox[b][1]) <= Number(inbox[b][2])
      BY <1>1, <3>2 DEF DirectInv, OrderInv, Sent
    <3>6. Number(inbox[b][2]) \in PING .. step
      BY <3>2, SentNumber
    <3>. QED
      BY <1>0, <1>3, <3>4, <3>5, <3>6, ConstantFacts
  <2>. QED
    BY <2>1, <2>2
<1>7. \A c \in Board \ {b} : Due'[c] = Due[c]
  BY <1>1 DEF Due
<1>8. Direct!Skip({b})
  <2>1. \A c \in Board : Due'[c] \in Nat /\ Due[c] <= Due'[c] /\ Due'[c] <= step'
    <3>. SUFFICES ASSUME NEW c \in Board PROVE Due'[c] \in Nat /\ Due[c] <= Due'[c] /\ Due'[c] <= step
      OBVIOUS
    <3>1. CASE c = b
      BY <1>6, <3>1
    <3>2. CASE c # b
      <4>1. Due[c] \in PING .. step /\ Due'[c] = Due[c]
        BY <1>7, <3>2, DueRange
      <4>. QED
        BY <1>0, <4>1, ConstantFacts
    <3>. QED
      BY <3>1, <3>2
  <2>2. Due' = [c \in Board |-> Due'[c]]
    BY DEF Due
  <2>3. Due' \in [Board -> Nat]
    BY <2>1, <2>2
  <2>. QED
    BY <1>7, <2>1, <2>3 DEF Direct!Skip
<1>9. OrderInv'
  BY <1>2, <1>4, <1>5 DEF OrderInv
<1>10. served' = IF punctual THEN served \cup {b} ELSE served
  BY <1>1, <1>3 DEF Take
<1>. QED
  BY <1>0, <1>1, <1>3, <1>8, <1>9, <1>10, ConstantFacts

LEMMA ExecuteDirect ==
  ASSUME DirectInv, NEW b \in Board, Execute(b)
  PROVE  Direct!Perform(b) /\ OrderInv'
<1>1. /\ UNCHANGED <<started, step, outcome, punctual, device_class>>
  BY DEF Execute, ExecutePing, ExecuteErase, ExecuteWrite, ExecuteUpdate, ExecuteSave, ExecuteCrc,
         boardRest, clientVars, frozenVars
<1>2. PICK op \in {"ping", "erase", "write", "update", "save", "crc"} : Take(b, op)
  BY DEF Execute, ExecutePing, ExecuteErase, ExecuteWrite, ExecuteUpdate, ExecuteSave, ExecuteCrc
<1>3. /\ Direct!Skip({b}) /\ OrderInv'
      /\ Script[Due[b]] = Head(inbox[b]) /\ Script[Due[b]].op = op
      /\ punctual => Due[b] = step
      /\ served' = IF punctual THEN served \cup {b} ELSE served
  BY <1>1, <1>2, TakeDue
<1>4. outcome # "ok"
  BY <1>2 DEF DirectInv, SessionInv, CheckInv, Reported, Settled, Take
<1>. DEFINE c == Script[Due[b]]
<1>5. \/ c.op = "erase" /\ Direct!Erase(b, c.page)
      \/ c.op = "write" /\ Direct!Write(b, c.page)
      \/ c.op = "update" /\ Direct!Update(b)
      \/ c.op = "save" /\ Direct!Save(b)
      \/ c.op \in {"ping", "crc"} /\ UNCHANGED <<Direct!memory, disturbed>>
  <2>1. CASE ExecuteErase(b)
    <3>1. c.op = "erase" /\ c = Head(inbox[b])
      BY <1>3, <2>1 DEF ExecuteErase, Take
    <3>2. Direct!Erase(b, c.page)
      BY <2>1, <3>1 DEF ExecuteErase, Direct!Erase
    <3>. QED
      BY <3>1, <3>2
  <2>2. CASE ExecuteWrite(b)
    <3>1. c.op = "write" /\ c = Head(inbox[b])
      BY <1>3, <2>2 DEF ExecuteWrite, Take
    <3>2. Direct!Write(b, c.page)
      BY <2>2, <3>1 DEF ExecuteWrite, Direct!Write, Direct!Disturb, Disturb, Written
    <3>. QED
      BY <3>1, <3>2
  <2>3. CASE ExecuteUpdate(b)
    BY <1>3, <2>3 DEF ExecuteUpdate, Take, Direct!Update
  <2>4. CASE ExecuteSave(b)
    BY <1>3, <2>4 DEF ExecuteSave, Take, Direct!Save, Direct!Disturb, Disturb
  <2>5. CASE ExecutePing(b) \/ ExecuteCrc(b)
    BY <1>3, <2>5 DEF ExecutePing, ExecuteCrc, Take, boardVars, Direct!memory
  <2>. QED
    BY <2>1, <2>2, <2>3, <2>4, <2>5 DEF Execute
<1>. HIDE DEF c
<1>6. Direct!Perform(b)
  BY <1>1, <1>3, <1>4, <1>5 DEF Direct!Perform, c
<1>. QED
  BY <1>3, <1>6

LEMMA ResetDirect ==
  ASSUME DirectInv, NEW b \in Board, Reset(b)
  PROVE  Direct!Reset(b) /\ OrderInv'
<1>0. TypeOK /\ step \in PING .. CHECK
  BY DEF DirectInv, SessionInv, TypeOK, ClientTypeOK
<1>1. UNCHANGED <<started, step, outcome, punctual, device_class, served>>
  BY DEF Reset, boardRest, clientVars, frozenVars
<1>2. inbox'[b] = <<>> /\ \A c \in Board \ {b} : inbox'[c] = inbox[c]
  BY <1>0 DEF Reset, TypeOK, BusTypeOK
<1>3. \A c \in Board : /\ c = b => Due'[c] = step
                       /\ c # b => Due'[c] = Due[c]
  BY <1>1, <1>2 DEF Due
<1>4. Direct!Skip({b})
  <2>1. \A c \in Board : Due'[c] \in Nat /\ Due[c] <= Due'[c] /\ Due'[c] <= step'
    <3>. SUFFICES ASSUME NEW c \in Board PROVE Due'[c] \in Nat /\ Due[c] <= Due'[c] /\ Due'[c] <= step
      BY <1>1
    <3>1. Due[c] \in PING .. step
      BY DueRange
    <3>. QED
      BY <1>0, <1>3, <3>1, ConstantFacts
  <2>2. Due' = [c \in Board |-> Due'[c]]
    BY DEF Due
  <2>3. Due' \in [Board -> Nat]
    BY <2>1, <2>2
  <2>. QED
    BY <1>3, <2>1, <2>3 DEF Direct!Skip
<1>5. inbox[b] # <<>> => Script[Due[b]] = Head(inbox[b]) /\ outcome # "ok"
  BY DueRange DEF DirectInv, SessionInv, CheckInv, Reported, Settled
<1>6. Direct!Disturb(b) /\ config' = [config EXCEPT ![b] = saved'[b]]
  BY DEF Reset, Disturb, Direct!Disturb
<1>7. \/ UNCHANGED <<flash, saved>>
      \/ /\ outcome # "ok" /\ Script[Due[b]].op \in {"erase", "write"} /\ device_class[b] = "own"
         /\ flash' = [flash EXCEPT ![b][Script[Due[b]].page] = "garbage"]
         /\ UNCHANGED saved
      \/ /\ outcome # "ok" /\ Script[Due[b]].op = "save"
         /\ saved' = [saved EXCEPT ![b] = config[b]]
         /\ UNCHANGED flash
  BY <1>5 DEF Reset
<1>8. Direct!Reset(b)
  BY <1>1, <1>4, <1>6, <1>7 DEF Direct!Reset
<1>9. OrderInv'
  <2>1. Sent(b)'
    BY <1>2, EmptySeq DEF Sent
  <2>2. \A c \in Board \ {b} : Sent(c)'
    BY <1>1, <1>2 DEF Sent, DirectInv, OrderInv
  <2>3. ~started' => served' = {} /\ \A c \in Board : inbox'[c] = <<>>
    BY <1>1, <1>2 DEF DirectInv, OrderInv
  <2>. QED
    BY <2>1, <2>2, <2>3 DEF OrderInv
<1>. QED
  BY <1>8, <1>9

LEMMA DirectStep ==
  ASSUME DirectInv, [Next]_vars
  PROVE  [Direct!Next]_(Direct!vars) /\ OrderInv'
<1>1. CASE UNCHANGED vars
  BY <1>1, QuietDirect DEF vars, clientVars, boardVars, frozenVars
<1>2. CASE Client
  BY <1>2, ClientDirect
<1>3. ASSUME NEW b \in Board, Execute(b) PROVE Direct!Next /\ OrderInv'
  BY <1>3, ExecuteDirect DEF Direct!Next
<1>4. ASSUME NEW b \in Board, Reset(b) PROVE Direct!Next /\ OrderInv'
  BY <1>4, ResetDirect DEF Direct!Next
<1>5. ASSUME NEW n \in Stranger, AnswerLate(n) PROVE UNCHANGED Direct!vars /\ OrderInv'
  BY <1>5, QuietDirect DEF AnswerLate, clientVars
<1>. QED
  BY <1>1, <1>2, <1>3, <1>4, <1>5 DEF Next

LEMMA DirectInit == Init => Direct!Init
<1>. SUFFICES ASSUME Init PROVE Direct!Init
  OBVIOUS
<1>1. Due = [b \in Board |-> 1] /\ step = 1
  BY DEF Init, Due, PING
<1>. QED
  BY <1>1 DEF Init, Direct!Init

(* The client, the bus and the boards implement the session as it would be if
   the boards were called directly, for every number of boards and pages, every
   retry limit and capacity: nothing that is lost, repeated, late or restarted
   makes a board go back in the script or ahead of the client.              *)
THEOREM Refinement == Spec => DirectSpec
<1>1. Init => DirectInv
  BY TypeInit, CheckInit, PunctualInit, OrderInit DEF DirectInv, SessionInv
<1>2. DirectInv /\ [Next]_vars => DirectInv' /\ [Direct!Next]_(Direct!vars)
  BY SessionStep, PunctualStep, DirectStep DEF DirectInv
<1>. QED
  BY <1>1, <1>2, DirectInit, PTL DEF Spec, DirectSpec, Direct!Spec
=============================================================================
