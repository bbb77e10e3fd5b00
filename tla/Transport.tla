------------------------------ MODULE Transport ------------------------------
(***************************************************************************)
(* A board listening to the bus: datagrams of several senders (the client  *)
(* and other boards answering it) arrive frame by frame, frames are lost,  *)
(* those of different senders mix, and the board restarts in the middle.   *)
(* The board has a single reader for all of them (bootloader_main), the    *)
(* client one for each board (read_can_datagrams).                         *)
(***************************************************************************)
EXTENDS HostReader, Functions, FiniteSets

CONSTANTS
  Source,    (* who sends                                              *)
  Client,    (* those that write with datagram.py, the others are boards *)
  Heard,     (* Heard["board"], Heard["client"]: who sends to a receiver  *)
  Content,   (* the datagrams: records of destinations and data        *)
  ID,        (* config.ID of the board                                 *)
  ADDR_CAP,  (* the size of addr_buf (128)                             *)
  MaxSends   (* bound: datagrams sent in a behaviour                   *)

ASSUME SourceAssumption == IsFiniteSet(Source)

ASSUME ContentAssumption ==
  /\ Content # {}
  /\ \A c \in Content :
       /\ c \in [dst : Seq(0 .. BYTE - 1), data : Seq(0 .. BYTE - 1)]
       /\ Len(c.dst) < BYTE /\ Len(c.data) < WORD
       /\ CrcValue[c] \in [1 .. CRC_LEN -> 0 .. BYTE - 1]

VARIABLES
  receiver,  (* the one that is looked at, "board" or "client", as neither
                has an influence on the other                               *)
  reader,    (* dt of bootloader_main                                       *)
  current,   (* the datagram each source sends or sent last                 *)
  queue,     (* its frames still to come                                    *)
  sent,      (* history: how often each content was sent                    *)
  said,      (* history: the contents each source sent                      *)
  executed,  (* history: how often the receiver executed or read a content  *)
  clean,     (* history: this board received all of the source's current
                datagram so far, and no other frame since its start         *)
  buf,       (* of read_can_datagrams: the bytes of each source             *)
  yielded,   (* what its last frame made the client's reader yield or raise *)
  fresh      (* history: the client received all of the source's current
                datagram so far, into an empty buffer                       *)

board == <<reader, clean>>
host  == <<buf, yielded, fresh>>
vars  == <<receiver, board, host, current, queue, sent, said, executed>>

Addressed(c) == \E i \in 1 .. Len(c.dst) : c.dst[i] = ID

Init ==
  /\ receiver \in {"board", "client"}
  /\ reader = can_datagram_start(can_datagram_init)
  /\ current \in [Source -> {CHOOSE c \in Content : TRUE}]
  /\ queue = [s \in Source |-> <<>>]
  /\ sent = [c \in Content |-> 0]
  /\ said = [s \in Source |-> {}]
  /\ executed = [c \in Content |-> 0]
  /\ clean = [s \in Source |-> FALSE]
  /\ buf = [s \in Source |-> <<>>]
  /\ yielded = Nothing
  /\ fresh = [s \in Source |-> FALSE]

-----------------------------------------------------------------------------
IsAnswer(c) == Len(c.dst) = 1 /\ c.data # <<>>

Raised == yielded.is \notin {"None", "datagram"}
NoYield == yielded' = IF Raised THEN yielded ELSE Nothing

(* write_command of a client, or the answer of another board *)
Send(s) ==
  /\ s \in Heard[receiver]
  /\ queue[s] = <<>>
  /\ FoldFunction(+, 0, sent) < MaxSends
  /\ \E c \in Content :
       /\ s \in Client \/ IsAnswer(c)
       /\ current' = [current EXCEPT ![s] = c]
       /\ queue' = [queue EXCEPT ![s] = IF s \in Client THEN datagram_to_frames(encode_datagram(c), s)
                                                         ELSE return_datagram(c, s)]
       /\ sent' = [sent EXCEPT ![c] = @ + 1]
       /\ said' = [said EXCEPT ![s] = @ \cup {c}]
  /\ clean' = [clean EXCEPT ![s] = FALSE]
  /\ fresh' = [fresh EXCEPT ![s] = FALSE]
  /\ NoYield
  /\ UNCHANGED <<receiver, reader, executed, buf>>

(* Mutant: the reader goes on after a complete datagram. *)
ReceiveNoRestart(frame) ==
  LET dt == Feed(IF frame.start THEN can_datagram_start(reader) ELSE reader, frame.bytes)
      c  == ContentOf(dt)
  IN  /\ reader' = dt
      /\ executed' = IF can_datagram_is_complete(dt) /\ can_datagram_is_valid(dt) /\ Addressed(c)
                       THEN [executed EXCEPT ![c] = @ + 1]
                       ELSE executed

(* Mutant: the start bit of a frame is ignored. *)
ReceiveIgnoresStart(frame) ==
  LET dt == Feed(reader, frame.bytes)
      c  == ContentOf(dt)
  IN  IF can_datagram_is_complete(dt)
        THEN /\ executed' = IF can_datagram_is_valid(dt) /\ Addressed(c)
                              THEN [executed EXCEPT ![c] = @ + 1]
                              ELSE executed
             /\ reader' = can_datagram_start(dt)
        ELSE /\ reader' = dt
             /\ UNCHANGED executed

(* What the loop of bootloader_main does with a frame. *)
Receive(frame) ==
  LET dt == Feed(IF frame.start THEN can_datagram_start(reader) ELSE reader, frame.bytes)
      c  == ContentOf(dt)
  IN  IF can_datagram_is_complete(dt)
        THEN /\ executed' = IF can_datagram_is_valid(dt) /\ Addressed(c)
                              THEN [executed EXCEPT ![c] = @ + 1]
                              ELSE executed
             /\ reader' = can_datagram_start(dt)
        ELSE /\ reader' = dt
             /\ UNCHANGED executed

(* Mutant: one buffer for all sources. *)
HostReceiveMixed(s, frame) ==
  LET bytes == buf[s] \o frame.bytes
      r     == decode_datagram(bytes)
  IN  /\ yielded' = r
      /\ executed' = IF r.is = "datagram" THEN [executed EXCEPT ![r.content] = @ + 1] ELSE executed
      /\ buf' = [t \in Source |-> IF r.is = "None" THEN bytes ELSE <<>>]
      /\ fresh' = [fresh EXCEPT ![s] = @ \/ (frame.start /\ buf[s] = <<>>)]

(* What read_can_datagrams does with a frame; what is raised ends the program. *)
HostReceive(s, frame) ==
  LET bytes == buf[s] \o frame.bytes
      r     == decode_datagram(bytes)
  IN  /\ yielded' = r
      /\ executed' = IF r.is = "datagram" THEN [executed EXCEPT ![r.content] = @ + 1] ELSE executed
      /\ buf' = [buf EXCEPT ![s] = IF r.is = "None" THEN bytes ELSE <<>>]
      /\ fresh' = [fresh EXCEPT ![s] = @ \/ (frame.start /\ buf[s] = <<>>)]

Deliver(s) ==
  /\ queue[s] # <<>>
  /\ queue' = [queue EXCEPT ![s] = Tail(@)]
  /\ \/ /\ receiver = "board"
        /\ Receive(Head(queue[s]))
        /\ clean' = [t \in Source |-> t = s /\ (clean[s] \/ Head(queue[s]).start)]
        /\ UNCHANGED host
     \/ /\ receiver = "client" /\ ~Raised
        /\ HostReceive(s, Head(queue[s]))
        /\ UNCHANGED board
  /\ UNCHANGED <<receiver, current, sent, said>>

(* The frame does not reach the receiver: a queue that overran during a flash
   operation, a sender that gave up after its retries.                      *)
Lose(s) ==
  /\ queue[s] # <<>>
  /\ queue' = [queue EXCEPT ![s] = Tail(@)]
  /\ clean' = [clean EXCEPT ![s] = FALSE]
  /\ fresh' = [fresh EXCEPT ![s] = FALSE]
  /\ NoYield
  /\ UNCHANGED <<receiver, reader, executed, buf, current, sent, said>>

(* The next command of the client, or the next program, has a new reader. *)
NewReader ==
  /\ receiver = "client"
  /\ buf' = [s \in Source |-> <<>>]
  /\ yielded' = Nothing
  /\ fresh' = [s \in Source |-> FALSE]
  /\ UNCHANGED <<receiver, board, current, queue, sent, said, executed>>

(* The board restarts, possibly in the middle of a datagram. *)
Restart ==
  /\ receiver = "board"
  /\ reader' = can_datagram_start(can_datagram_init)
  /\ clean' = [s \in Source |-> FALSE]
  /\ UNCHANGED <<receiver, host, current, queue, sent, said, executed>>

Next ==
  \/ \E s \in Source : Send(s)
  \/ \E s \in Source : Deliver(s)
  \/ \E s \in Source : Lose(s)
  \/ Restart
  \/ NewReader

Spec == Init /\ [][Next]_vars

-----------------------------------------------------------------------------
TypeOK ==
  /\ reader.state \in {"VERSION", "CRC", "DST_LEN", "DST", "DATA_LEN", "DATA", "TRAILING"}
  /\ reader.crc_read \in 0 .. CRC_LEN
  /\ Len(reader.dst) < BYTE
  /\ Len(reader.data) <= DATA_CAP
  /\ reader.len_read \in 0 .. LEN_LEN
  /\ reader.data_len \in 0 .. WORD - 1
  /\ current \in [Source -> Content]
  /\ DOMAIN executed = Content
  /\ clean \in [Source -> BOOLEAN] /\ fresh \in [Source -> BOOLEAN]
  /\ receiver \in {"board", "client"}

(* Boards and client write alike: byte by byte through can_datagram_output_bytes
   or cut by datagram_to_frames, a datagram is the same sequence of frames, of
   which the queue of its sender is what is still to come. *)
SameFrames ==
  \A s \in Source :
    LET all == datagram_to_frames(encode_datagram(current[s]), s)
    IN  queue[s] = SubSeq(all, Len(all) - Len(queue[s]) + 1, Len(all))

(* Whatever is lost, mixed or cut by a restart, the board executes nothing that
   was not sent, and nothing more often than it was sent; and the client reads
   no answer more often. *)
AtMostOnce == \A c \in Content : executed[c] <= sent[c]

(* A datagram for this board that arrives whole and alone is executed when its
   last frame comes, whatever state earlier frames left the reader in
   (PROTOCOL.markdown:6, "It must handle lost CAN frames gracefully"). *)
CleanDelivery ==
  [][\A s \in Source :
       /\ Len(queue[s]) = 1 /\ queue'[s] = <<>> /\ clean'[s]
       /\ Addressed(current[s]) /\ Len(current[s].data) \in 1 .. DATA_CAP
       => executed'[current[s]] = executed[current[s]] + 1]_vars

(* Whatever is lost, the client reads from a board nothing that this board did
   not send.  It may not be what it sends now: the first frames of an answer and
   the last of a later one are the earlier one when they end alike.           *)
HostReadsWhatWasSent ==
  [][\A s \in Source :
       queue'[s] # queue[s] /\ yielded'.is = "datagram" => yielded'.content \in said[s]]_vars

(* A datagram that comes whole into an empty buffer is yielded, however many
   frames of other boards, or of an earlier datagram of theirs, are in between:
   only the boards that lost a frame need a new reader (utils.py:151).      *)
HostDelivery ==
  [][\A s \in Source \ Client :
       Len(queue[s]) = 1 /\ queue'[s] = <<>> /\ fresh'[s]
       => yielded' = Whole(current[s])]_vars

(* The reader never writes past the address buffer it was given, "lost CAN
   frames" or not (PROTOCOL.markdown:6). *)
InsideAddressBuffer == Len(reader.dst) <= ADDR_CAP
=============================================================================
