------------------------------ MODULE Datagram ------------------------------
(***************************************************************************)
(* The transport format: a datagram as bytes, its CAN frames as the client *)
(* cuts them (datagram.py), and the reader of the boards, which is fed one *)
(* byte at a time (can_datagram.c).                                        *)
(*                                                                         *)
(* A byte is a number together with what it is a checksum of: the bytes of *)
(* a CRC carry the content they were computed from, so that a CRC matches  *)
(* when it is that of the content read, and any number when it is misread  *)
(* as a length or an address.  The widths of the fields are constants.     *)
(***************************************************************************)
EXTENDS Integers, Sequences

CONSTANTS
  BYTE,      (* a byte is below this (256)                                  *)
  CRC_LEN,   (* bytes of the CRC (4)                                        *)
  LEN_LEN,   (* bytes of the data length (4)                                *)
  FRAME,     (* bytes in a CAN frame (8)                                    *)
  DATA_CAP,  (* _data_buffer_size                                           *)
  CrcValue   (* the numbers the bytes of the CRC of a content happen to be *)

ASSUME WidthAssumption ==
  /\ BYTE \in Nat \ {0, 1}
  /\ {CRC_LEN, LEN_LEN, FRAME, DATA_CAP} \subseteq Nat \ {0}

CAN_DATAGRAM_VERSION == 1

-----------------------------------------------------------------------------
(* Writing. *)

Plain(n) == [n |-> n, of |-> <<>>]
PlainSeq(s) == [i \in 1 .. Len(s) |-> Plain(s[i])]

(* The CRC of a content, a record of destinations and data. *)
Crc(c) == [i \in 1 .. CRC_LEN |-> [n |-> CrcValue[c][i], of |-> <<c, i>>]]

(* What a byte with k bytes after it counts, and the values of the length. *)
Power == LET power[k \in 0 .. LEN_LEN] == IF k = 0 THEN 1 ELSE power[k - 1] * BYTE IN power
WORD == Power[LEN_LEN]

(* struct.pack of an unsigned number, most significant byte first *)
BigEndian(n) == [i \in 1 .. LEN_LEN |-> (n \div Power[LEN_LEN - i]) % BYTE]

encode_datagram(c) ==
  <<Plain(CAN_DATAGRAM_VERSION)>> \o Crc(c)
    \o <<Plain(Len(c.dst))>> \o PlainSeq(c.dst)
    \o PlainSeq(BigEndian(Len(c.data))) \o PlainSeq(c.data)

FrameCount(bytes) == (Len(bytes) + FRAME - 1) \div FRAME

(* The frames of a datagram: only the first has the start bit. *)
datagram_to_frames(bytes, source) ==
  LET upTo(i) == IF i * FRAME < Len(bytes) THEN i * FRAME ELSE Len(bytes)
  IN  [i \in 1 .. FrameCount(bytes) |->
        [src |-> source, start |-> i = 1, bytes |-> SubSeq(bytes, (i - 1) * FRAME + 1, upTo(i))]]

(* The writer of the boards, one byte of a state at a time: the index counts
   the bytes written in the state.  It is used for answers, which have one
   destination and some data. *)
can_datagram_writer == [state |-> "VERSION", i |-> 0]

OutputByte(c, w) ==
  CASE w.state = "VERSION"  -> Plain(CAN_DATAGRAM_VERSION)
    [] w.state = "CRC"      -> Crc(c)[w.i + 1]
    [] w.state = "DST_LEN"  -> Plain(Len(c.dst))
    [] w.state = "DST"      -> Plain(c.dst[w.i + 1])
    [] w.state = "DATA_LEN" -> Plain(BigEndian(Len(c.data))[w.i + 1])
    [] w.state = "DATA"     -> Plain(c.data[w.i + 1])

Advance(c, w) ==
  LET after(length, next) == IF w.i + 1 = length THEN [state |-> next, i |-> 0] ELSE [w EXCEPT !.i = @ + 1]
  IN  CASE w.state = "VERSION"  -> after(1, "CRC")
        [] w.state = "CRC"      -> after(CRC_LEN, "DST_LEN")
        [] w.state = "DST_LEN"  -> after(1, "DST")
        [] w.state = "DST"      -> after(Len(c.dst), "DATA_LEN")
        [] w.state = "DATA_LEN" -> after(LEN_LEN, "DATA")
        [] w.state = "DATA"     -> [w EXCEPT !.i = @ + 1]

(* At most a frame of bytes; none when all the data is written. *)
can_datagram_output_bytes(c, w) ==
  LET written(v) == v.state = "DATA" /\ v.i = Len(c.data)
      out[n \in 0 .. FRAME] ==
        IF n = 0 THEN [w |-> w, bytes |-> <<>>]
        ELSE LET o == out[n - 1]
             IN  IF written(o.w) THEN o
                 ELSE [w |-> Advance(c, o.w), bytes |-> Append(o.bytes, OutputByte(c, o.w))]
  IN  out[FRAME]

(* Mutant: every frame has the start bit. *)
ReturnAllStart(c, source) ==
  LET sent[n \in 0 .. FrameCount(encode_datagram(c)) + 1] ==
        IF n = 0 THEN [w |-> can_datagram_writer, frames |-> <<>>]
        ELSE LET o == sent[n - 1]
                 f == can_datagram_output_bytes(c, o.w)
             IN  IF f.bytes = <<>> THEN o
                 ELSE [w |-> f.w, frames |-> Append(o.frames, [src |-> source, start |-> TRUE, bytes |-> f.bytes])]
  IN  sent[FrameCount(encode_datagram(c)) + 1].frames

(* return_datagram: frames until there are no more bytes. *)
return_datagram(c, source) ==
  LET sent[n \in 0 .. FrameCount(encode_datagram(c)) + 1] ==
        IF n = 0 THEN [w |-> can_datagram_writer, frames |-> <<>>]
        ELSE LET o == sent[n - 1]
                 f == can_datagram_output_bytes(c, o.w)
             IN  IF f.bytes = <<>> THEN o
                 ELSE [w |-> f.w, frames |-> Append(o.frames, [src |-> source, start |-> n = 1, bytes |-> f.bytes])]
  IN  sent[FrameCount(encode_datagram(c)) + 1].frames

-----------------------------------------------------------------------------
(* Reading.  The buffers are kept up to the index that is read next: what is
   beyond it is stale and no function reads it. *)

can_datagram_init ==
  [state |-> "VERSION", version |-> CAN_DATAGRAM_VERSION,
   crc |-> [i \in 1 .. CRC_LEN |-> Plain(0)], crc_read |-> 0,
   dst_len |-> 0, dst |-> <<>>,
   data_len |-> 0, len_read |-> 0, data |-> <<>>]

(* Mutant: the length counter is not cleared. *)
StartKeepsCounter(dt) ==
  [dt EXCEPT !.state = "VERSION", !.crc_read = 0, !.dst = <<>>, !.data = <<>>]

can_datagram_start(dt) ==
  [dt EXCEPT !.state = "VERSION", !.crc_read = 0, !.dst = <<>>, !.data = <<>>, !.len_read = 0]

(* One state of the reader each.  The index of the destinations is a byte:
   it wraps, and is compared with the length only after it moved. *)
InputVersion(dt, b) == [dt EXCEPT !.version = b.n, !.state = "CRC"]

InputCrc(dt, b) ==
  [dt EXCEPT !.crc = Append(Tail(@), b),
             !.crc_read = @ + 1,
             !.state = IF dt.crc_read + 1 = CRC_LEN THEN "DST_LEN" ELSE @]

InputDstLen(dt, b) == [dt EXCEPT !.dst_len = b.n, !.state = "DST"]

InputDst(dt, b) ==
  LET read == (Len(dt.dst) + 1) % BYTE
  IN  [dt EXCEPT !.dst = IF read = 0 THEN <<>> ELSE Append(@, b.n),
                 !.state = IF read = dt.dst_len THEN "DATA_LEN" ELSE @]

InputDataLen(dt, b) ==
  [dt EXCEPT !.data_len = (@ * BYTE + b.n) % WORD,
             !.len_read = @ + 1,
             !.state = IF dt.len_read + 1 = LEN_LEN THEN "DATA" ELSE @]

InputData(dt, b) ==
  [dt EXCEPT !.data = Append(@, b.n),
             !.state = IF Len(dt.data) + 1 \in {dt.data_len, DATA_CAP} THEN "TRAILING" ELSE @]

can_datagram_input_byte(dt, b) ==
  CASE dt.state = "VERSION"  -> InputVersion(dt, b)
    [] dt.state = "CRC"      -> InputCrc(dt, b)
    [] dt.state = "DST_LEN"  -> InputDstLen(dt, b)
    [] dt.state = "DST"      -> InputDst(dt, b)
    [] dt.state = "DATA_LEN" -> InputDataLen(dt, b)
    [] dt.state = "DATA"     -> InputData(dt, b)
    [] dt.state = "TRAILING" -> dt

(* The loop of bootloader_main over the bytes of a frame. *)
Feed(dt, bytes) ==
  LET fed[i \in 0 .. Len(bytes)] ==
        IF i = 0 THEN dt ELSE can_datagram_input_byte(fed[i - 1], bytes[i])
  IN  fed[Len(bytes)]

can_datagram_is_complete(dt) ==
  dt.state # "VERSION" /\ Len(dt.data) = dt.data_len /\ dt.len_read = LEN_LEN

ContentOf(dt) == [dst |-> dt.dst, data |-> dt.data]

can_datagram_is_valid(dt) ==
  /\ \A i \in 1 .. CRC_LEN : dt.crc[i].of = <<ContentOf(dt), i>>
  /\ dt.version = CAN_DATAGRAM_VERSION
=============================================================================
