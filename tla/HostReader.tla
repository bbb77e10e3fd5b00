------------------------------ MODULE HostReader ------------------------------
(***************************************************************************)
(* The reader of the client (datagram.py, utils.py): it keeps the bytes of *)
(* every source in a buffer of its own, does not look at the start bit,    *)
(* and tries to decode the buffer after every frame.                       *)
(***************************************************************************)
EXTENDS Datagram

(* struct.unpack of an unsigned number *)
Number(bytes) ==
  LET upTo[i \in 0 .. Len(bytes)] == IF i = 0 THEN 0 ELSE upTo[i - 1] * BYTE + bytes[i].n
  IN  upTo[Len(bytes)]

Numbers(bytes) == [i \in 1 .. Len(bytes) |-> bytes[i].n]

(* Where the fields are: each slice is as long as there are bytes. *)
Slice(bytes, first, length) == SubSeq(bytes, first, IF first + length - 1 < Len(bytes) THEN first + length - 1 ELSE Len(bytes))

Nothing == [is |-> "None", content |-> <<>>]
Raises(error) == [is |-> error, content |-> <<>>]
Whole(c) == [is |-> "datagram", content |-> c]

(* Mutant: the CRC is not computed. *)
DecodeUnchecked(bytes) ==
  LET HEADER  == CRC_LEN + 2
      dst_len == bytes[HEADER].n
      c       == [dst  |-> Numbers(Slice(bytes, HEADER + 1, dst_len)),
                  data |-> Numbers(SubSeq(bytes, HEADER + dst_len + LEN_LEN + 1, Len(bytes)))]
  IN  IF bytes[1].n # CAN_DATAGRAM_VERSION THEN Raises("VersionMismatchError")
      ELSE IF \/ Len(bytes) < HEADER
              \/ Len(bytes) < HEADER + dst_len + LEN_LEN
              \/ Number(Slice(bytes, HEADER + dst_len + 1, LEN_LEN)) # Len(c.data) THEN Nothing
      ELSE Whole(c)

(* Too few bytes for a field are a struct.error, hence None; so are too few
   and too many bytes of data.                                              *)
decode_datagram(bytes) ==
  LET HEADER  == CRC_LEN + 2
      dst_len == bytes[HEADER].n
      c       == [dst  |-> Numbers(Slice(bytes, HEADER + 1, dst_len)),
                  data |-> Numbers(SubSeq(bytes, HEADER + dst_len + LEN_LEN + 1, Len(bytes)))]
  IN  IF bytes[1].n # CAN_DATAGRAM_VERSION THEN Raises("VersionMismatchError")
      ELSE IF \/ Len(bytes) < HEADER
              \/ Len(bytes) < HEADER + dst_len + LEN_LEN
              \/ Number(Slice(bytes, HEADER + dst_len + 1, LEN_LEN)) # Len(c.data) THEN Nothing
      ELSE IF \E i \in 1 .. CRC_LEN : bytes[i + 1].of # <<c, i>> THEN Raises("CRCMismatchError")
      ELSE Whole(c)
=============================================================================
