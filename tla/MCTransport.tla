----------------------------- MODULE MCTransport -----------------------------
(* A client and other boards, and datagrams of one to four frames: for this
   board (1), for both, for the other only, for nobody, and too long.  Two end
   alike, and the third frame of one looks like its first. *)
EXTENDS Transport

CONSTANTS client, board_a, board_b

MCContent == {
  [dst |-> <<1>>, data |-> <<1>>],
  [dst |-> <<1, 2>>, data |-> <<1, 0, 7>>],
  [dst |-> <<2>>, data |-> <<1, 0>>],
  [dst |-> <<2>>, data |-> <<4, 0>>],
  [dst |-> <<>>, data |-> <<1, 1>>],
  [dst |-> <<1>>, data |-> <<3, 1, 7, 4, 1>>],
  [dst |-> <<1>>, data |-> <<1, 5, 1, 0, 1, 1>>]}

(* A long write to this board alone. *)
MCLongWrite == {[dst |-> <<1>>, data |-> <<6, 4, 1, 2, 3, 5, 7>>]}

(* The board hears the client and another board, the client two boards. *)
MCHeard == [board |-> {client, board_a}, client |-> {board_a, board_b}]
MCHeardByBoard == [board |-> {client}, client |-> {}]

(* Low enough to be taken for a length, and too high for one. *)
MCCrcValue == [c \in Content |-> [i \in 1 .. 2 |-> IF i = 1 THEN 7 ELSE (Len(c.data) - 1) % BYTE]]
=============================================================================
