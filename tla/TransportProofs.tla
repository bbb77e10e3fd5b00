--------------------------- MODULE TransportProofs ---------------------------
(***************************************************************************)
(* What holds of the bus for every set of senders, every set of datagrams  *)
(* and every width of the fields: boards and client cut a datagram into    *)
(* the same frames; the reader of a board stays inside its buffers; what   *)
(* was sent is executed, or read, at most once; the client reads only what *)
(* the board it takes for the source did send; and both receive a datagram *)
(* that reaches them whole.                                                *)
(*                                                                         *)
(* The writer and the reader are recursions over bytes.  The first part    *)
(* proves what is needed of them: a recursive function exists, has one     *)
(* value, and stays in a set that each of its steps stays in.              *)
(***************************************************************************)
EXTENDS Transport, TLAPS, WellFoundedInduction, SequenceTheorems, FiniteSetTheorems

-----------------------------------------------------------------------------
(* Induction, with sets for the propositions: the least number at which one
   fails.                                                                   *)
LEMMA LeastNumber ==
  ASSUME NEW T, T \subseteq Nat, T # {}
  PROVE  \E n \in T : \A m \in T : n <= m
<1>1. IsWellFoundedOn(OpToRel(<, Nat), Nat)
  BY NatLessThanWellFounded
<1>2. \E x \in T : \A y \in T : ~ (<<y, x>> \in OpToRel(<, Nat))
  BY <1>1, WFMin
<1>3. \A x, y \in Nat : y < x => <<y, x>> \in OpToRel(<, Nat)
  BY DEF OpToRel
<1>4. \A x, y \in Nat : ~(y < x) => x <= y
  BY SMT
<1>. QED
  BY <1>2, <1>3, <1>4

(* A set of numbers that holds 0 and with each number below n the next one. *)
LEMMA InductionTo ==
  ASSUME NEW n \in Nat, NEW T, 0 \in T, \A i \in 0 .. n : i < n /\ i \in T => i + 1 \in T
  PROVE  0 .. n \subseteq T
<1>. DEFINE U == {i \in 0 .. n : i \notin T}
<1>1. SUFFICES ASSUME U # {} PROVE FALSE
  BY Zenon
<1>2. U \subseteq Nat
  BY SMT
<1>3. PICK i \in U : \A j \in U : i <= j
  BY <1>1, <1>2, LeastNumber, Zenon
<1>4. i # 0 /\ i \in 0 .. n /\ i \notin T
  BY <1>3, Zenon
<1>5. i - 1 \in 0 .. n /\ i - 1 < n /\ (i - 1) + 1 = i /\ ~(i <= i - 1)
  BY <1>4, SMT
<1>6. i - 1 \in T
  BY <1>3, <1>5, Zenon
<1>. QED
  BY <1>4, <1>5, <1>6, Zenon

(* A recursion begins with a, and g makes each value of the one before it. *)
Solves(f, S, n, a, g) ==
  /\ f \in [0 .. n -> S]
  /\ f[0] = a
  /\ \A i \in 1 .. n : f[i] = g[i][f[i - 1]]

LEMMA Recursion ==
  ASSUME NEW S, NEW n \in Nat, NEW a \in S, NEW g \in [1 .. n -> [S -> S]]
  PROVE  \E f : Solves(f, S, n, a, g)
<1>. DEFINE Is(f, m) == f[0] = a /\ \A i \in 1 .. m : f[i] = g[i][f[i - 1]]
            T == {m \in 0 .. n : \E f \in [0 .. m -> S] : Is(f, m)}
<1>1. 0 \in T
  <2>1. [i \in 0 .. 0 |-> a] \in [0 .. 0 -> S] /\ Is([i \in 0 .. 0 |-> a], 0)
    BY SMT
  <2>2. 0 \in 0 .. n
    BY SMT
  <2>. QED
    BY <2>1, <2>2, Zenon
<1>2. ASSUME NEW m \in 0 .. n, m < n, m \in T PROVE m + 1 \in T
  <2>1. PICK f \in [0 .. m -> S] : Is(f, m)
    BY <1>2, Zenon
  <2>. DEFINE h == [i \in 0 .. m + 1 |-> IF i = m + 1 THEN g[m + 1][f[m]] ELSE f[i]]
  <2>2. m + 1 \in 1 .. n /\ m + 1 \in 0 .. n /\ m + 1 \in 0 .. m + 1 /\ m \in 0 .. m /\ (m + 1) - 1 = m
    BY <1>2, SMT
  <2>3. g[m + 1][f[m]] \in S
    <3>1. f[m] \in S /\ g[m + 1] \in [S -> S]
      BY <2>2, Zenon
    <3>. QED
      BY <3>1, Zenon
  <2>4. \A i \in 0 .. m : i \in 0 .. m + 1 /\ i # m + 1
    BY <1>2, SMT
  <2>5. \A i \in 0 .. m + 1 : i = m + 1 \/ i \in 0 .. m
    BY <1>2, SMT
  <2>6. h \in [0 .. m + 1 -> S]
    BY <2>3, <2>5, SMT
  <2>7. \A i \in 0 .. m : h[i] = f[i]
    BY <2>4, Zenon
  <2>8. h[m + 1] = g[m + 1][f[m]]
    BY <2>2, Zenon
  <2>. HIDE DEF h
  <2>9. h[0] = a
    <3>1. 0 \in 0 .. m
      BY <1>2, SMT
    <3>. QED
      BY <2>1, <2>7, <3>1, Zenon
  <2>10. ASSUME NEW i \in 1 .. m + 1 PROVE h[i] = g[i][h[i - 1]]
    <3>1. CASE i = m + 1
      BY <2>2, <2>7, <2>8, <3>1, Zenon
    <3>2. CASE i # m + 1
      <4>1. i \in 1 .. m /\ i \in 0 .. m /\ i - 1 \in 0 .. m
        BY <1>2, <3>2, SMT
      <4>. QED
        BY <2>1, <2>7, <4>1, Zenon
    <3>. QED
      BY <3>1, <3>2, Zenon
  <2>. QED
    BY <2>2, <2>6, <2>9, <2>10, Zenon
<1>3. 0 .. n \subseteq T
  BY <1>1, <1>2, InductionTo, Zenon
<1>4. n \in 0 .. n
  BY SMT
<1>. QED
  BY <1>3, <1>4, Zenon DEF Solves

(* And all its values are of a set that each step stays in. *)
LEMMA RecursionType ==
  ASSUME NEW S, NEW n \in Nat, NEW f, f = [i \in 0 .. n |-> f[i]],
         f[0] \in S, \A i \in 1 .. n : f[i - 1] \in S => f[i] \in S
  PROVE  f \in [0 .. n -> S]
<1>. DEFINE T == {i \in 0 .. n : f[i] \in S}
<1>1. 0 \in T
  BY SMT
<1>2. ASSUME NEW i \in 0 .. n, i < n, i \in T PROVE i + 1 \in T
  <2>1. i + 1 \in 1 .. n /\ i + 1 \in 0 .. n /\ (i + 1) - 1 = i
    BY <1>2, SMT
  <2>. QED
    BY <1>2, <2>1, Zenon
<1>3. 0 .. n \subseteq T
  BY <1>1, <1>2, InductionTo, Zenon
<1>4. \A i \in 0 .. n : f[i] \in S
  BY <1>3, Zenon
<1>. QED
  BY <1>4, Zenon

-----------------------------------------------------------------------------
(* The numbers of the fields. *)
LEMMA Widths ==
  /\ BYTE \in Nat /\ BYTE >= 2
  /\ CRC_LEN \in Nat /\ CRC_LEN >= 1 /\ LEN_LEN \in Nat /\ LEN_LEN >= 1
  /\ FRAME \in Nat /\ FRAME >= 1 /\ DATA_CAP \in Nat /\ DATA_CAP >= 1
BY WidthAssumption, SMT

LEMMA PowerUnfold ==
  /\ Power \in [0 .. LEN_LEN -> Nat \ {0}]
  /\ Power[0] = 1
  /\ \A k \in 1 .. LEN_LEN : Power[k] = Power[k - 1] * BYTE
<1>. DEFINE Is(p) == p = [k \in 0 .. LEN_LEN |-> IF k = 0 THEN 1 ELSE p[k - 1] * BYTE]
            S == Nat \ {0}
            g == [k \in 1 .. LEN_LEN |-> [m \in S |-> m * BYTE]]
<1>1. g \in [1 .. LEN_LEN -> [S -> S]]
  <2>1. \A m \in S : m * BYTE \in S
    BY Widths, SMT
  <2>. QED
    BY <2>1, SMT
<1>. HIDE DEF g, S
<1>2. PICK f : Solves(f, S, LEN_LEN, 1, g)
  <2>1. LEN_LEN \in Nat /\ 1 \in S
    BY Widths, SMT DEF S
  <2>. QED
    BY <1>1, <2>1, Recursion, Zenon
<1>3. f = [k \in 0 .. LEN_LEN |-> f[k]] /\ f[0] = 1
  BY <1>2, Zenon DEF Solves
<1>4. Is(f)
  <2>1. ASSUME NEW k \in 1 .. LEN_LEN PROVE f[k] = f[k - 1] * BYTE
    <3>1. k - 1 \in 0 .. LEN_LEN
      BY Widths, SMT
    <3>2. f[k - 1] \in S /\ f[k] = g[k][f[k - 1]]
      BY <1>2, <3>1, Zenon DEF Solves
    <3>. QED
      BY <3>2, Zenon DEF g
  <2>2. \A k \in 0 .. LEN_LEN : k = 0 \/ k \in 1 .. LEN_LEN
    BY Widths, SMT
  <2>. QED
    BY <1>3, <2>1, <2>2, Zenon
<1>5. Is(Power)
  BY <1>4, Zenon DEF Power
<1>6. Power[0] = 1
  <2>1. 0 \in 0 .. LEN_LEN
    BY Widths, SMT
  <2>. QED
    BY <1>5, <2>1, Zenon
<1>7. \A k \in 1 .. LEN_LEN : Power[k] = Power[k - 1] * BYTE
  <2>1. \A k \in 1 .. LEN_LEN : k \in 0 .. LEN_LEN /\ k # 0
    BY Widths, SMT
  <2>. QED
    BY <1>5, <2>1, Zenon
<1>8. Power \in [0 .. LEN_LEN -> S]
  <2>1. Power = [k \in 0 .. LEN_LEN |-> Power[k]]
    BY <1>5, Zenon
  <2>2. \A k \in 1 .. LEN_LEN : Power[k - 1] \in S => Power[k] \in S
    BY <1>7, Widths, SMT DEF S
  <2>3. Power[0] \in S /\ LEN_LEN \in Nat
    BY <1>6, Widths, SMT DEF S
  <2>. QED
    BY <2>1, <2>2, <2>3, RecursionType, Zenon
<1>. QED
  BY <1>6, <1>7, <1>8, Zenon DEF S

LEMMA WordNumber == WORD \in Nat \ {0}
<1>1. LEN_LEN \in 0 .. LEN_LEN
  BY Widths, SMT
<1>. QED
  BY <1>1, PowerUnfold, Zenon DEF WORD

-----------------------------------------------------------------------------
(* A byte on the bus, and what it may be a checksum of. *)
Number8 == 0 .. BYTE - 1
Mark == {<<>>} \cup (Content \X (1 .. CRC_LEN))
Octet == [n : Number8, of : Mark]

(* Its fields one after the other. *)
HeaderSize == CRC_LEN + 2
Size(c) == HeaderSize + Len(c.dst) + LEN_LEN + Len(c.data)

LEMMA ContentFields ==
  ASSUME NEW c \in Content
  PROVE  /\ c.dst \in Seq(Number8) /\ c.data \in Seq(Number8)
         /\ c = [dst |-> c.dst, data |-> c.data]
         /\ Len(c.dst) \in Number8 /\ Len(c.dst) \in Nat
         /\ Len(c.data) \in Nat /\ Len(c.data) < WORD
         /\ Size(c) \in Nat /\ HeaderSize \in Nat
         /\ CrcValue[c] \in [1 .. CRC_LEN -> Number8]
<1>1. /\ c \in [dst : Seq(Number8), data : Seq(Number8)]
      /\ Len(c.dst) < BYTE /\ Len(c.data) < WORD
      /\ CrcValue[c] \in [1 .. CRC_LEN -> Number8]
  BY ContentAssumption, Zenon DEF Number8
<1>2. c.dst \in Seq(Number8) /\ c.data \in Seq(Number8) /\ c = [dst |-> c.dst, data |-> c.data]
  BY <1>1
<1>3. Len(c.dst) \in Nat /\ Len(c.data) \in Nat
  BY <1>2, LenProperties, Zenon
<1>4. Len(c.dst) \in Number8
  BY <1>1, <1>3, Widths, SMT DEF Number8
<1>5. Size(c) \in Nat /\ HeaderSize \in Nat
  <2>1. \A d, l \in Nat : CRC_LEN + 2 + d + LEN_LEN + l \in Nat /\ CRC_LEN + 2 \in Nat
    BY Widths, SMT
  <2>. QED
    BY <1>3, <2>1, Zenon DEF Size, HeaderSize
<1>. QED
  BY <1>1, <1>2, <1>3, <1>4, <1>5, Zenon

LEMMA PlainOctet ==
  ASSUME NEW n \in Number8
  PROVE  Plain(n) \in Octet
BY Zenon DEF Plain, Octet, Mark

LEMMA PlainSeqFields ==
  ASSUME NEW s \in Seq(Number8)
  PROVE  /\ PlainSeq(s) \in Seq(Octet) /\ Len(PlainSeq(s)) = Len(s)
         /\ \A i \in 1 .. Len(s) : PlainSeq(s)[i] = Plain(s[i])
<1>1. Len(s) \in Nat /\ \A i \in 1 .. Len(s) : s[i] \in Number8
  BY LenProperties, ElementOfSeq, Zenon
<1>2. PlainSeq(s) \in [1 .. Len(s) -> Octet]
  BY <1>1, PlainOctet, Zenon DEF PlainSeq
<1>3. PlainSeq(s) \in Seq(Octet) /\ Len(PlainSeq(s)) = Len(s)
  BY <1>1, <1>2, SMT
<1>. QED
  BY <1>3, Zenon DEF PlainSeq

LEMMA BigEndianFields ==
  ASSUME NEW n \in Nat
  PROVE  BigEndian(n) \in Seq(Number8) /\ Len(BigEndian(n)) = LEN_LEN
<1>1. \A i \in 1 .. LEN_LEN : (n \div Power[LEN_LEN - i]) % BYTE \in Number8
  <2>. TAKE i \in 1 .. LEN_LEN
  <2>1. Power[LEN_LEN - i] \in Nat \ {0}
    <3>1. LEN_LEN - i \in 0 .. LEN_LEN
      BY Widths, SMT
    <3>. QED
      BY <3>1, PowerUnfold, Zenon
  <2>2. n \div Power[LEN_LEN - i] \in Nat
    BY <2>1, SMT
  <2>. QED
    BY <2>2, Widths, SMT DEF Number8
<1>2. BigEndian(n) \in [1 .. LEN_LEN -> Number8]
  BY <1>1, Zenon DEF BigEndian
<1>. QED
  BY <1>2, Widths, SMT

LEMMA CrcFields ==
  ASSUME NEW c \in Content
  PROVE  /\ Crc(c) \in Seq(Octet) /\ Len(Crc(c)) = CRC_LEN
         /\ \A i \in 1 .. CRC_LEN : Crc(c)[i] = [n |-> CrcValue[c][i], of |-> <<c, i>>]
<1>1. Crc(c) \in [1 .. CRC_LEN -> Octet]
  <2>1. \A i \in 1 .. CRC_LEN : [n |-> CrcValue[c][i], of |-> <<c, i>>] \in Octet
    <3>. TAKE i \in 1 .. CRC_LEN
    <3>1. CrcValue[c][i] \in Number8
      BY ContentFields, Zenon
    <3>2. <<c, i>> \in Mark
      BY SMT DEF Mark
    <3>. QED
      BY <3>1, <3>2 DEF Octet
  <2>. QED
    BY <2>1, Zenon DEF Crc
<1>2. Crc(c) \in Seq(Octet) /\ Len(Crc(c)) = CRC_LEN
  BY <1>1, Widths, SMT
<1>. QED
  BY <1>2, Zenon DEF Crc

(* The elements of two sequences in one. *)
Joined(r, s, t) ==
  /\ Len(r) = Len(s) + Len(t)
  /\ \A i \in 1 .. Len(s) : r[i] = s[i]
  /\ \A i \in 1 .. Len(t) : r[Len(s) + i] = t[i]

LEMMA ConcatAt ==
  ASSUME NEW S, NEW s \in Seq(S), NEW t \in Seq(S)
  PROVE  s \o t \in Seq(S) /\ Joined(s \o t, s, t)
<1>1. Len(s) \in Nat /\ Len(t) \in Nat
  BY LenProperties, Zenon
<1>2. s \o t \in Seq(S) /\ Len(s \o t) = Len(s) + Len(t)
  BY ConcatProperties, Zenon
<1>3. \A i \in 1 .. Len(s) + Len(t) : (s \o t)[i] = IF i <= Len(s) THEN s[i] ELSE t[i - Len(s)]
  BY ConcatProperties, Zenon
<1>4. \A m, n \in Nat : \A i \in 1 .. m : i \in 1 .. m + n /\ i <= m
  BY SMT
<1>5. \A m, n \in Nat : \A i \in 1 .. n : m + i \in 1 .. m + n /\ ~(m + i <= m) /\ (m + i) - m = i
  BY SMT
<1>6. \A i \in 1 .. Len(s) : (s \o t)[i] = s[i]
  BY <1>1, <1>3, <1>4, Zenon
<1>7. \A i \in 1 .. Len(t) : (s \o t)[Len(s) + i] = t[i]
  <2>. TAKE i \in 1 .. Len(t)
  <2>1. Len(s) + i \in 1 .. Len(s) + Len(t) /\ ~(Len(s) + i <= Len(s)) /\ (Len(s) + i) - Len(s) = i
    BY <1>1, <1>5, Zenon
  <2>2. (s \o t)[Len(s) + i] = IF Len(s) + i <= Len(s) THEN s[Len(s) + i] ELSE t[(Len(s) + i) - Len(s)]
    BY <1>3, <2>1, Zenon
  <2>. QED
    BY <2>1, <2>2, Zenon
<1>. QED
  BY <1>1, <1>2, <1>6, <1>7, Zenon DEF Joined

(* The bytes of a datagram, field by field (encode_datagram). *)
LEMMA EncodeFields ==
  ASSUME NEW c \in Content
  PROVE  LET E == encode_datagram(c)
             d == Len(c.dst)
         IN  /\ E \in Seq(Octet) /\ Len(E) = Size(c)
             /\ E[1] = Plain(CAN_DATAGRAM_VERSION)
             /\ \A i \in 1 .. CRC_LEN : E[1 + i] = Crc(c)[i]
             /\ E[HeaderSize] = Plain(d)
             /\ \A i \in 1 .. d : E[HeaderSize + i] = Plain(c.dst[i])
             /\ \A i \in 1 .. LEN_LEN : E[HeaderSize + d + i] = Plain(BigEndian(Len(c.data))[i])
             /\ \A i \in 1 .. Len(c.data) : E[HeaderSize + d + LEN_LEN + i] = Plain(c.data[i])
<1>. DEFINE s1 == <<Plain(CAN_DATAGRAM_VERSION)>>
            s2 == Crc(c)
            s3 == <<Plain(Len(c.dst))>>
            s4 == PlainSeq(c.dst)
            s5 == PlainSeq(BigEndian(Len(c.data)))
            s6 == PlainSeq(c.data)
            E == encode_datagram(c)
            d == Len(c.dst)
            l == Len(c.data)
            t2 == s1 \o s2
            t3 == t2 \o s3
            t4 == t3 \o s4
            t5 == t4 \o s5
<1>1. d \in Number8 /\ d \in Nat /\ l \in Nat /\ HeaderSize \in Nat
  BY ContentFields, Zenon
<1>2. s1 \in Seq(Octet) /\ Len(s1) = 1 /\ s1[1] = Plain(CAN_DATAGRAM_VERSION)
  <2>1. Plain(CAN_DATAGRAM_VERSION) \in Octet
    <3>1. CAN_DATAGRAM_VERSION \in Number8
      BY Widths, SMT DEF Number8, CAN_DATAGRAM_VERSION
    <3>. QED
      BY <3>1, PlainOctet, Zenon
  <2>. QED
    BY <2>1
<1>3. s2 \in Seq(Octet) /\ Len(s2) = CRC_LEN
  BY CrcFields, Zenon
<1>4. s3 \in Seq(Octet) /\ Len(s3) = 1 /\ s3[1] = Plain(d)
  <2>1. Plain(d) \in Octet
    BY <1>1, PlainOctet, Zenon
  <2>. QED
    BY <2>1
<1>5. s4 \in Seq(Octet) /\ Len(s4) = d /\ \A i \in 1 .. d : s4[i] = Plain(c.dst[i])
  BY ContentFields, PlainSeqFields, Zenon
<1>6. s5 \in Seq(Octet) /\ Len(s5) = LEN_LEN /\ \A i \in 1 .. LEN_LEN : s5[i] = Plain(BigEndian(l)[i])
  <2>1. BigEndian(l) \in Seq(Number8) /\ Len(BigEndian(l)) = LEN_LEN
    BY <1>1, BigEndianFields, Zenon
  <2>2. /\ s5 \in Seq(Octet) /\ Len(s5) = Len(BigEndian(l))
        /\ \A i \in 1 .. Len(BigEndian(l)) : s5[i] = Plain(BigEndian(l)[i])
    BY <2>1, PlainSeqFields, Zenon
  <2>. QED
    BY <2>1, <2>2, Zenon
<1>7. s6 \in Seq(Octet) /\ Len(s6) = l /\ \A i \in 1 .. l : s6[i] = Plain(c.data[i])
  BY ContentFields, PlainSeqFields, Zenon
<1>8. E = t5 \o s6
  BY Zenon DEF encode_datagram
<1>. HIDE DEF s1, s2, s3, s4, s5, s6, E, d, l, t2, t3, t4, t5
<1>9. /\ t2 \in Seq(Octet) /\ Len(t2) = 1 + CRC_LEN
      /\ \A i \in 1 .. 1 : t2[i] = s1[i]
      /\ \A i \in 1 .. CRC_LEN : t2[1 + i] = s2[i]
  <2>1. t2 \in Seq(Octet) /\ Joined(t2, s1, s2)
    BY <1>2, <1>3, ConcatAt, Zenon DEF t2
  <2>. QED
    BY <1>2, <1>3, <2>1, Zenon DEF Joined
<1>10. /\ t3 \in Seq(Octet) /\ Len(t3) = HeaderSize
       /\ \A i \in 1 .. 1 + CRC_LEN : t3[i] = t2[i]
       /\ t3[HeaderSize] = s3[1]
  <2>1. t3 \in Seq(Octet) /\ Joined(t3, t2, s3)
    BY <1>4, <1>9, ConcatAt, Zenon DEF t3
  <2>2. 1 \in 1 .. 1 /\ (1 + CRC_LEN) + 1 = HeaderSize
    BY Widths, SMT DEF HeaderSize
  <2>. QED
    BY <1>4, <1>9, <2>1, <2>2, Zenon DEF Joined
<1>11. /\ t4 \in Seq(Octet) /\ Len(t4) = HeaderSize + d
       /\ \A i \in 1 .. HeaderSize : t4[i] = t3[i]
       /\ \A i \in 1 .. d : t4[HeaderSize + i] = s4[i]
  <2>1. t4 \in Seq(Octet) /\ Joined(t4, t3, s4)
    BY <1>5, <1>10, ConcatAt, Zenon DEF t4
  <2>. QED
    BY <1>5, <1>10, <2>1, Zenon DEF Joined
<1>12. /\ t5 \in Seq(Octet) /\ Len(t5) = HeaderSize + d + LEN_LEN
       /\ \A i \in 1 .. HeaderSize + d : t5[i] = t4[i]
       /\ \A i \in 1 .. LEN_LEN : t5[HeaderSize + d + i] = s5[i]
  <2>1. t5 \in Seq(Octet) /\ Joined(t5, t4, s5)
    BY <1>6, <1>11, ConcatAt, Zenon DEF t5
  <2>. QED
    BY <1>6, <1>11, <2>1, Zenon DEF Joined
<1>13. /\ E \in Seq(Octet) /\ Len(E) = HeaderSize + d + LEN_LEN + l
       /\ \A i \in 1 .. HeaderSize + d + LEN_LEN : E[i] = t5[i]
       /\ \A i \in 1 .. l : E[HeaderSize + d + LEN_LEN + i] = s6[i]
  <2>1. E \in Seq(Octet) /\ Joined(E, t5, s6)
    BY <1>7, <1>8, <1>12, ConcatAt, Zenon
  <2>. QED
    BY <1>7, <1>12, <2>1, Zenon DEF Joined
<1>14. \A i \in 1 .. HeaderSize : E[i] = t3[i]
  <2>1. \A i \in 1 .. HeaderSize : i \in 1 .. HeaderSize + d /\ i \in 1 .. HeaderSize + d + LEN_LEN
    BY <1>1, Widths, SMT
  <2>. QED
    BY <1>11, <1>12, <1>13, <2>1, Zenon
<1>15. E[1] = Plain(CAN_DATAGRAM_VERSION)
  <2>1. 1 \in 1 .. HeaderSize /\ 1 \in 1 .. 1 + CRC_LEN /\ 1 \in 1 .. 1
    BY Widths, SMT DEF HeaderSize
  <2>. QED
    BY <1>2, <1>9, <1>10, <1>14, <2>1, Zenon
<1>16. \A i \in 1 .. CRC_LEN : E[1 + i] = Crc(c)[i]
  <2>1. \A i \in 1 .. CRC_LEN : 1 + i \in 1 .. HeaderSize /\ 1 + i \in 1 .. 1 + CRC_LEN
    BY Widths, SMT DEF HeaderSize
  <2>. QED
    BY <1>9, <1>10, <1>14, <2>1, Zenon DEF s2
<1>17. E[HeaderSize] = Plain(d)
  <2>1. HeaderSize \in 1 .. HeaderSize
    BY Widths, SMT DEF HeaderSize
  <2>. QED
    BY <1>4, <1>10, <1>14, <2>1, Zenon
<1>18. \A i \in 1 .. d : E[HeaderSize + i] = Plain(c.dst[i])
  <2>1. \A i \in 1 .. d : HeaderSize + i \in 1 .. HeaderSize + d /\ HeaderSize + i \in 1 .. HeaderSize + d + LEN_LEN
    BY <1>1, Widths, SMT
  <2>. QED
    BY <1>5, <1>11, <1>12, <1>13, <2>1
<1>19. \A i \in 1 .. LEN_LEN : E[HeaderSize + d + i] = Plain(BigEndian(l)[i])
  <2>1. \A i \in 1 .. LEN_LEN : HeaderSize + d + i \in 1 .. HeaderSize + d + LEN_LEN
    BY <1>1, Widths, SMT
  <2>. QED
    BY <1>6, <1>12, <1>13, <2>1, Zenon
<1>20. \A i \in 1 .. l : E[HeaderSize + d + LEN_LEN + i] = Plain(c.data[i])
  BY <1>7, <1>13, Zenon
<1>21. Len(E) = Size(c)
  BY <1>13, Zenon DEF Size, d, l
<1>. QED
  BY <1>13, <1>15, <1>16, <1>17, <1>18, <1>19, <1>20, <1>21, Zenon DEF E, d, l

-----------------------------------------------------------------------------
(* Two solutions of a recursion are the same. *)
LEMMA SameSolution ==
  ASSUME NEW n \in Nat, NEW f, NEW h, f[0] = h[0],
         \A i \in 1 .. n : f[i - 1] = h[i - 1] => f[i] = h[i]
  PROVE  f[n] = h[n]
<1>. DEFINE T == {i \in 0 .. n : f[i] = h[i]}
<1>1. 0 \in T
  BY SMT
<1>2. ASSUME NEW i \in 0 .. n, i < n, i \in T PROVE i + 1 \in T
  <2>1. i + 1 \in 1 .. n /\ i + 1 \in 0 .. n /\ (i + 1) - 1 = i
    BY <1>2, SMT
  <2>. QED
    BY <1>2, <2>1, Zenon
<1>3. 0 .. n \subseteq T
  BY <1>1, <1>2, InductionTo, Zenon
<1>4. n \in 0 .. n
  BY SMT
<1>. QED
  BY <1>3, <1>4, Zenon

LEMMA AppendSubSeq ==
  ASSUME NEW S, NEW E \in Seq(S), NEW p \in 0 .. Len(E), NEW q \in p .. Len(E), q < Len(E)
  PROVE  Append(SubSeq(E, p + 1, q), E[q + 1]) = SubSeq(E, p + 1, q + 1)
<1>1. Len(E) \in Nat
  BY LenProperties, Zenon
<1>2. /\ p + 1 \in 1 .. Len(E) /\ p + 1 \in Int /\ q \in Int /\ q + 1 \in Int
      /\ q + 1 \in p + 1 .. Len(E) /\ q + 1 \in 1 .. Len(E) /\ (q + 1) - 1 = q
  BY <1>1, SMT
<1>3. SubSeq(E, p + 1, q + 1) = SubSeq(E, p + 1, (q + 1) - 1) \o <<E[q + 1]>>
  BY <1>2, SubSeqRecursiveSecond
<1>4. SubSeq(E, p + 1, q) \in Seq(S) /\ E[q + 1] \in S
  <2>1. \A i \in p + 1 .. q : E[i] \in S
    <3>1. \A i \in p + 1 .. q : i \in 1 .. Len(E)
      BY <1>1, SMT
    <3>. QED
      BY <3>1, ElementOfSeq, Zenon
  <2>. QED
    BY <1>2, <2>1, SubSeqProperties, ElementOfSeq
<1>5. Append(SubSeq(E, p + 1, q), E[q + 1]) = SubSeq(E, p + 1, q) \o <<E[q + 1]>>
  BY <1>4, AppendIsConcat, Zenon
<1>. QED
  BY <1>2, <1>3, <1>5, Zenon

-----------------------------------------------------------------------------
(* The writer of the boards after p bytes of an answer. *)
At(c, p) ==
  IF p = 0 THEN [state |-> "VERSION", i |-> 0]
  ELSE IF p <= CRC_LEN THEN [state |-> "CRC", i |-> p - 1]
  ELSE IF p = CRC_LEN + 1 THEN [state |-> "DST_LEN", i |-> 0]
  ELSE IF p = HeaderSize THEN [state |-> "DST", i |-> 0]
  ELSE IF p <= HeaderSize + LEN_LEN THEN [state |-> "DATA_LEN", i |-> p - HeaderSize - 1]
  ELSE [state |-> "DATA", i |-> p - HeaderSize - LEN_LEN - 1]

Written(c, w) == w.state = "DATA" /\ w.i = Len(c.data)

AnswerFields(c) ==
  /\ Len(c.dst) = 1 /\ Len(c.data) \in Nat \ {0}
  /\ Size(c) = HeaderSize + 1 + LEN_LEN + Len(c.data)

LEMMA AnswerSize ==
  ASSUME NEW c \in Content, IsAnswer(c)
  PROVE  AnswerFields(c)
<1>1. Len(c.data) \in Nat /\ c.data \in Seq(Number8)
  BY ContentFields, Zenon
<1>2. Len(c.data) # 0
  BY <1>1, EmptySeq, Zenon DEF IsAnswer
<1>3. Len(c.dst) = 1
  BY Zenon DEF IsAnswer
<1>4. Size(c) = HeaderSize + 1 + LEN_LEN + Len(c.data)
  BY <1>3, Zenon DEF Size
<1>. QED
  BY <1>1, <1>2, <1>3, <1>4 DEF AnswerFields

WriterStep(c, p) ==
  /\ ~Written(c, At(c, p))
  /\ OutputByte(c, At(c, p)) = encode_datagram(c)[p + 1]
  /\ Advance(c, At(c, p)) = At(c, p + 1)

LEMMA WriterSteps ==
  ASSUME NEW c \in Content, IsAnswer(c), NEW p \in 0 .. Size(c), p < Size(c)
  PROVE  WriterStep(c, p)
<1>. DEFINE E == encode_datagram(c)
<1>1. PICK l \in Nat : l = Len(c.data) /\ l >= 1
  BY AnswerSize DEF AnswerFields
<1>2. Len(c.dst) = 1 /\ Size(c) = HeaderSize + 1 + LEN_LEN + l
  BY <1>1, AnswerSize, Zenon DEF AnswerFields
<1>3. p \in Nat /\ p < HeaderSize + 1 + LEN_LEN + l /\ HeaderSize = CRC_LEN + 2
  BY <1>2, Widths, SMT DEF HeaderSize
<1>4. /\ E[1] = Plain(CAN_DATAGRAM_VERSION)
      /\ \A i \in 1 .. CRC_LEN : E[1 + i] = Crc(c)[i]
      /\ E[HeaderSize] = Plain(Len(c.dst))
      /\ \A i \in 1 .. Len(c.dst) : E[HeaderSize + i] = Plain(c.dst[i])
      /\ \A i \in 1 .. LEN_LEN : E[HeaderSize + Len(c.dst) + i] = Plain(BigEndian(Len(c.data))[i])
      /\ \A i \in 1 .. Len(c.data) : E[HeaderSize + Len(c.dst) + LEN_LEN + i] = Plain(c.data[i])
  BY EncodeFields, Zenon
<1>. HIDE DEF E
<1>5. CASE p = 0
  <2>1. At(c, p) = [state |-> "VERSION", i |-> 0] /\ At(c, p + 1) = [state |-> "CRC", i |-> 0]
    BY <1>5, Widths, SMT DEF At
  <2>2. ~Written(c, At(c, p))
    BY <2>1, SMT DEF Written
  <2>3. OutputByte(c, At(c, p)) = E[p + 1]
    BY <1>4, <1>5, <2>1, SMT DEF OutputByte
  <2>4. Advance(c, At(c, p)) = At(c, p + 1)
    BY <2>1, SMT DEF Advance
  <2>. QED
    BY <2>2, <2>3, <2>4, Zenon DEF WriterStep, E
<1>6. CASE p \in 1 .. CRC_LEN
  <2>1. At(c, p) = [state |-> "CRC", i |-> p - 1]
    BY <1>6, Widths, SMT DEF At
  <2>2. ~Written(c, At(c, p))
    BY <2>1, SMT DEF Written
  <2>3. OutputByte(c, At(c, p)) = E[p + 1]
    <3>1. E[1 + p] = Crc(c)[p]
      BY <1>4, <1>6, Zenon
    <3>2. 1 + p = p + 1 /\ (p - 1) + 1 = p
      BY <1>3, SMT
    <3>3. OutputByte(c, At(c, p)) = Crc(c)[(p - 1) + 1]
      BY <2>1 DEF OutputByte
    <3>. QED
      BY <3>1, <3>2, <3>3, Zenon
  <2>4. Advance(c, At(c, p)) = At(c, p + 1)
    <3>1. CASE p = CRC_LEN
      <4>1. At(c, p + 1) = [state |-> "DST_LEN", i |-> 0]
        BY <1>3, <3>1, Widths, SMT DEF At
      <4>. QED
        BY <1>3, <2>1, <3>1, <4>1, SMT DEF Advance
    <3>2. CASE p # CRC_LEN
      <4>1. At(c, p + 1) = [state |-> "CRC", i |-> p]
        BY <1>3, <1>6, <3>2, Widths, SMT DEF At
      <4>. QED
        BY <1>3, <2>1, <3>2, <4>1, SMT DEF Advance
    <3>. QED
      BY <3>1, <3>2, Zenon
  <2>. QED
    BY <2>2, <2>3, <2>4, Zenon DEF WriterStep, E
<1>7. CASE p = CRC_LEN + 1
  <2>1. At(c, p) = [state |-> "DST_LEN", i |-> 0] /\ At(c, p + 1) = [state |-> "DST", i |-> 0]
    BY <1>3, <1>7, Widths, SMT DEF At
  <2>2. ~Written(c, At(c, p))
    BY <2>1, SMT DEF Written
  <2>3. OutputByte(c, At(c, p)) = E[p + 1]
    <3>1. p + 1 = HeaderSize
      BY <1>3, <1>7, Widths, SMT
    <3>2. OutputByte(c, At(c, p)) = Plain(Len(c.dst))
      BY <2>1 DEF OutputByte
    <3>. QED
      BY <1>4, <3>1, <3>2, Zenon
  <2>4. Advance(c, At(c, p)) = At(c, p + 1)
    BY <2>1, SMT DEF Advance
  <2>. QED
    BY <2>2, <2>3, <2>4, Zenon DEF WriterStep, E
<1>8. CASE p = HeaderSize
  <2>1. At(c, p) = [state |-> "DST", i |-> 0] /\ At(c, p + 1) = [state |-> "DATA_LEN", i |-> 0]
    BY <1>3, <1>8, Widths, SMT DEF At
  <2>2. ~Written(c, At(c, p))
    BY <2>1, SMT DEF Written
  <2>3. OutputByte(c, At(c, p)) = E[p + 1]
    <3>1. 1 \in 1 .. Len(c.dst) /\ 0 + 1 = 1
      BY <1>2, SMT
    <3>2. OutputByte(c, At(c, p)) = Plain(c.dst[0 + 1])
      BY <2>1 DEF OutputByte
    <3>. QED
      BY <1>4, <1>8, <3>1, <3>2, Zenon
  <2>4. Advance(c, At(c, p)) = At(c, p + 1)
    BY <1>2, <2>1, SMT DEF Advance
  <2>. QED
    BY <2>2, <2>3, <2>4, Zenon DEF WriterStep, E
<1>9. CASE p \in HeaderSize + 1 .. HeaderSize + LEN_LEN
  <2>. DEFINE k == p - HeaderSize
  <2>1. At(c, p) = [state |-> "DATA_LEN", i |-> k - 1]
    BY <1>3, <1>9, Widths, SMT DEF At
  <2>2. ~Written(c, At(c, p))
    BY <2>1, SMT DEF Written
  <2>3. k \in 1 .. LEN_LEN /\ HeaderSize + 1 + k = p + 1 /\ (k - 1) + 1 = k
    BY <1>3, <1>9, Widths, SMT
  <2>4. OutputByte(c, At(c, p)) = E[p + 1]
    <3>1. E[HeaderSize + Len(c.dst) + k] = Plain(BigEndian(Len(c.data))[k])
      BY <1>4, <2>3, Zenon
    <3>2. OutputByte(c, At(c, p)) = Plain(BigEndian(Len(c.data))[(k - 1) + 1])
      BY <2>1 DEF OutputByte
    <3>. QED
      BY <1>2, <2>3, <3>1, <3>2, Zenon
  <2>5. Advance(c, At(c, p)) = At(c, p + 1)
    <3>1. CASE k = LEN_LEN
      <4>1. At(c, p + 1) = [state |-> "DATA", i |-> 0]
        BY <1>3, <2>3, <3>1, Widths, SMT DEF At
      <4>. QED
        BY <2>1, <2>3, <3>1, <4>1, SMT DEF Advance
    <3>2. CASE k # LEN_LEN
      <4>1. At(c, p + 1) = [state |-> "DATA_LEN", i |-> k]
        BY <1>3, <2>3, <3>2, Widths, SMT DEF At
      <4>. QED
        BY <2>1, <2>3, <3>2, <4>1, SMT DEF Advance
    <3>. QED
      BY <3>1, <3>2, Zenon
  <2>. QED
    BY <2>2, <2>4, <2>5, Zenon DEF WriterStep, E
<1>10. CASE p > HeaderSize + LEN_LEN
  <2>. DEFINE k == p - HeaderSize - LEN_LEN
  <2>1. At(c, p) = [state |-> "DATA", i |-> k - 1] /\ At(c, p + 1) = [state |-> "DATA", i |-> k]
    BY <1>3, <1>10, Widths, SMT DEF At
  <2>2. k \in 1 .. l /\ HeaderSize + 1 + LEN_LEN + k = p + 1 /\ (k - 1) + 1 = k /\ k - 1 # l
    BY <1>3, <1>10, Widths, SMT
  <2>3. ~Written(c, At(c, p))
    BY <1>1, <2>1, <2>2, SMT DEF Written
  <2>4. OutputByte(c, At(c, p)) = E[p + 1]
    <3>1. E[HeaderSize + Len(c.dst) + LEN_LEN + k] = Plain(c.data[k])
      BY <1>1, <1>4, <2>2, Zenon
    <3>2. OutputByte(c, At(c, p)) = Plain(c.data[(k - 1) + 1])
      BY <2>1 DEF OutputByte
    <3>. QED
      BY <1>2, <2>2, <3>1, <3>2, Zenon
  <2>5. Advance(c, At(c, p)) = At(c, p + 1)
    BY <2>1, <2>2, SMT DEF Advance
  <2>. QED
    BY <2>3, <2>4, <2>5, Zenon DEF WriterStep, E
<1>. QED
  BY <1>3, <1>5, <1>6, <1>7, <1>8, <1>9, <1>10, Widths, SMT

LEMMA WriterEnd ==
  ASSUME NEW c \in Content, IsAnswer(c)
  PROVE  Written(c, At(c, Size(c)))
<1>1. PICK l \in Nat : l = Len(c.data) /\ l >= 1
  BY AnswerSize DEF AnswerFields
<1>2. Size(c) = HeaderSize + 1 + LEN_LEN + l /\ HeaderSize = CRC_LEN + 2
  BY <1>1, AnswerSize, Zenon DEF AnswerFields, HeaderSize
<1>3. At(c, Size(c)) = [state |-> "DATA", i |-> l]
  BY <1>2, Widths, SMT DEF At
<1>. QED
  BY <1>1, <1>3, SMT DEF Written

-----------------------------------------------------------------------------
(* What a call of the writer puts out from a position on, and where it is
   then: a frame, or what is left.                                          *)
Upto(c, p) == IF p + FRAME < Size(c) THEN p + FRAME ELSE Size(c)

OutStep(c, o) ==
  IF Written(c, o.w) THEN o
  ELSE [w |-> Advance(c, o.w), bytes |-> Append(o.bytes, OutputByte(c, o.w))]

IsOut(f, c, w) ==
  f = [n \in 0 .. FRAME |-> IF n = 0 THEN [w |-> w, bytes |-> <<>>] ELSE OutStep(c, f[n - 1])]

(* The state of its loop at a position, begun at p. *)
OutAt(c, p, q) == [w |-> At(c, q), bytes |-> SubSeq(encode_datagram(c), p + 1, q)]

LEMMA OutSteps ==
  ASSUME NEW c \in Content, IsAnswer(c), NEW p \in 0 .. Size(c), NEW q \in p .. Size(c)
  PROVE  OutStep(c, OutAt(c, p, q)) = IF q = Size(c) THEN OutAt(c, p, q) ELSE OutAt(c, p, q + 1)
<1>1. CASE q = Size(c)
  BY <1>1, WriterEnd, Zenon DEF OutStep, OutAt
<1>2. CASE q # Size(c)
  <2>1. Size(c) \in Nat
    BY ContentFields, Zenon
  <2>2. q \in 0 .. Size(c) /\ q < Size(c)
    BY <1>2, <2>1, SMT
  <2>3. WriterStep(c, q)
    BY <2>2, WriterSteps, Zenon
  <2>4. OutStep(c, OutAt(c, p, q)) =
          [w |-> At(c, q + 1), bytes |-> Append(SubSeq(encode_datagram(c), p + 1, q), encode_datagram(c)[q + 1])]
    BY <2>3, Zenon DEF OutStep, OutAt, WriterStep
  <2>5. encode_datagram(c) \in Seq(Octet) /\ Len(encode_datagram(c)) = Size(c)
    BY EncodeFields, Zenon
  <2>6. Append(SubSeq(encode_datagram(c), p + 1, q), encode_datagram(c)[q + 1]) = SubSeq(encode_datagram(c), p + 1, q + 1)
    BY <2>2, <2>5, AppendSubSeq, Zenon
  <2>. QED
    BY <1>2, <2>4, <2>6, Zenon DEF OutAt
<1>. QED
  BY <1>1, <1>2, Zenon

LEMMA OutputIsSlice ==
  ASSUME NEW c \in Content, IsAnswer(c), NEW p \in 0 .. Size(c)
  PROVE  can_datagram_output_bytes(c, At(c, p)) = OutAt(c, p, Upto(c, p))
<1>. DEFINE N == Size(c)
            pos(n) == IF p + n < N THEN p + n ELSE N
            h == [n \in 0 .. FRAME |-> OutAt(c, p, pos(n))]
            first == [w |-> At(c, p), bytes |-> <<>>]
<1>1. N \in Nat /\ p \in Nat /\ p <= N
  BY ContentFields, SMT
<1>. HIDE DEF N
<1>2. OutAt(c, p, pos(0)) = first
  <2>1. pos(0) = p /\ p + 1 \in Int /\ p \in Int /\ p < p + 1
    BY <1>1, SMT
  <2>2. SubSeq(encode_datagram(c), p + 1, p) = <<>>
    BY <2>1, SubSeqEmpty, Zenon
  <2>. QED
    BY <2>1, <2>2, Zenon DEF OutAt
<1>3. ASSUME NEW n \in 1 .. FRAME PROVE OutStep(c, OutAt(c, p, pos(n - 1))) = OutAt(c, p, pos(n))
  <2>1. pos(n - 1) \in p .. N
    BY <1>1, Widths, SMT
  <2>2. pos(n) = IF pos(n - 1) = N THEN pos(n - 1) ELSE pos(n - 1) + 1
    BY <1>1, Widths, SMT
  <2>3. OutStep(c, OutAt(c, p, pos(n - 1))) = IF pos(n - 1) = N THEN OutAt(c, p, pos(n - 1)) ELSE OutAt(c, p, pos(n - 1) + 1)
    BY <2>1, OutSteps, Zenon DEF N
  <2>. QED
    BY <2>2, <2>3, Zenon
<1>4. \A n \in 0 .. FRAME : n = 0 \/ (n \in 1 .. FRAME /\ n # 0 /\ n - 1 \in 0 .. FRAME)
  BY Widths, SMT
<1>5. 0 \in 0 .. FRAME /\ FRAME \in 0 .. FRAME /\ FRAME \in Nat
  BY Widths, SMT
<1>. HIDE DEF pos, first
<1>6. IsOut(h, c, At(c, p))
  <2>1. \A n \in 0 .. FRAME : h[n] = IF n = 0 THEN first ELSE OutStep(c, h[n - 1])
    BY <1>2, <1>3, <1>4, Zenon
  <2>. QED
    BY <2>1, Zenon DEF IsOut, first
<1>. DEFINE out == CHOOSE f : IsOut(f, c, At(c, p))
<1>7. IsOut(out, c, At(c, p))
  BY <1>6, Zenon
<1>8. can_datagram_output_bytes(c, At(c, p)) = out[FRAME]
  BY Zenon DEF can_datagram_output_bytes, IsOut, OutStep, Written
<1>. HIDE DEF out
<1>9. out[FRAME] = h[FRAME]
  <2>1. out[0] = h[0]
    BY <1>2, <1>5, <1>7, Zenon DEF IsOut, first
  <2>2. \A n \in 1 .. FRAME : n \in 0 .. FRAME /\ n # 0 /\ n - 1 \in 0 .. FRAME
    BY Widths, SMT
  <2>3. ASSUME NEW n \in 1 .. FRAME, out[n - 1] = h[n - 1] PROVE out[n] = h[n]
    <3>1. out[n] = OutStep(c, out[n - 1])
      BY <1>7, <2>2, Zenon DEF IsOut
    <3>2. h[n] = OutStep(c, h[n - 1])
      BY <1>3, <2>2, Zenon
    <3>. QED
      BY <2>3, <3>1, <3>2, Zenon
  <2>. QED
    BY <1>5, <2>1, <2>3, SameSolution, Zenon
<1>10. h[FRAME] = OutAt(c, p, Upto(c, p))
  BY <1>5, Zenon DEF pos, Upto, N
<1>. QED
  BY <1>8, <1>9, <1>10, Zenon

-----------------------------------------------------------------------------
(* The frames of a datagram, of which the i-th ends at Cut(c, i). *)
Frame == [src : Source, start : BOOLEAN, bytes : Seq(Octet)]
Count(c) == FrameCount(encode_datagram(c))
Cut(c, i) == IF i * FRAME < Size(c) THEN i * FRAME ELSE Size(c)
Frames(c, s) == datagram_to_frames(encode_datagram(c), s)
FrameOf(c, s, i) ==
  [src |-> s, start |-> i = 1, bytes |-> SubSeq(encode_datagram(c), (i - 1) * FRAME + 1, Cut(c, i))]

LEMMA Multiples ==
  ASSUME NEW d \in Nat, NEW i \in Nat, NEW j \in Nat
  PROVE  /\ i * d \in Nat /\ (i + 1) * d = i * d + d /\ 0 * d = 0
         /\ i <= j => i * d <= j * d
<1>1. i * d \in Nat /\ (i + 1) * d = i * d + d /\ 0 * d = 0
  BY SMT
<1>2. ASSUME i <= j PROVE i * d <= j * d
  <2>1. PICK h \in Nat : j = i + h
    <3>1. j - i \in Nat /\ j = i + (j - i)
      BY <1>2, SMT
    <3>. QED
      BY <3>1, Zenon
  <2>2. j * d = i * d + h * d /\ h * d \in Nat
    BY <2>1, SMT
  <2>. QED
    BY <1>1, <2>2, SMT
<1>. QED
  BY <1>1, <1>2, Zenon

LEMMA CutFacts ==
  ASSUME NEW c \in Content
  PROVE  /\ Count(c) \in Nat /\ Count(c) >= 1 /\ Size(c) \in Nat /\ Size(c) >= 1
         /\ \A i \in Nat : i * FRAME \in Nat /\ Cut(c, i) \in 0 .. Size(c)
         /\ \A i \in 1 .. Count(c) : /\ Cut(c, i - 1) = (i - 1) * FRAME
                                     /\ Cut(c, i - 1) < Cut(c, i)
                                     /\ Cut(c, i) <= Cut(c, i - 1) + FRAME
         /\ \A i \in Nat \ {0} : Upto(c, Cut(c, i - 1)) = Cut(c, i)
         /\ \A i \in Nat : i >= Count(c) => Cut(c, i) = Size(c)
<1>. DEFINE N == Size(c)
            k == Count(c)
<1>1. N \in Nat /\ N >= 1
  <2>1. Len(c.dst) \in Nat /\ Len(c.data) \in Nat
    BY ContentFields, Zenon
  <2>2. \A d, l \in Nat : CRC_LEN + 2 + d + LEN_LEN + l \in Nat /\ CRC_LEN + 2 + d + LEN_LEN + l >= 1
    BY Widths, SMT
  <2>. QED
    BY <2>1, <2>2, Zenon DEF Size, HeaderSize
<1>2. k = (N + FRAME - 1) \div FRAME
  <2>1. Len(encode_datagram(c)) = N
    BY EncodeFields, Zenon
  <2>. QED
    BY <2>1, Zenon DEF Count, FrameCount
<1>. HIDE DEF N, k
<1>3. k \in Nat /\ k * FRAME <= N + FRAME - 1 /\ N + FRAME - 1 < k * FRAME + FRAME
  <2>1. \A x \in Nat : \A d \in Nat \ {0} :
          x \div d \in Nat /\ (x \div d) * d <= x /\ x < (x \div d) * d + d
    BY SMT
  <2>2. N + FRAME - 1 \in Nat /\ FRAME \in Nat \ {0}
    BY <1>1, Widths, SMT
  <2>. QED
    BY <1>2, <2>1, <2>2, Zenon
<1>4. \A i \in Nat : i * FRAME \in Nat /\ (i + 1) * FRAME = i * FRAME + FRAME /\ 0 * FRAME = 0
  BY Widths, Multiples, Zenon
<1>5. N <= k * FRAME
  BY <1>1, <1>3, <1>4, Widths, SMT
<1>6. k >= 1
  BY <1>1, <1>3, <1>4, <1>5, SMT
<1>7. \A i \in Nat : i < k => i * FRAME < N
  <2>. TAKE i \in Nat
  <2>. HAVE i < k
  <2>1. k - 1 \in Nat /\ i <= k - 1 /\ (k - 1) + 1 = k
    BY <1>3, <1>6, SMT
  <2>2. i * FRAME <= (k - 1) * FRAME
    BY <2>1, Widths, Multiples, Zenon
  <2>3. k * FRAME = (k - 1) * FRAME + FRAME /\ (k - 1) * FRAME \in Nat /\ i * FRAME \in Nat
    BY <1>4, <2>1, Zenon
  <2>. QED
    BY <1>1, <1>3, <2>2, <2>3, Widths, SMT
<1>8. \A i \in Nat : i >= k => N <= i * FRAME
  <2>. TAKE i \in Nat
  <2>. HAVE i >= k
  <2>1. k * FRAME <= i * FRAME
    <3>1. k <= i
      BY <1>3, SMT
    <3>. QED
      BY <1>3, <3>1, Widths, Multiples, Zenon
  <2>. QED
    BY <1>1, <1>3, <1>4, <1>5, <2>1, SMT
<1>9. \A i \in Nat : Cut(c, i) = IF i * FRAME < N THEN i * FRAME ELSE N
  BY Zenon DEF Cut, N
<1>10. \A i \in Nat : i * FRAME \in Nat /\ Cut(c, i) \in 0 .. N
  BY <1>1, <1>4, <1>9, SMT
<1>11. ASSUME NEW i \in 1 .. k
       PROVE  Cut(c, i - 1) = (i - 1) * FRAME /\ Cut(c, i - 1) < Cut(c, i) /\ Cut(c, i) <= Cut(c, i - 1) + FRAME
  <2>1. i - 1 \in Nat /\ i - 1 < k /\ i \in Nat /\ (i - 1) + 1 = i
    BY <1>3, SMT
  <2>2. (i - 1) * FRAME < N /\ i * FRAME = (i - 1) * FRAME + FRAME /\ (i - 1) * FRAME \in Nat
    BY <1>4, <1>7, <2>1, Zenon
  <2>. QED
    BY <1>1, <1>9, <2>1, <2>2, Widths, SMT
<1>12. ASSUME NEW i \in Nat \ {0} PROVE Upto(c, Cut(c, i - 1)) = Cut(c, i)
  <2>1. i - 1 \in Nat /\ i \in Nat /\ (i - 1) + 1 = i
    BY SMT
  <2>2. i * FRAME = (i - 1) * FRAME + FRAME /\ (i - 1) * FRAME \in Nat
    BY <1>4, <2>1, Zenon
  <2>3. Upto(c, Cut(c, i - 1)) = IF Cut(c, i - 1) + FRAME < N THEN Cut(c, i - 1) + FRAME ELSE N
    BY Zenon DEF Upto, N
  <2>. QED
    BY <1>1, <1>9, <2>1, <2>2, <2>3, Widths, SMT
<1>13. ASSUME NEW i \in Nat, i >= k PROVE Cut(c, i) = N
  BY <1>1, <1>4, <1>8, <1>9, <1>13, SMT
<1>. QED
  BY <1>1, <1>3, <1>6, <1>10, <1>11, <1>12, <1>13, Zenon DEF N, k

(* What the frames of a datagram are. *)
FramesAre(F, c, s) ==
  /\ F \in Seq(Frame) /\ Len(F) = Count(c)
  /\ \A i \in 1 .. Count(c) : F[i] = FrameOf(c, s, i)

LEMMA FramesFields ==
  ASSUME NEW c \in Content, NEW s \in Source
  PROVE  FramesAre(Frames(c, s), c, s)
<1>. DEFINE E == encode_datagram(c)
<1>1. E \in Seq(Octet) /\ Len(E) = Size(c)
  BY EncodeFields, Zenon
<1>2. Count(c) \in Nat
  BY CutFacts, Zenon
<1>3. Frames(c, s) = [i \in 1 .. Count(c) |-> FrameOf(c, s, i)]
  BY <1>1, Zenon DEF Frames, datagram_to_frames, Count, FrameOf, Cut
<1>4. ASSUME NEW i \in 1 .. Count(c) PROVE FrameOf(c, s, i) \in Frame
  <2>1. i - 1 \in Nat /\ i \in Nat
    BY <1>2, SMT
  <2>2. (i - 1) * FRAME \in Nat /\ Cut(c, i) \in 0 .. Size(c) /\ Size(c) \in Nat
    BY <2>1, CutFacts, Zenon
  <2>3. \A j \in (i - 1) * FRAME + 1 .. Cut(c, i) : j \in 1 .. Len(E)
    BY <1>1, <2>2, SMT
  <2>4. \A j \in (i - 1) * FRAME + 1 .. Cut(c, i) : E[j] \in Octet
    BY <1>1, <2>3, ElementOfSeq, Zenon
  <2>5. (i - 1) * FRAME + 1 \in Int /\ Cut(c, i) \in Int
    BY <2>2, SMT
  <2>6. SubSeq(E, (i - 1) * FRAME + 1, Cut(c, i)) \in Seq(Octet)
    BY <2>4, <2>5, SubSeqProperties
  <2>7. (i = 1) \in BOOLEAN
    BY Zenon
  <2>. HIDE DEF E
  <2>. QED
    BY <2>6, <2>7, Zenon DEF Frame, FrameOf, E
<1>5. Frames(c, s) \in [1 .. Count(c) -> Frame]
  BY <1>3, <1>4, Zenon
<1>6. Frames(c, s) \in Seq(Frame) /\ Len(Frames(c, s)) = Count(c)
  BY <1>2, <1>5, SMT
<1>. QED
  BY <1>3, <1>6, Zenon DEF FramesAre

-----------------------------------------------------------------------------
(* The loop of return_datagram, which makes a frame of every call. *)
AddFrame(s, o, f, n) ==
  IF f.bytes = <<>> THEN o
  ELSE [w |-> f.w, frames |-> Append(o.frames, [src |-> s, start |-> n = 1, bytes |-> f.bytes])]

SentStep(c, s, o, n) == AddFrame(s, o, can_datagram_output_bytes(c, o.w), n)

IsSent(f, c, s) ==
  f = [n \in 0 .. FrameCount(encode_datagram(c)) + 1 |->
        IF n = 0 THEN [w |-> can_datagram_writer, frames |-> <<>>] ELSE SentStep(c, s, f[n - 1], n)]

(* Its state after n rounds, the last of which finds no more bytes. *)
Least(m, n) == IF m < n THEN m ELSE n
SentAt(c, s, n) == [w |-> At(c, Cut(c, n)), frames |-> SubSeq(Frames(c, s), 1, Least(n, Count(c)))]

LEMMA SentSteps ==
  ASSUME NEW c \in Content, NEW s \in Source, IsAnswer(c), NEW n \in 1 .. Count(c) + 1
  PROVE  SentStep(c, s, SentAt(c, s, n - 1), n) = SentAt(c, s, n)
<1>. DEFINE E == encode_datagram(c)
            k == Count(c)
            p == Cut(c, n - 1)
            q == Cut(c, n)
            F == Frames(c, s)
<1>1. k \in Nat /\ k >= 1 /\ n - 1 \in Nat /\ n \in Nat \ {0} /\ Size(c) \in Nat
  BY CutFacts, SMT
<1>2. p \in 0 .. Size(c) /\ q \in 0 .. Size(c) /\ Upto(c, p) = q
  BY <1>1, CutFacts, Zenon
<1>3. can_datagram_output_bytes(c, At(c, p)) = [w |-> At(c, q), bytes |-> SubSeq(E, p + 1, q)]
  BY <1>2, OutputIsSlice, Zenon DEF OutAt
<1>4. SentStep(c, s, SentAt(c, s, n - 1), n) =
        IF SubSeq(E, p + 1, q) = <<>> THEN SentAt(c, s, n - 1)
        ELSE [w |-> At(c, q), frames |-> Append(SubSeq(F, 1, Least(n - 1, k)), [src |-> s, start |-> n = 1, bytes |-> SubSeq(E, p + 1, q)])]
  <2>1. SentAt(c, s, n - 1).w = At(c, p) /\ SentAt(c, s, n - 1).frames = SubSeq(F, 1, Least(n - 1, k))
    BY DEF SentAt
  <2>. HIDE DEF E, k, p, q, F
  <2>2. SentStep(c, s, SentAt(c, s, n - 1), n) =
          AddFrame(s, SentAt(c, s, n - 1), [w |-> At(c, q), bytes |-> SubSeq(E, p + 1, q)], n)
    BY <1>3, <2>1, Zenon DEF SentStep
  <2>3. AddFrame(s, SentAt(c, s, n - 1), [w |-> At(c, q), bytes |-> SubSeq(E, p + 1, q)], n) =
          IF SubSeq(E, p + 1, q) = <<>> THEN SentAt(c, s, n - 1)
          ELSE [w |-> At(c, q), frames |-> Append(SentAt(c, s, n - 1).frames, [src |-> s, start |-> n = 1, bytes |-> SubSeq(E, p + 1, q)])]
    BY DEF AddFrame
  <2>. QED
    BY <2>1, <2>2, <2>3, Zenon
<1>5. FramesAre(F, c, s)
  BY FramesFields, Zenon
<1>. HIDE DEF E, k, p, q, F
<1>6. CASE n \in 1 .. k
  <2>1. p = (n - 1) * FRAME /\ p < q
    BY <1>6, CutFacts, Zenon DEF k, p, q
  <2>2. SubSeq(E, p + 1, q) # <<>>
    <3>1. \A j \in p + 1 .. q : E[j] \in Octet
      <4>1. \A j \in p + 1 .. q : j \in 1 .. Size(c)
        BY <1>1, <1>2, SMT
      <4>. QED
        BY <4>1, EncodeFields, ElementOfSeq, Zenon DEF E
    <3>2. p + 1 \in Int /\ q \in Int /\ p + 1 <= q
      BY <1>1, <1>2, <2>1, SMT
    <3>3. Len(SubSeq(E, p + 1, q)) = q - (p + 1) + 1
      BY <3>1, <3>2, SubSeqProperties, SMT
    <3>4. \A x, y \in Int : x <= y => y - x + 1 # 0
      BY SMT
    <3>5. Len(SubSeq(E, p + 1, q)) # 0 /\ Len(<<>>) = 0
      BY <3>2, <3>3, <3>4, EmptySeq, Zenon
    <3>. QED
      BY <3>5, Zenon
  <2>3. F[n] = [src |-> s, start |-> n = 1, bytes |-> SubSeq(E, p + 1, q)]
    BY <1>5, <1>6, <2>1, Zenon DEF FramesAre, FrameOf, E, k, q
  <2>4. Least(n - 1, k) = n - 1 /\ Least(n, k) = n
    BY <1>1, <1>6, SMT DEF Least
  <2>5. Append(SubSeq(F, 1, n - 1), F[n]) = SubSeq(F, 1, n)
    <3>1. F \in Seq(Frame) /\ Len(F) = k
      BY <1>5, Zenon DEF FramesAre, k
    <3>2. 0 \in 0 .. k /\ n - 1 \in 0 .. k /\ n - 1 < k /\ 0 + 1 = 1 /\ (n - 1) + 1 = n
      BY <1>1, <1>6, SMT
    <3>3. Append(SubSeq(F, 0 + 1, n - 1), F[(n - 1) + 1]) = SubSeq(F, 0 + 1, (n - 1) + 1)
      BY <3>1, <3>2, AppendSubSeq, Zenon
    <3>. QED
      BY <3>2, <3>3, Zenon
  <2>. QED
    BY <1>4, <2>2, <2>3, <2>4, <2>5, Zenon DEF SentAt, F, k, q
<1>7. CASE n = k + 1
  <2>1. p = Size(c) /\ q = Size(c)
    <3>1. n - 1 >= k /\ n >= k /\ n \in Nat
      BY <1>1, <1>7, SMT
    <3>. QED
      BY <1>1, <3>1, CutFacts, Zenon DEF k, p, q
  <2>2. SubSeq(E, p + 1, q) = <<>>
    <3>1. p + 1 \in Int /\ q \in Int /\ q < p + 1
      BY <1>1, <2>1, SMT
    <3>. QED
      BY <3>1, SubSeqEmpty, Zenon
  <2>3. Least(n - 1, k) = Least(n, k)
    BY <1>1, <1>7, SMT DEF Least
  <2>. QED
    BY <1>4, <2>1, <2>2, <2>3, Zenon DEF SentAt, k, p, q
<1>. QED
  BY <1>1, <1>6, <1>7, SMT DEF k

(* Boards cut their answers as the client cuts its commands. *)
LEMMA AnswerFrames ==
  ASSUME NEW c \in Content, NEW s \in Source, IsAnswer(c)
  PROVE  return_datagram(c, s) = Frames(c, s)
<1>. DEFINE K == Count(c) + 1
            h == [n \in 0 .. K |-> SentAt(c, s, n)]
            first == [w |-> can_datagram_writer, frames |-> <<>>]
            sentAll == CHOOSE f : IsSent(f, c, s)
<1>1. Count(c) \in Nat /\ Count(c) >= 1 /\ K \in Nat /\ 0 \in 0 .. K /\ K \in 0 .. K
  BY CutFacts, SMT
<1>2. SentAt(c, s, 0) = first
  <2>1. Cut(c, 0) = 0
    <3>1. 1 \in 1 .. Count(c) /\ 1 - 1 = 0
      BY <1>1, SMT
    <3>2. Cut(c, 0) = 0 * FRAME
      BY <3>1, CutFacts, Zenon
    <3>. QED
      BY <3>2, Widths, SMT
  <2>2. Least(0, Count(c)) = 0
    BY <1>1, SMT DEF Least
  <2>3. SubSeq(Frames(c, s), 1, 0) = <<>>
    <3>1. 1 \in Int /\ 0 \in Int /\ 0 < 1
      BY SMT
    <3>. QED
      BY <3>1, SubSeqEmpty, Zenon
  <2>4. At(c, 0) = can_datagram_writer
    BY Zenon DEF At, can_datagram_writer
  <2>. QED
    BY <2>1, <2>2, <2>3, <2>4, Zenon DEF SentAt
<1>3. \A n \in 0 .. K : n = 0 \/ (n \in 1 .. K /\ n # 0 /\ n - 1 \in 0 .. K)
  BY <1>1, SMT
<1>4. \A n \in 1 .. K : n \in 0 .. K /\ n # 0 /\ n - 1 \in 0 .. K
  BY <1>1, SMT
<1>5. \A n \in 1 .. K : h[n] = SentStep(c, s, h[n - 1], n)
  <2>. TAKE n \in 1 .. K
  <2>1. h[n] = SentAt(c, s, n) /\ h[n - 1] = SentAt(c, s, n - 1)
    BY <1>4, Zenon
  <2>2. SentStep(c, s, SentAt(c, s, n - 1), n) = SentAt(c, s, n)
    BY SentSteps, Zenon
  <2>. QED
    BY <2>1, <2>2, Zenon
<1>6. h[0] = first
  BY <1>1, <1>2, Zenon
<1>7. h = [n \in 0 .. K |-> h[n]] /\ h[K] = SentAt(c, s, K)
  BY <1>1, Zenon
<1>. HIDE DEF h
<1>8. IsSent(h, c, s)
  <2>1. \A n \in 0 .. K : h[n] = IF n = 0 THEN first ELSE SentStep(c, s, h[n - 1], n)
    BY <1>3, <1>5, <1>6, Zenon
  <2>. QED
    BY <1>7, <2>1, Zenon DEF IsSent, Count
<1>9. IsSent(sentAll, c, s)
  BY <1>8, Zenon
<1>10. return_datagram(c, s) = sentAll[K].frames
  BY Zenon DEF return_datagram, IsSent, SentStep, AddFrame, Count
<1>. HIDE DEF sentAll
<1>11. sentAll[K] = h[K]
  <2>1. sentAll[0] = h[0]
    BY <1>1, <1>6, <1>9, Zenon DEF IsSent, Count
  <2>2. ASSUME NEW n \in 1 .. K, sentAll[n - 1] = h[n - 1] PROVE sentAll[n] = h[n]
    <3>1. sentAll[n] = SentStep(c, s, sentAll[n - 1], n)
      BY <1>4, <1>9, Zenon DEF IsSent, Count
    <3>. QED
      BY <1>5, <2>2, <3>1, Zenon
  <2>. HIDE DEF K
  <2>. QED
    BY <1>1, <2>1, <2>2, SameSolution, Zenon
<1>12. SentAt(c, s, K).frames = Frames(c, s)
  <2>1. Least(K, Count(c)) = Count(c)
    BY <1>1, SMT DEF Least
  <2>2. Frames(c, s) \in Seq(Frame) /\ Len(Frames(c, s)) = Count(c)
    BY FramesFields, Zenon DEF FramesAre
  <2>3. SubSeq(Frames(c, s), 1, Count(c)) = Frames(c, s)
    BY <2>2, SubSeqFull, Zenon
  <2>. QED
    BY <2>1, <2>3, Zenon DEF SentAt
<1>. QED
  BY <1>7, <1>10, <1>11, <1>12, Zenon

-----------------------------------------------------------------------------
(* What is still to come of a datagram: its frames from some position on. *)
Rest(c, s, q, k) == k \in 1 .. Count(c) + 1 /\ q = SubSeq(Frames(c, s), k, Count(c))
Coming(c, s, q) == \E k \in 1 .. Count(c) + 1 : Rest(c, s, q, k)

LEMMA ComingAll ==
  ASSUME NEW c \in Content, NEW s \in Source
  PROVE  Coming(c, s, Frames(c, s)) /\ Coming(c, s, <<>>)
<1>1. Count(c) \in Nat /\ Frames(c, s) \in Seq(Frame) /\ Len(Frames(c, s)) = Count(c)
  BY CutFacts, FramesFields, Zenon DEF FramesAre
<1>2. 1 \in 1 .. Count(c) + 1 /\ Count(c) + 1 \in 1 .. Count(c) + 1
  BY <1>1, SMT
<1>3. Frames(c, s) = SubSeq(Frames(c, s), 1, Count(c))
  BY <1>1, SubSeqFull, Zenon
<1>4. <<>> = SubSeq(Frames(c, s), Count(c) + 1, Count(c))
  <2>1. Count(c) + 1 \in Int /\ Count(c) \in Int /\ Count(c) < Count(c) + 1
    BY <1>1, SMT
  <2>. QED
    BY <2>1, SubSeqEmpty, Zenon
<1>. QED
  BY <1>2, <1>3, <1>4, Zenon DEF Coming, Rest

(* The frame that comes next is the one at that position. *)
LEMMA ComingNext ==
  ASSUME NEW c \in Content, NEW s \in Source, NEW q, q # <<>>, NEW k, Rest(c, s, q, k)
  PROVE  /\ k \in 1 .. Count(c) /\ Head(q) = FrameOf(c, s, k)
         /\ Rest(c, s, Tail(q), k + 1)
<1>. DEFINE F == Frames(c, s)
            m == Count(c)
<1>1. m \in Nat /\ F \in Seq(Frame) /\ Len(F) = m /\ \A i \in 1 .. m : F[i] = FrameOf(c, s, i)
  BY CutFacts, FramesFields, Zenon DEF FramesAre
<1>2. k \in 1 .. m + 1 /\ q = SubSeq(F, k, m)
  BY Zenon DEF Rest
<1>. HIDE DEF F, m
<1>3. k # m + 1
  <2>1. SUFFICES ASSUME k = m + 1 PROVE FALSE
    BY Zenon
  <2>2. k \in Int /\ m \in Int /\ m < k
    BY <1>1, <2>1, SMT
  <2>. QED
    BY <1>2, <2>2, SubSeqEmpty, Zenon
<1>4. k \in 1 .. m /\ k \in Int /\ m \in Int /\ m >= k /\ m \in k .. m /\ k + 1 \in 1 .. m + 1
  BY <1>1, <1>2, <1>3, SMT
<1>5. Head(q) = F[k] /\ Tail(q) = SubSeq(F, k + 1, m)
  <2>1. k \in 1 .. Len(F) /\ m \in k .. Len(F)
    BY <1>1, <1>4, Zenon
  <2>2. Head(SubSeq(F, k, m)) = F[k] /\ Tail(SubSeq(F, k, m)) = SubSeq(F, k + 1, m)
    BY <1>1, <2>1, HeadTailOfSubSeq
  <2>. QED
    BY <1>2, <2>2, Zenon
<1>. QED
  BY <1>1, <1>4, <1>5, Zenon DEF Rest, F, m

LEMMA ComingTail ==
  ASSUME NEW c \in Content, NEW s \in Source, NEW q \in Seq(Frame), q # <<>>, Coming(c, s, q)
  PROVE  Coming(c, s, Tail(q)) /\ Tail(q) \in Seq(Frame)
<1>1. PICK k \in 1 .. Count(c) + 1 : Rest(c, s, q, k)
  BY Zenon DEF Coming
<1>2. Rest(c, s, Tail(q), k + 1)
  BY <1>1, ComingNext, Zenon
<1>3. k + 1 \in 1 .. Count(c) + 1
  BY <1>2, Zenon DEF Rest
<1>. QED
  BY <1>2, <1>3, HeadTailProperties, Zenon DEF Coming

LEMMA ComingIsSuffix ==
  ASSUME NEW c \in Content, NEW s \in Source, NEW q, Coming(c, s, q)
  PROVE  q = SubSeq(Frames(c, s), Len(Frames(c, s)) - Len(q) + 1, Len(Frames(c, s)))
<1>. DEFINE F == Frames(c, s)
            m == Count(c)
<1>1. m \in Nat /\ F \in Seq(Frame) /\ Len(F) = m
  BY CutFacts, FramesFields, Zenon DEF FramesAre
<1>2. PICK k \in 1 .. m + 1 : q = SubSeq(F, k, m)
  BY Zenon DEF Coming, Rest
<1>. HIDE DEF F, m
<1>3. k \in Int /\ m \in Int /\ \A i \in k .. m : i \in 1 .. m
  BY <1>1, SMT
<1>4. Len(q) = IF k <= m THEN m - k + 1 ELSE 0
  <2>1. \A i \in k .. m : F[i] \in Frame
    BY <1>1, <1>3, ElementOfSeq, Zenon
  <2>. QED
    BY <1>2, <1>3, <2>1, SubSeqProperties, Zenon
<1>5. \A l : l = (IF k <= m THEN m - k + 1 ELSE 0) => m - l + 1 = k
  BY <1>1, SMT
<1>. QED
  BY <1>1, <1>2, <1>4, <1>5, Zenon DEF F

-----------------------------------------------------------------------------
(* The senders, the bus and the histories. *)
StreamInv ==
  /\ receiver \in {"board", "client"}
  /\ current \in [Source -> Content]
  /\ queue \in [Source -> Seq(Frame)]
  /\ sent \in [Content -> Nat] /\ executed \in [Content -> Nat]
  /\ said \in [Source -> SUBSET Content]
  /\ clean \in [Source -> BOOLEAN] /\ fresh \in [Source -> BOOLEAN]
  /\ \A s \in Source : Coming(current[s], s, queue[s])

LEMMA StreamInit == Init => StreamInv
<1>. SUFFICES ASSUME Init PROVE StreamInv
  OBVIOUS
<1>1. (CHOOSE c \in Content : TRUE) \in Content
  BY ContentAssumption, Zenon
<1>2. current \in [Source -> Content]
  BY <1>1, Zenon DEF Init
<1>3. <<>> \in Seq(Frame)
  BY EmptySeq, Zenon
<1>4. 0 \in Nat
  BY SMT
<1>5. \A s \in Source : Coming(current[s], s, queue[s])
  <2>. TAKE s \in Source
  <2>1. current[s] \in Content
    BY <1>2, Zenon
  <2>. QED
    BY <2>1, ComingAll, Zenon DEF Init
<1>. QED
  BY <1>2, <1>3, <1>4, <1>5, Zenon DEF Init, StreamInv

(* What a source hands to the bus, and what becomes of a frame. *)
LEMMA FramesSent ==
  ASSUME NEW c \in Content, NEW s \in Source, s \in Client \/ IsAnswer(c)
  PROVE  (IF s \in Client THEN datagram_to_frames(encode_datagram(c), s) ELSE return_datagram(c, s)) = Frames(c, s)
BY AnswerFrames, Zenon DEF Frames

LEMMA StreamOfSend ==
  ASSUME StreamInv, NEW s \in Source, Send(s)
  PROVE  StreamInv'
<1>1. PICK c \in Content :
        /\ s \in Client \/ IsAnswer(c)
        /\ current' = [current EXCEPT ![s] = c]
        /\ queue' = [queue EXCEPT ![s] = IF s \in Client THEN datagram_to_frames(encode_datagram(c), s)
                                                          ELSE return_datagram(c, s)]
        /\ sent' = [sent EXCEPT ![c] = @ + 1]
        /\ said' = [said EXCEPT ![s] = @ \cup {c}]
  BY Zenon DEF Send
<1>2. queue' = [queue EXCEPT ![s] = Frames(c, s)]
  BY <1>1, FramesSent, Zenon
<1>3. Frames(c, s) \in Seq(Frame) /\ Coming(c, s, Frames(c, s))
  BY ComingAll, FramesFields, Zenon DEF FramesAre
<1>4. current' \in [Source -> Content] /\ queue' \in [Source -> Seq(Frame)]
  BY <1>1, <1>2, <1>3, Zenon DEF StreamInv
<1>5. sent' \in [Content -> Nat]
  <2>1. sent[c] + 1 \in Nat
    BY SMT DEF StreamInv
  <2>. QED
    BY <1>1, <2>1, Zenon DEF StreamInv
<1>6. said' \in [Source -> SUBSET Content]
  <2>1. said[s] \cup {c} \in SUBSET Content
    BY Zenon DEF StreamInv
  <2>. QED
    BY <1>1, <2>1, Zenon DEF StreamInv
<1>7. \A t \in Source : Coming(current'[t], t, queue'[t])
  <2>. TAKE t \in Source
  <2>1. CASE t = s
    BY <1>1, <1>2, <1>3, <2>1, Zenon DEF StreamInv
  <2>2. CASE t # s
    BY <1>1, <1>2, <2>2, Zenon DEF StreamInv
  <2>. QED
    BY <2>1, <2>2, Zenon
<1>8. clean' \in [Source -> BOOLEAN] /\ fresh' \in [Source -> BOOLEAN]
  BY Zenon DEF StreamInv, Send
<1>9. receiver' = receiver /\ executed' = executed
  BY Zenon DEF Send
<1>. QED
  BY <1>4, <1>5, <1>6, <1>7, <1>8, <1>9, Zenon DEF StreamInv

(* Each frame leaves its queue once. *)
LEMMA StreamOfFrame ==
  ASSUME StreamInv, NEW s \in Source, queue[s] # <<>>,
         queue' = [queue EXCEPT ![s] = Tail(@)], UNCHANGED <<receiver, current, sent, said>>,
         executed' \in [Content -> Nat], clean' \in [Source -> BOOLEAN], fresh' \in [Source -> BOOLEAN]
  PROVE  StreamInv'
<1>1. current[s] \in Content /\ queue[s] \in Seq(Frame) /\ Coming(current[s], s, queue[s])
  BY Zenon DEF StreamInv
<1>2. Tail(queue[s]) \in Seq(Frame) /\ Coming(current[s], s, Tail(queue[s]))
  BY <1>1, ComingTail, Zenon
<1>3. queue' \in [Source -> Seq(Frame)]
  BY <1>2, Zenon DEF StreamInv
<1>4. \A t \in Source : Coming(current[t], t, queue'[t])
  <2>. TAKE t \in Source
  <2>1. CASE t = s
    BY <1>2, <2>1, Zenon DEF StreamInv
  <2>2. CASE t # s
    BY <2>2, Zenon DEF StreamInv
  <2>. QED
    BY <2>1, <2>2, Zenon
<1>. QED
  BY <1>3, <1>4, Zenon DEF StreamInv

(* What is executed or read is counted, once. *)
LEMMA Counted ==
  ASSUME executed \in [Content -> Nat], NEW c
  PROVE  [executed EXCEPT ![c] = @ + 1] \in [Content -> Nat]
<1>1. \A n \in Nat : n + 1 \in Nat
  BY SMT
<1>. QED
  BY <1>1, Zenon

LEMMA StreamOfDeliver ==
  ASSUME StreamInv, NEW s \in Source, Deliver(s)
  PROVE  StreamInv'
<1>1. queue[s] # <<>> /\ queue' = [queue EXCEPT ![s] = Tail(@)] /\ UNCHANGED <<receiver, current, sent, said>>
  BY Zenon DEF Deliver
<1>2. executed \in [Content -> Nat] /\ clean \in [Source -> BOOLEAN] /\ fresh \in [Source -> BOOLEAN]
  BY Zenon DEF StreamInv
<1>3. executed' \in [Content -> Nat] /\ clean' \in [Source -> BOOLEAN] /\ fresh' \in [Source -> BOOLEAN]
  <2>1. CASE /\ Receive(Head(queue[s]))
             /\ clean' = [t \in Source |-> t = s /\ (clean[s] \/ Head(queue[s]).start)]
             /\ UNCHANGED host
    <3>1. executed' \in [Content -> Nat]
      BY <1>2, <2>1, Counted, Zenon DEF Receive
    <3>2. fresh' = fresh
      BY <2>1, Zenon DEF host
    <3>3. clean' \in [Source -> BOOLEAN]
      BY <2>1, SMT
    <3>. QED
      BY <1>2, <3>1, <3>2, <3>3, Zenon
  <2>2. CASE HostReceive(s, Head(queue[s])) /\ UNCHANGED board
    <3>1. executed' \in [Content -> Nat]
      BY <1>2, <2>2, Counted, Zenon DEF HostReceive
    <3>2. clean' = clean
      BY <2>2, Zenon DEF board
    <3>3. fresh' \in [Source -> BOOLEAN]
      BY <1>2, <2>2, SMT DEF HostReceive
    <3>. QED
      BY <1>2, <3>1, <3>2, <3>3, Zenon
  <2>. QED
    BY <2>1, <2>2, Zenon DEF Deliver
<1>. QED
  BY <1>1, <1>3, StreamOfFrame, Zenon

LEMMA StreamOfLose ==
  ASSUME StreamInv, NEW s \in Source, Lose(s)
  PROVE  StreamInv'
<1>1. /\ queue[s] # <<>> /\ queue' = [queue EXCEPT ![s] = Tail(@)]
      /\ UNCHANGED <<receiver, current, sent, said>> /\ executed' = executed
      /\ clean' = [clean EXCEPT ![s] = FALSE] /\ fresh' = [fresh EXCEPT ![s] = FALSE]
  BY Zenon DEF Lose
<1>2. executed' \in [Content -> Nat] /\ clean' \in [Source -> BOOLEAN] /\ fresh' \in [Source -> BOOLEAN]
  BY <1>1, Zenon DEF StreamInv
<1>. QED
  BY <1>1, <1>2, StreamOfFrame, Zenon

LEMMA StreamStep == StreamInv /\ [Next]_vars => StreamInv'
<1>. SUFFICES ASSUME StreamInv, [Next]_vars PROVE StreamInv'
  OBVIOUS
<1>1. CASE \E s \in Source : Send(s)
  BY <1>1, StreamOfSend, Zenon
<1>2. CASE \E s \in Source : Deliver(s)
  BY <1>2, StreamOfDeliver, Zenon
<1>3. CASE \E s \in Source : Lose(s)
  BY <1>3, StreamOfLose, Zenon
<1>4. CASE Restart
  <2>1. clean' \in [Source -> BOOLEAN]
    BY <1>4, Zenon DEF Restart
  <2>. QED
    BY <1>4, <2>1, Zenon DEF Restart, StreamInv, host
<1>5. CASE NewReader
  <2>1. fresh' \in [Source -> BOOLEAN]
    BY <1>5, Zenon DEF NewReader
  <2>. QED
    BY <1>5, <2>1, Zenon DEF NewReader, StreamInv, board
<1>6. CASE UNCHANGED vars
  BY <1>6, Zenon DEF vars, board, host, StreamInv
<1>. QED
  BY <1>1, <1>2, <1>3, <1>4, <1>5, <1>6, Zenon DEF Next

LEMMA StreamInvariance == Spec => []StreamInv
<1>. QED
  BY StreamInit, StreamStep, PTL DEF Spec

(* The boards' writer, byte by byte, makes the frames that the client cuts, and
   what is on the way of a datagram is always the last of its frames.        *)
THEOREM FramesAlike == Spec => []SameFrames
<1>1. StreamInv => SameFrames
  <2>. SUFFICES ASSUME StreamInv, NEW s \in Source
                PROVE  queue[s] = SubSeq(Frames(current[s], s), Len(Frames(current[s], s)) - Len(queue[s]) + 1, Len(Frames(current[s], s)))
    BY Zenon DEF SameFrames, Frames
  <2>1. current[s] \in Content /\ Coming(current[s], s, queue[s])
    BY Zenon DEF StreamInv
  <2>. QED
    BY <2>1, ComingIsSuffix, Zenon
<1>. QED
  BY <1>1, StreamInvariance, PTL

-----------------------------------------------------------------------------
(* The loop over the bytes of a frame: the readers after each byte. *)
Fed(f, n, dt, bytes) ==
  f = [i \in 0 .. n |-> IF i = 0 THEN dt ELSE can_datagram_input_byte(f[i - 1], bytes[i])]

LEMMA FedExists ==
  ASSUME NEW dt, NEW bytes, NEW n \in Nat
  PROVE  \E f : Fed(f, n, dt, bytes)
<1>. DEFINE T == {m \in Nat : ~ \E f : Fed(f, m, dt, bytes)}
<1>1. SUFFICES ASSUME T # {} PROVE FALSE
  OBVIOUS
<1>2. PICK m \in T : \A k \in T : m <= k
  <2>1. T \subseteq Nat
    OBVIOUS
  <2>. QED
    BY <1>1, <2>1, LeastNumber, Zenon
<1>3. Fed([i \in 0 .. 0 |-> dt], 0, dt, bytes)
  BY SMT DEF Fed
<1>4. m \in Nat /\ m # 0 /\ m - 1 \in Nat
  <2>1. m # 0 /\ m \in Nat
    BY <1>2, <1>3, Zenon
  <2>. QED
    BY <2>1, SMT
<1>5. PICK f : Fed(f, m - 1, dt, bytes)
  <2>1. m - 1 \notin T
    BY <1>2, <1>4, SMT
  <2>. QED
    BY <1>4, <2>1, Zenon
<1>. DEFINE g == [i \in 0 .. m |-> IF i = m THEN can_datagram_input_byte(f[m - 1], bytes[m]) ELSE f[i]]
<1>6. \A i \in 0 .. m - 1 : g[i] = f[i] /\ i # m
  BY <1>4, SMT
<1>7. \A i \in 0 .. m : g[i] = IF i = 0 THEN dt ELSE can_datagram_input_byte(g[i - 1], bytes[i])
  <2>. TAKE i \in 0 .. m
  <2>1. CASE i = m
    <3>1. m - 1 \in 0 .. m - 1 /\ m \in 0 .. m
      BY <1>4, SMT
    <3>2. g[m - 1] = f[m - 1]
      BY <1>6, <3>1, Zenon
    <3>3. g[m] = can_datagram_input_byte(f[m - 1], bytes[m])
      BY <3>1, Zenon
    <3>. QED
      BY <1>4, <2>1, <3>2, <3>3, Zenon
  <2>2. CASE i # m
    <3>1. i \in 0 .. m - 1
      BY <1>4, <2>2, SMT
    <3>2. g[i] = f[i]
      BY <1>6, <3>1, Zenon
    <3>3. f[i] = IF i = 0 THEN dt ELSE can_datagram_input_byte(f[i - 1], bytes[i])
      BY <1>5, <3>1, Zenon DEF Fed
    <3>4. i # 0 => i - 1 \in 0 .. m - 1
      BY <1>4, <3>1, SMT
    <3>5. i # 0 => g[i - 1] = f[i - 1]
      BY <1>6, <3>4, Zenon
    <3>. QED
      BY <3>2, <3>3, <3>5, Zenon
  <2>. QED
    BY <2>1, <2>2, Zenon
<1>. HIDE DEF g
<1>8. g = [i \in 0 .. m |-> g[i]]
  BY Zenon DEF g
<1>9. Fed(g, m, dt, bytes)
  BY <1>7, <1>8, Zenon DEF Fed
<1>. QED
  BY <1>2, <1>9, Zenon

LEMMA FeedUnfold ==
  ASSUME NEW dt, NEW bytes, Len(bytes) \in Nat
  PROVE  \E f : Fed(f, Len(bytes), dt, bytes) /\ Feed(dt, bytes) = f[Len(bytes)]
<1>. DEFINE f == CHOOSE f : Fed(f, Len(bytes), dt, bytes)
<1>1. Fed(f, Len(bytes), dt, bytes)
  BY FedExists, Zenon
<1>2. Feed(dt, bytes) = f[Len(bytes)]
  BY Zenon DEF Feed, Fed
<1>. QED
  BY <1>1, <1>2, Zenon

(* Where each byte takes the reader from one set to the next. *)
LEMMA FeedReaches ==
  ASSUME NEW dt, NEW bytes, Len(bytes) \in Nat, NEW S, dt \in S[0],
         \A i \in 1 .. Len(bytes) : \A d \in S[i - 1] : can_datagram_input_byte(d, bytes[i]) \in S[i]
  PROVE  Feed(dt, bytes) \in S[Len(bytes)]
<1>. DEFINE n == Len(bytes)
<1>1. PICK f : Fed(f, n, dt, bytes) /\ Feed(dt, bytes) = f[n]
  BY FeedUnfold, Zenon
<1>. HIDE DEF n
<1>2. n \in Nat /\ 0 \in 0 .. n /\ n \in 0 .. n
  BY SMT DEF n
<1>. DEFINE T == {i \in 0 .. n : f[i] \in S[i]}
<1>3. 0 \in T
  BY <1>1, <1>2, Zenon DEF Fed
<1>4. ASSUME NEW i \in 0 .. n, i < n, i \in T PROVE i + 1 \in T
  <2>1. i + 1 \in 1 .. n /\ i + 1 \in 0 .. n /\ i + 1 # 0 /\ (i + 1) - 1 = i
    BY <1>2, <1>4, SMT
  <2>2. f[i + 1] = can_datagram_input_byte(f[(i + 1) - 1], bytes[i + 1])
    BY <1>1, <2>1, Zenon DEF Fed
  <2>3. can_datagram_input_byte(f[i], bytes[i + 1]) \in S[i + 1]
    <3>1. f[i] \in S[(i + 1) - 1]
      BY <1>4, <2>1, Zenon
    <3>. QED
      BY <2>1, <3>1, Zenon DEF n
  <2>. QED
    BY <2>1, <2>2, <2>3, Zenon
<1>5. 0 .. n \subseteq T
  BY <1>2, <1>3, <1>4, InductionTo, Zenon
<1>. QED
  BY <1>1, <1>2, <1>5, Zenon DEF n

(* What every byte leaves in a set, all of them do. *)
LEMMA FeedStays ==
  ASSUME NEW R, NEW dt \in R, NEW bytes, Len(bytes) \in Nat,
         \A i \in 1 .. Len(bytes) : \A d \in R : can_datagram_input_byte(d, bytes[i]) \in R
  PROVE  Feed(dt, bytes) \in R
<1>. DEFINE S == [i \in 0 .. Len(bytes) |-> R]
<1>1. /\ S[0] = R /\ S[Len(bytes)] = R
      /\ \A i \in 1 .. Len(bytes) : S[i - 1] = R /\ S[i] = R
  <2>1. \A n \in Nat : 0 \in 0 .. n /\ n \in 0 .. n /\ \A i \in 1 .. n : i - 1 \in 0 .. n /\ i \in 0 .. n
    BY SMT
  <2>. QED
    BY <2>1, Zenon
<1>. HIDE DEF S
<1>2. dt \in S[0] /\ \A i \in 1 .. Len(bytes) : \A d \in S[i - 1] : can_datagram_input_byte(d, bytes[i]) \in S[i]
  BY <1>1, Zenon
<1>3. Feed(dt, bytes) \in S[Len(bytes)]
  BY <1>2, FeedReaches, Zenon
<1>. QED
  BY <1>1, <1>3, Zenon

-----------------------------------------------------------------------------
(* The reader of the boards. *)
ReaderState == {"VERSION", "CRC", "DST_LEN", "DST", "DATA_LEN", "DATA", "TRAILING"}

Reader ==
  [state : ReaderState, version : Number8, crc : Seq(Octet), crc_read : 0 .. CRC_LEN,
   dst_len : Number8, dst : Seq(Number8),
   data_len : 0 .. WORD - 1, len_read : 0 .. LEN_LEN, data : Seq(Number8)]

(* What each state knows of the counters and the buffers. *)
CrcCounted(dt) ==
  CASE dt.state = "VERSION" -> dt.crc_read = 0
    [] dt.state = "CRC"     -> dt.crc_read < CRC_LEN
    [] OTHER                -> dt.crc_read = CRC_LEN

LengthCounted(dt) ==
  CASE dt.state = "DATA_LEN"              -> dt.len_read < LEN_LEN
    [] dt.state \in {"DATA", "TRAILING"}  -> dt.len_read = LEN_LEN
    [] OTHER                              -> dt.len_read = 0

DataCounted(dt) ==
  CASE dt.state = "DATA"     -> Len(dt.data) < DATA_CAP
    [] dt.state = "TRAILING" -> Len(dt.data) <= DATA_CAP
    [] OTHER                 -> dt.data = <<>>

ReaderOK(dt) ==
  /\ dt \in Reader
  /\ Len(dt.crc) = CRC_LEN /\ Len(dt.dst) < BYTE
  /\ CrcCounted(dt) /\ LengthCounted(dt) /\ DataCounted(dt)

LEMMA AppendFields ==
  ASSUME NEW S, NEW s \in Seq(S), NEW x \in S
  PROVE  /\ Append(s, x) \in Seq(S) /\ Len(Append(s, x)) = Len(s) + 1
         /\ \A i \in 1 .. Len(s) : Append(s, x)[i] = s[i]
         /\ Append(s, x)[Len(s) + 1] = x
BY AppendProperties

LEMMA ReaderStarts ==
  /\ ReaderOK(can_datagram_start(can_datagram_init))
  /\ \A dt : ReaderOK(dt) => ReaderOK(can_datagram_start(dt))
<1>1. <<>> \in Seq(Number8) /\ Len(<<>>) = 0
  BY EmptySeq, Zenon
<1>2. 0 \in 0 .. CRC_LEN /\ 0 \in 0 .. LEN_LEN /\ 0 \in 0 .. WORD - 1 /\ 0 \in Number8 /\ 0 < BYTE
  BY Widths, WordNumber, SMT DEF Number8
<1>3. ASSUME NEW dt \in Reader, Len(dt.crc) = CRC_LEN PROVE ReaderOK(can_datagram_start(dt))
  <2>. DEFINE e == can_datagram_start(dt)
  <2>1. /\ e.state = "VERSION" /\ e.crc_read = 0 /\ e.dst = <<>> /\ e.data = <<>> /\ e.len_read = 0
        /\ e.crc = dt.crc /\ e \in Reader
    BY <1>1, <1>2 DEF can_datagram_start, Reader, ReaderState
  <2>. HIDE DEF e
  <2>. QED
    BY <1>1, <1>2, <1>3, <2>1 DEF ReaderOK, CrcCounted, LengthCounted, DataCounted, e
<1>4. can_datagram_init \in Reader /\ Len(can_datagram_init.crc) = CRC_LEN
  <2>1. [i \in 1 .. CRC_LEN |-> Plain(0)] \in Seq(Octet) /\ Len([i \in 1 .. CRC_LEN |-> Plain(0)]) = CRC_LEN
    <3>1. Plain(0) \in Octet
      BY <1>2, PlainOctet, Zenon
    <3>2. [i \in 1 .. CRC_LEN |-> Plain(0)] \in [1 .. CRC_LEN -> Octet]
      BY <3>1, Zenon
    <3>. QED
      BY <3>2, Widths, SMT
  <2>2. CAN_DATAGRAM_VERSION \in Number8
    BY Widths, SMT DEF Number8, CAN_DATAGRAM_VERSION
  <2>. QED
    BY <1>1, <1>2, <2>1, <2>2 DEF can_datagram_init, Reader, ReaderState
<1>. QED
  BY <1>3, <1>4, Zenon DEF ReaderOK

LEMMA ByteVersion ==
  ASSUME NEW dt, ReaderOK(dt), NEW b \in Octet, dt.state = "VERSION"
  PROVE  ReaderOK(InputVersion(dt, b))
<1>. DEFINE e == InputVersion(dt, b)
<1>1. /\ e \in Reader /\ e.state = "CRC" /\ e.crc = dt.crc /\ e.crc_read = dt.crc_read /\ e.dst = dt.dst
      /\ e.len_read = dt.len_read /\ e.data = dt.data
  BY DEF InputVersion, Reader, ReaderState, ReaderOK, Octet
<1>. HIDE DEF e
<1>2. dt.crc_read = 0
  BY DEF ReaderOK, CrcCounted
<1>3. CrcCounted(e)
  BY <1>1, <1>2, Widths DEF CrcCounted
<1>4. LengthCounted(e) /\ DataCounted(e)
  BY <1>1 DEF ReaderOK, LengthCounted, DataCounted
<1>. QED
  BY <1>1, <1>3, <1>4 DEF ReaderOK, e

LEMMA ByteCrc ==
  ASSUME NEW dt, ReaderOK(dt), NEW b \in Octet, dt.state = "CRC"
  PROVE  ReaderOK(InputCrc(dt, b))
<1>. DEFINE e == InputCrc(dt, b)
<1>1. dt \in Reader /\ dt.crc \in Seq(Octet) /\ Len(dt.crc) = CRC_LEN /\ dt.crc_read \in Nat /\ dt.crc_read < CRC_LEN
  BY Widths DEF ReaderOK, Reader, CrcCounted
<1>2. Append(Tail(dt.crc), b) \in Seq(Octet) /\ Len(Append(Tail(dt.crc), b)) = CRC_LEN
  <2>1. dt.crc # <<>>
    BY <1>1, EmptySeq, Widths, SMT
  <2>2. Tail(dt.crc) \in Seq(Octet) /\ Len(Tail(dt.crc)) = CRC_LEN - 1
    BY <1>1, <2>1, HeadTailProperties, Zenon
  <2>3. Append(Tail(dt.crc), b) \in Seq(Octet) /\ Len(Append(Tail(dt.crc), b)) = Len(Tail(dt.crc)) + 1
    BY <2>2, AppendFields
  <2>4. (CRC_LEN - 1) + 1 = CRC_LEN
    BY Widths, SMT
  <2>. QED
    BY <2>2, <2>3, <2>4, Zenon
<1>3. dt.crc_read + 1 \in 0 .. CRC_LEN
  BY <1>1, Widths, SMT
<1>4. /\ e \in Reader /\ e.crc_read = dt.crc_read + 1 /\ e.crc = Append(Tail(dt.crc), b) /\ e.dst = dt.dst
      /\ e.state = (IF dt.crc_read + 1 = CRC_LEN THEN "DST_LEN" ELSE "CRC")
      /\ e.len_read = dt.len_read /\ e.data = dt.data
  BY <1>1, <1>2, <1>3 DEF InputCrc, Reader, ReaderState
<1>. HIDE DEF e
<1>5. CrcCounted(e)
  <2>1. CASE dt.crc_read + 1 = CRC_LEN
    BY <1>4, <2>1 DEF CrcCounted
  <2>2. CASE dt.crc_read + 1 # CRC_LEN
    <3>1. dt.crc_read + 1 < CRC_LEN
      BY <1>1, <2>2, Widths, SMT
    <3>. QED
      BY <1>4, <2>2, <3>1 DEF CrcCounted
  <2>. QED
    BY <2>1, <2>2, Zenon
<1>6. LengthCounted(e) /\ DataCounted(e)
  BY <1>4 DEF ReaderOK, LengthCounted, DataCounted
<1>. QED
  BY <1>2, <1>4, <1>5, <1>6 DEF ReaderOK, e

LEMMA ByteDstLen ==
  ASSUME NEW dt, ReaderOK(dt), NEW b \in Octet, dt.state = "DST_LEN"
  PROVE  ReaderOK(InputDstLen(dt, b))
<1>. DEFINE e == InputDstLen(dt, b)
<1>1. /\ e \in Reader /\ e.state = "DST" /\ e.crc = dt.crc /\ e.crc_read = dt.crc_read /\ e.dst = dt.dst
      /\ e.len_read = dt.len_read /\ e.data = dt.data
  BY DEF InputDstLen, Reader, ReaderState, ReaderOK, Octet
<1>. HIDE DEF e
<1>2. CrcCounted(e) /\ LengthCounted(e) /\ DataCounted(e)
  BY <1>1 DEF ReaderOK, CrcCounted, LengthCounted, DataCounted
<1>. QED
  BY <1>1, <1>2 DEF ReaderOK, e

(* The index of the destinations wraps before the buffer holds BYTE of them. *)
LEMMA ByteDst ==
  ASSUME NEW dt, ReaderOK(dt), NEW b \in Octet, dt.state = "DST"
  PROVE  ReaderOK(InputDst(dt, b))
<1>. DEFINE e == InputDst(dt, b)
            read == (Len(dt.dst) + 1) % BYTE
            dst == IF read = 0 THEN <<>> ELSE Append(dt.dst, b.n)
<1>1. dt \in Reader /\ dt.dst \in Seq(Number8) /\ b.n \in Number8
  BY DEF ReaderOK, Reader, Octet
<1>2. PICK d \in Nat : d = Len(dt.dst) /\ d < BYTE
  BY <1>1, LenProperties, Zenon DEF ReaderOK
<1>3. read = IF d + 1 = BYTE THEN 0 ELSE d + 1
  <2>1. \A n \in Nat : n < BYTE => (n + 1) % BYTE = IF n + 1 = BYTE THEN 0 ELSE n + 1
    BY Widths, SMT
  <2>. QED
    BY <1>2, <2>1, Zenon
<1>. HIDE DEF read
<1>4. dst \in Seq(Number8) /\ Len(dst) < BYTE
  <2>1. CASE d + 1 = BYTE
    <3>1. dst = <<>>
      BY <1>3, <2>1, Zenon
    <3>2. <<>> \in Seq(Number8) /\ Len(<<>>) = 0 /\ 0 < BYTE
      BY EmptySeq, Widths
    <3>. QED
      BY <3>1, <3>2, Zenon
  <2>2. CASE d + 1 # BYTE
    <3>1. read # 0 /\ d + 1 < BYTE
      BY <1>2, <1>3, <2>2, Widths, SMT
    <3>2. dst = Append(dt.dst, b.n)
      BY <3>1, Zenon
    <3>3. Append(dt.dst, b.n) \in Seq(Number8) /\ Len(Append(dt.dst, b.n)) = d + 1
      BY <1>1, <1>2, AppendFields, Zenon
    <3>. QED
      BY <3>1, <3>2, <3>3, Zenon
  <2>. QED
    BY <2>1, <2>2, Zenon
<1>5. /\ e.dst = dst /\ e.crc = dt.crc /\ e.crc_read = dt.crc_read
      /\ e.state = (IF read = dt.dst_len THEN "DATA_LEN" ELSE "DST")
      /\ e.len_read = dt.len_read /\ e.data = dt.data
  BY <1>1 DEF InputDst, Reader, read
<1>6. e \in Reader
  BY <1>1, <1>4 DEF InputDst, Reader, ReaderState, read
<1>. HIDE DEF e, dst
<1>7. CrcCounted(e) /\ DataCounted(e)
  BY <1>5 DEF ReaderOK, CrcCounted, DataCounted
<1>8. LengthCounted(e)
  BY <1>5, Widths DEF ReaderOK, LengthCounted
<1>. QED
  BY <1>4, <1>5, <1>6, <1>7, <1>8 DEF ReaderOK, e

LEMMA ByteDataLen ==
  ASSUME NEW dt, ReaderOK(dt), NEW b \in Octet, dt.state = "DATA_LEN"
  PROVE  ReaderOK(InputDataLen(dt, b))
<1>. DEFINE e == InputDataLen(dt, b)
            v == (dt.data_len * BYTE + b.n) % WORD
<1>1. dt \in Reader /\ dt.data_len \in Nat /\ b.n \in Nat /\ dt.len_read \in Nat /\ dt.len_read < LEN_LEN
  BY Widths, WordNumber DEF ReaderOK, Reader, Octet, LengthCounted, Number8
<1>2. v \in 0 .. WORD - 1
  <2>1. dt.data_len * BYTE + b.n \in Nat
    BY <1>1, Widths, SMT
  <2>. QED
    BY <2>1, WordNumber, SMT
<1>3. dt.len_read + 1 \in 0 .. LEN_LEN
  BY <1>1, Widths, SMT
<1>. HIDE DEF v
<1>4. /\ e.crc = dt.crc /\ e.crc_read = dt.crc_read /\ e.dst = dt.dst /\ e.data = dt.data
      /\ e.len_read = dt.len_read + 1
      /\ e.state = (IF dt.len_read + 1 = LEN_LEN THEN "DATA" ELSE "DATA_LEN")
  BY <1>1 DEF InputDataLen, Reader
<1>5. e \in Reader
  BY <1>1, <1>2, <1>3 DEF InputDataLen, Reader, ReaderState, v
<1>. HIDE DEF e
<1>6. CrcCounted(e)
  BY <1>4 DEF ReaderOK, CrcCounted
<1>7. LengthCounted(e)
  BY <1>1, <1>4, Widths DEF LengthCounted
<1>8. DataCounted(e)
  <2>1. dt.data = <<>>
    BY DEF ReaderOK, DataCounted
  <2>2. Len(<<>>) < DATA_CAP
    BY EmptySeq, Widths
  <2>. QED
    BY <1>4, <2>1, <2>2 DEF DataCounted
<1>. QED
  BY <1>4, <1>5, <1>6, <1>7, <1>8 DEF ReaderOK, e

(* The data stops at its length or where its buffer ends. *)
LEMMA ByteData ==
  ASSUME NEW dt, ReaderOK(dt), NEW b \in Octet, dt.state = "DATA"
  PROVE  ReaderOK(InputData(dt, b))
<1>. DEFINE e == InputData(dt, b)
            data == Append(dt.data, b.n)
<1>1. dt \in Reader /\ dt.data \in Seq(Number8) /\ b.n \in Number8
  BY DEF ReaderOK, Reader, Octet
<1>2. PICK l \in Nat : l = Len(dt.data) /\ l < DATA_CAP
  BY <1>1, LenProperties DEF ReaderOK, DataCounted
<1>3. data \in Seq(Number8) /\ Len(data) = l + 1
  BY <1>1, <1>2, AppendFields, Zenon
<1>. HIDE DEF data
<1>4. /\ e.data = data /\ e.crc = dt.crc /\ e.crc_read = dt.crc_read /\ e.dst = dt.dst
      /\ e.len_read = dt.len_read
      /\ e.state = (IF l + 1 \in {dt.data_len, DATA_CAP} THEN "TRAILING" ELSE "DATA")
  BY <1>1, <1>2 DEF InputData, Reader, data
<1>5. e \in Reader
  BY <1>1, <1>3 DEF InputData, Reader, ReaderState, data
<1>. HIDE DEF e
<1>6. CrcCounted(e) /\ LengthCounted(e)
  BY <1>4 DEF ReaderOK, CrcCounted, LengthCounted
<1>7. DataCounted(e)
  <2>1. e.state \in {"DATA", "TRAILING"} /\ Len(e.data) = l + 1 /\ (e.state = "DATA" => l + 1 # DATA_CAP)
    BY <1>3, <1>4
  <2>2. l + 1 <= DATA_CAP /\ (l + 1 # DATA_CAP => l + 1 < DATA_CAP)
    BY <1>2, Widths, SMT
  <2>. QED
    BY <2>1, <2>2 DEF DataCounted
<1>. QED
  BY <1>4, <1>5, <1>6, <1>7 DEF ReaderOK, e

LEMMA ByteStays ==
  ASSUME NEW dt, ReaderOK(dt), NEW b \in Octet
  PROVE  ReaderOK(can_datagram_input_byte(dt, b))
<1>1. dt.state \in ReaderState
  BY DEF ReaderOK, Reader
<1>2. CASE dt.state = "VERSION"
  BY <1>2, ByteVersion DEF can_datagram_input_byte
<1>3. CASE dt.state = "CRC"
  BY <1>3, ByteCrc DEF can_datagram_input_byte
<1>4. CASE dt.state = "DST_LEN"
  BY <1>4, ByteDstLen DEF can_datagram_input_byte
<1>5. CASE dt.state = "DST"
  BY <1>5, ByteDst DEF can_datagram_input_byte
<1>6. CASE dt.state = "DATA_LEN"
  BY <1>6, ByteDataLen DEF can_datagram_input_byte
<1>7. CASE dt.state = "DATA"
  BY <1>7, ByteData DEF can_datagram_input_byte
<1>8. CASE dt.state = "TRAILING"
  BY <1>8 DEF can_datagram_input_byte
<1>. QED
  BY <1>1, <1>2, <1>3, <1>4, <1>5, <1>6, <1>7, <1>8, Zenon DEF ReaderState

-----------------------------------------------------------------------------
(* The receivers: what the board's reader is after a frame, and what the
   client has of each source.                                              *)
LEMMA NextFrame ==
  ASSUME StreamInv, NEW s \in Source, queue[s] # <<>>
  PROVE  /\ Head(queue[s]) \in Frame /\ Head(queue[s]).bytes \in Seq(Octet)
         /\ Len(Head(queue[s]).bytes) \in Nat
         /\ \A i \in 1 .. Len(Head(queue[s]).bytes) : Head(queue[s]).bytes[i] \in Octet
<1>1. queue[s] \in Seq(Frame)
  BY Zenon DEF StreamInv
<1>2. Head(queue[s]) \in Frame
  BY <1>1, HeadTailProperties, Zenon
<1>3. Head(queue[s]).bytes \in Seq(Octet)
  BY <1>2 DEF Frame
<1>. QED
  BY <1>2, <1>3, LenProperties, ElementOfSeq, Zenon

Before(frame) == IF frame.start THEN can_datagram_start(reader) ELSE reader
After(frame) == Feed(Before(frame), frame.bytes)

ReceiverInv == ReaderOK(reader) /\ buf \in [Source -> Seq(Octet)]

LEMMA AfterOK ==
  ASSUME ReaderOK(reader), NEW frame, Len(frame.bytes) \in Nat,
         \A i \in 1 .. Len(frame.bytes) : frame.bytes[i] \in Octet
  PROVE  ReaderOK(After(frame))
<1>. DEFINE R == {d \in Reader : ReaderOK(d)}
<1>1. \A d : ReaderOK(d) => d \in R
  BY Zenon DEF ReaderOK
<1>2. Before(frame) \in R
  BY <1>1, ReaderStarts, Zenon DEF Before
<1>3. \A i \in 1 .. Len(frame.bytes) : \A d \in R : can_datagram_input_byte(d, frame.bytes[i]) \in R
  BY <1>1, ByteStays, Zenon
<1>. HIDE DEF R
<1>4. Feed(Before(frame), frame.bytes) \in R
  BY <1>2, <1>3, FeedStays, Zenon
<1>. QED
  BY <1>4, Zenon DEF After, R

LEMMA ReceiverOfDeliver ==
  ASSUME StreamInv, ReceiverInv, NEW s \in Source, Deliver(s)
  PROVE  ReceiverInv'
<1>. DEFINE f == Head(queue[s])
<1>1. f.bytes \in Seq(Octet) /\ Len(f.bytes) \in Nat /\ \A i \in 1 .. Len(f.bytes) : f.bytes[i] \in Octet
  BY NextFrame, Zenon DEF Deliver
<1>. HIDE DEF f
<1>2. CASE Receive(f) /\ UNCHANGED host
  <2>1. ReaderOK(After(f)) /\ ReaderOK(can_datagram_start(After(f)))
    BY <1>1, AfterOK, ReaderStarts, Zenon DEF ReceiverInv
  <2>2. reader' \in {After(f), can_datagram_start(After(f))}
    BY <1>2, Zenon DEF Receive, After, Before
  <2>3. ReaderOK(reader')
    BY <2>1, <2>2, Zenon
  <2>. QED
    BY <1>2, <2>3, Zenon DEF ReceiverInv, ReaderOK, CrcCounted, LengthCounted, DataCounted, host
<1>3. CASE HostReceive(s, f) /\ UNCHANGED board
  <2>1. buf[s] \o f.bytes \in Seq(Octet) /\ <<>> \in Seq(Octet)
    <3>1. buf[s] \in Seq(Octet)
      BY Zenon DEF ReceiverInv
    <3>. QED
      BY <1>1, <3>1, ConcatAt, EmptySeq, Zenon
  <2>2. \E b \in Seq(Octet) : buf' = [buf EXCEPT ![s] = b]
    BY <1>3, <2>1, Zenon DEF HostReceive
  <2>3. buf' \in [Source -> Seq(Octet)]
    BY <2>2, Zenon DEF ReceiverInv
  <2>4. reader' = reader
    BY <1>3, Zenon DEF board
  <2>. QED
    BY <2>3, <2>4, Zenon DEF ReceiverInv, ReaderOK, CrcCounted, LengthCounted, DataCounted
<1>. QED
  BY <1>2, <1>3, Zenon DEF Deliver, f

LEMMA ReceiverStep == StreamInv /\ ReceiverInv /\ [Next]_vars => ReceiverInv'
<1>. SUFFICES ASSUME StreamInv, ReceiverInv, [Next]_vars PROVE ReceiverInv'
  OBVIOUS
<1>1. ASSUME reader' = reader, buf' = buf PROVE ReceiverInv'
  BY <1>1, Zenon DEF ReceiverInv, ReaderOK, CrcCounted, LengthCounted, DataCounted
<1>2. CASE \E s \in Source : Send(s) \/ Lose(s)
  BY <1>1, <1>2, Zenon DEF Send, Lose
<1>3. CASE \E s \in Source : Deliver(s)
  BY <1>3, ReceiverOfDeliver, Zenon
<1>4. CASE Restart
  <2>1. reader' = can_datagram_start(can_datagram_init) /\ buf' = buf
    BY <1>4, Zenon DEF Restart, host
  <2>2. ReaderOK(reader')
    BY <2>1, ReaderStarts, Zenon
  <2>. QED
    BY <2>1, <2>2, Zenon DEF ReceiverInv, ReaderOK, CrcCounted, LengthCounted, DataCounted
<1>5. CASE NewReader
  <2>1. reader' = reader /\ buf' = [s \in Source |-> <<>>]
    BY <1>5, Zenon DEF NewReader, board
  <2>2. buf' \in [Source -> Seq(Octet)]
    BY <2>1, EmptySeq, Zenon
  <2>. QED
    BY <2>1, <2>2, Zenon DEF ReceiverInv, ReaderOK, CrcCounted, LengthCounted, DataCounted
<1>6. CASE UNCHANGED vars
  BY <1>1, <1>6, Zenon DEF vars, board, host
<1>. QED
  BY <1>2, <1>3, <1>4, <1>5, <1>6, Zenon DEF Next

LEMMA ReceiverInit == Init => ReceiverInv
<1>. SUFFICES ASSUME Init PROVE ReceiverInv
  OBVIOUS
<1>1. reader = can_datagram_start(can_datagram_init) /\ buf = [s \in Source |-> <<>>]
  BY Zenon DEF Init
<1>2. buf \in [Source -> Seq(Octet)]
  BY <1>1, EmptySeq, Zenon
<1>. QED
  BY <1>1, <1>2, ReaderStarts, Zenon DEF ReceiverInv

LEMMA ReceiverInvariance == Spec => [](StreamInv /\ ReceiverInv)
<1>. QED
  BY StreamInit, StreamStep, ReceiverInit, ReceiverStep, PTL DEF Spec

(* Whatever bytes come in whatever order, the reader of a board stays inside
   its buffers and its counters inside their fields.                         *)
THEOREM InsideBuffers == Spec => []TypeOK
<1>1. StreamInv /\ ReceiverInv => TypeOK
  <2>. SUFFICES ASSUME StreamInv, ReceiverInv PROVE TypeOK
    OBVIOUS
  <2>1. ReaderOK(reader)
    BY Zenon DEF ReceiverInv
  <2>2. /\ reader.state \in ReaderState /\ reader.crc_read \in 0 .. CRC_LEN /\ Len(reader.dst) < BYTE
        /\ reader.len_read \in 0 .. LEN_LEN /\ reader.data_len \in 0 .. WORD - 1
    BY <2>1 DEF ReaderOK, Reader
  <2>3. Len(reader.data) <= DATA_CAP
    <3>1. CASE reader.state = "DATA"
      <4>1. reader.data \in Seq(Number8) /\ Len(reader.data) < DATA_CAP
        BY <2>1, <3>1 DEF ReaderOK, Reader, DataCounted
      <4>2. \A n \in Nat : n < DATA_CAP => n <= DATA_CAP
        BY Widths, SMT
      <4>. QED
        BY <4>1, <4>2, LenProperties, Zenon
    <3>2. CASE reader.state = "TRAILING"
      BY <2>1, <3>2 DEF ReaderOK, DataCounted
    <3>3. CASE reader.state \notin {"DATA", "TRAILING"}
      <4>1. reader.data = <<>>
        BY <2>1, <3>3 DEF ReaderOK, DataCounted
      <4>. QED
        BY <4>1, EmptySeq, Widths
    <3>. QED
      BY <3>1, <3>2, <3>3
  <2>4. DOMAIN executed = Content
    BY Zenon DEF StreamInv
  <2>. QED
    BY <2>2, <2>3, <2>4, Zenon DEF TypeOK, StreamInv, ReaderState
<1>. QED
  BY <1>1, ReceiverInvariance, PTL

-----------------------------------------------------------------------------
(* The first byte of a CRC tells a datagram from the others: it comes in one
   frame only, and nothing is taken for a datagram without it.               *)
Marked(bytes, c) == \E i \in 1 .. Len(bytes) : bytes[i].of = <<c, 1>>

LEMMA OneMark ==
  ASSUME NEW c \in Content, NEW i \in 1 .. Size(c)
  PROVE  /\ \A x, j : encode_datagram(c)[i].of = <<x, j>> => x = c
         /\ \A x : encode_datagram(c)[i].of = <<x, 1>> => i = 2
<1>. DEFINE E == encode_datagram(c)
            d == Len(c.dst)
            l == Len(c.data)
<1>1. d \in Nat /\ l \in Nat /\ Size(c) = HeaderSize + d + LEN_LEN + l /\ HeaderSize = CRC_LEN + 2
  BY ContentFields, Zenon DEF Size, HeaderSize
<1>2. /\ E[1] = Plain(CAN_DATAGRAM_VERSION)
      /\ \A k \in 1 .. CRC_LEN : E[1 + k] = Crc(c)[k]
      /\ E[HeaderSize] = Plain(d)
      /\ \A k \in 1 .. d : E[HeaderSize + k] = Plain(c.dst[k])
      /\ \A k \in 1 .. LEN_LEN : E[HeaderSize + d + k] = Plain(BigEndian(l)[k])
      /\ \A k \in 1 .. l : E[HeaderSize + d + LEN_LEN + k] = Plain(c.data[k])
  BY EncodeFields, Zenon
<1>3. \A n : Plain(n).of = <<>>
  BY DEF Plain
<1>4. \A x, j : <<>> # <<x, j>>
  OBVIOUS
<1>. HIDE DEF E, d, l
<1>5. CASE i \in 2 .. CRC_LEN + 1
  <2>1. i - 1 \in 1 .. CRC_LEN /\ 1 + (i - 1) = i /\ (i - 1 = 1 => i = 2)
    BY <1>5, Widths, SMT
  <2>2. E[i] = [n |-> CrcValue[c][i - 1], of |-> <<c, i - 1>>]
    <3>1. E[1 + (i - 1)] = Crc(c)[i - 1]
      BY <1>2, <2>1, Zenon
    <3>2. Crc(c)[i - 1] = [n |-> CrcValue[c][i - 1], of |-> <<c, i - 1>>]
      BY <2>1, CrcFields, Zenon
    <3>. QED
      BY <2>1, <3>1, <3>2, Zenon
  <2>3. E[i].of = <<c, i - 1>>
    BY <2>2
  <2>. QED
    BY <2>1, <2>3 DEF E
<1>6. CASE i \notin 2 .. CRC_LEN + 1
  <2>1. \/ i = 1 \/ i = HeaderSize
        \/ \E k \in 1 .. d : i = HeaderSize + k
        \/ \E k \in 1 .. LEN_LEN : i = HeaderSize + d + k
        \/ \E k \in 1 .. l : i = HeaderSize + d + LEN_LEN + k
    <3>1. i \in 1 .. HeaderSize + d + LEN_LEN + l
      BY <1>1, Zenon
    <3>2. \/ i = 1 \/ i = HeaderSize
          \/ i - HeaderSize \in 1 .. d
          \/ i - HeaderSize - d \in 1 .. LEN_LEN
          \/ i - HeaderSize - d - LEN_LEN \in 1 .. l
      BY <1>1, <1>6, <3>1, Widths, SMT
    <3>3. /\ i = HeaderSize + (i - HeaderSize)
          /\ i = HeaderSize + d + (i - HeaderSize - d)
          /\ i = HeaderSize + d + LEN_LEN + (i - HeaderSize - d - LEN_LEN)
      BY <1>1, <3>1, Widths, SMT
    <3>. QED
      BY <3>2, <3>3, Zenon
  <2>2. \E n : E[i] = Plain(n)
    <3>1. ASSUME NEW k \in 1 .. d, i = HeaderSize + k PROVE E[i] = Plain(c.dst[k])
      BY <1>2, <3>1, Zenon
    <3>2. ASSUME NEW k \in 1 .. LEN_LEN, i = HeaderSize + d + k PROVE E[i] = Plain(BigEndian(l)[k])
      BY <1>2, <3>2, Zenon
    <3>3. ASSUME NEW k \in 1 .. l, i = HeaderSize + d + LEN_LEN + k PROVE E[i] = Plain(c.data[k])
      BY <1>2, <3>3, Zenon
    <3>4. (i = 1 => E[i] = Plain(CAN_DATAGRAM_VERSION)) /\ (i = HeaderSize => E[i] = Plain(d))
      BY <1>2, Zenon
    <3>. QED
      BY <2>1, <3>1, <3>2, <3>3, <3>4, Zenon
  <2>. QED
    BY <1>3, <1>4, <2>2, Zenon DEF E
<1>. QED
  BY <1>5, <1>6, Zenon

(* Which byte of the datagram a byte of a frame is. *)
LEMMA FrameByte ==
  ASSUME NEW c \in Content, NEW s \in Source, NEW i \in 1 .. Count(c),
         NEW j \in 1 .. Len(FrameOf(c, s, i).bytes)
  PROVE  /\ (i - 1) * FRAME + j \in 1 .. Size(c) /\ j \in 1 .. FRAME
         /\ FrameOf(c, s, i).bytes[j] = encode_datagram(c)[(i - 1) * FRAME + j]
<1>. DEFINE E == encode_datagram(c)
            p == (i - 1) * FRAME
            q == Cut(c, i)
<1>1. /\ p \in Nat /\ q \in Nat /\ q <= Size(c) /\ Size(c) \in Nat
      /\ p < q /\ q <= p + FRAME
  <2>1. Count(c) \in Nat /\ Size(c) \in Nat /\ Cut(c, i - 1) = p /\ Cut(c, i - 1) < q /\ q <= Cut(c, i - 1) + FRAME
    BY CutFacts, Zenon
  <2>2. i - 1 \in Nat /\ i \in Nat
    BY <2>1, SMT
  <2>3. p \in Nat /\ q \in 0 .. Size(c)
    BY <2>2, CutFacts, Zenon
  <2>. HIDE DEF p, q
  <2>. QED
    BY <2>1, <2>3, SMT
<1>2. FrameOf(c, s, i).bytes = SubSeq(E, p + 1, q)
  BY DEF FrameOf
<1>. HIDE DEF E, p, q
<1>3. \A k \in p + 1 .. q : E[k] \in Octet
  <2>1. \A k \in p + 1 .. q : k \in 1 .. Size(c)
    BY <1>1, SMT
  <2>. QED
    BY <2>1, EncodeFields, ElementOfSeq, Zenon DEF E
<1>4. p + 1 \in Int /\ q \in Int /\ p + 1 <= q
  BY <1>1, SMT
<1>5. /\ Len(SubSeq(E, p + 1, q)) = q - (p + 1) + 1
      /\ \A k \in 1 .. q - (p + 1) + 1 : SubSeq(E, p + 1, q)[k] = E[(p + 1) + k - 1]
  BY <1>3, <1>4, SubSeqProperties
<1>6. j \in 1 .. q - (p + 1) + 1
  BY <1>2, <1>5, Zenon
<1>7. p + j \in 1 .. Size(c) /\ j \in 1 .. FRAME /\ (p + 1) + j - 1 = p + j
  BY <1>1, <1>6, Widths, SMT
<1>. QED
  BY <1>2, <1>5, <1>6, <1>7, Zenon DEF E, p

HasMark(i) == \E j \in 1 .. FRAME : (i - 1) * FRAME + j = 2

LEMMA MarkOfFrame ==
  ASSUME NEW c \in Content, NEW s \in Source, NEW i \in 1 .. Count(c), NEW x, Marked(FrameOf(c, s, i).bytes, x)
  PROVE  x = c /\ HasMark(i)
<1>1. PICK j \in 1 .. Len(FrameOf(c, s, i).bytes) : FrameOf(c, s, i).bytes[j].of = <<x, 1>>
  BY Zenon DEF Marked
<1>2. /\ (i - 1) * FRAME + j \in 1 .. Size(c) /\ j \in 1 .. FRAME
      /\ encode_datagram(c)[(i - 1) * FRAME + j].of = <<x, 1>>
  BY <1>1, FrameByte
<1>. QED
  BY <1>2, OneMark, Zenon DEF HasMark

(* No two frames of a datagram have its mark. *)
LEMMA MarkedOnce ==
  ASSUME NEW c \in Content, NEW s \in Source, NEW i \in 1 .. Count(c), NEW k \in 1 .. Count(c),
         NEW x, Marked(FrameOf(c, s, i).bytes, x), Marked(FrameOf(c, s, k).bytes, x)
  PROVE  i = k
<1>. HasMark(i) /\ HasMark(k)
  BY MarkOfFrame, Zenon
<1>1. PICK j \in 1 .. FRAME : (i - 1) * FRAME + j = 2
  BY Zenon DEF HasMark
<1>2. PICK h \in 1 .. FRAME : (k - 1) * FRAME + h = 2
  BY Zenon DEF HasMark
<1>3. Count(c) \in Nat
  BY CutFacts, Zenon
<1>4. i \in Nat /\ k \in Nat /\ i >= 1 /\ k >= 1 /\ i - 1 \in Nat /\ k - 1 \in Nat
  BY <1>3, SMT
<1>5. ASSUME NEW m \in Nat, NEW n \in Nat, NEW u \in 1 .. FRAME, NEW v \in 1 .. FRAME,
             m * FRAME + u = n * FRAME + v, m < n
      PROVE  FALSE
  <2>1. (m + 1) * FRAME <= n * FRAME /\ (m + 1) * FRAME = m * FRAME + FRAME /\ m * FRAME \in Nat /\ n * FRAME \in Nat
    <3>1. m + 1 \in Nat /\ m + 1 <= n
      BY <1>5, SMT
    <3>. QED
      BY <3>1, Widths, Multiples, Zenon
  <2>. QED
    BY <1>5, <2>1, Widths, SMT
<1>6. ~(i - 1 < k - 1) /\ ~(k - 1 < i - 1)
  BY <1>1, <1>2, <1>4, <1>5, Zenon
<1>. QED
  BY <1>4, <1>6, SMT

-----------------------------------------------------------------------------
(* The mark of a datagram on its way: in one of the frames to come, ... *)
InFrames(q, x) == \E i \in 1 .. Len(q) : Marked(q[i].bytes, x)

LEMMA FramesMark ==
  ASSUME NEW c \in Content, NEW s \in Source, NEW x, InFrames(Frames(c, s), x)
  PROVE  x = c
<1>1. Len(Frames(c, s)) = Count(c) /\ \A i \in 1 .. Count(c) : Frames(c, s)[i] = FrameOf(c, s, i)
  BY FramesFields, Zenon DEF FramesAre
<1>2. PICK i \in 1 .. Count(c) : Marked(FrameOf(c, s, i).bytes, x)
  BY <1>1, Zenon DEF InFrames
<1>. QED
  BY <1>2, MarkOfFrame, Zenon

LEMMA HeadMark ==
  ASSUME NEW q \in Seq(Frame), q # <<>>
  PROVE  /\ \A x : Marked(Head(q).bytes, x) => InFrames(q, x)
         /\ \A x : InFrames(Tail(q), x) => InFrames(q, x)
<1>1. Len(q) \in Nat \ {0} /\ Head(q) = q[1]
  BY EmptySeq
<1>2. /\ Len(Tail(q)) = Len(q) - 1
      /\ \A i \in 1 .. Len(Tail(q)) : Tail(q)[i] = q[i + 1]
  BY HeadTailProperties, Zenon
<1>3. \A n \in Nat \ {0} : 1 \in 1 .. n /\ \A i \in 1 .. n - 1 : i + 1 \in 1 .. n
  BY SMT
<1>4. \A i \in 1 .. Len(Tail(q)) : i + 1 \in 1 .. Len(q)
  BY <1>1, <1>2, <1>3, Zenon
<1>. QED
  BY <1>1, <1>2, <1>3, <1>4, Zenon DEF InFrames

LEMMA TailMark ==
  ASSUME NEW c \in Content, NEW s \in Source, NEW q \in Seq(Frame), q # <<>>, Coming(c, s, q),
         NEW x, InFrames(Tail(q), x)
  PROVE  ~Marked(Head(q).bytes, x)
<1>1. PICK k \in 1 .. Count(c) + 1 : Rest(c, s, q, k)
  BY Zenon DEF Coming
<1>2. k \in 1 .. Count(c) /\ Head(q) = FrameOf(c, s, k) /\ Rest(c, s, Tail(q), k + 1)
  BY <1>1, ComingNext, Zenon
<1>. DEFINE F == Frames(c, s)
            m == Count(c)
            t == SubSeq(F, k + 1, m)
<1>3. m \in Nat /\ F \in Seq(Frame) /\ Len(F) = m /\ \A i \in 1 .. m : F[i] = FrameOf(c, s, i)
  BY CutFacts, FramesFields, Zenon DEF FramesAre
<1>4. Tail(q) = t
  BY <1>2, Zenon DEF Rest
<1>. HIDE DEF F, m
<1>5. \A i \in k + 1 .. m : F[i] \in Frame
  <2>1. \A i \in k + 1 .. m : i \in 1 .. m
    BY <1>2, <1>3, SMT DEF m
  <2>. QED
    BY <1>3, <2>1, ElementOfSeq, Zenon
<1>6. k + 1 \in Int /\ m \in Int
  BY <1>2, <1>3, SMT DEF m
<1>7. /\ Len(t) = IF k + 1 <= m THEN m - (k + 1) + 1 ELSE 0
      /\ \A i \in 1 .. m - (k + 1) + 1 : t[i] = F[(k + 1) + i - 1]
  BY <1>5, <1>6, SubSeqProperties
<1>. HIDE DEF t
<1>8. PICK i \in 1 .. Len(t) : Marked(t[i].bytes, x)
  BY <1>4, Zenon DEF InFrames
<1>9. i \in 1 .. m - (k + 1) + 1 /\ (k + 1) + i - 1 \in 1 .. m /\ (k + 1) + i - 1 # k
  <2>1. \A l : l = (IF k + 1 <= m THEN m - (k + 1) + 1 ELSE 0) =>
          \A j \in 1 .. l : j \in 1 .. m - (k + 1) + 1 /\ (k + 1) + j - 1 \in 1 .. m /\ (k + 1) + j - 1 # k
    BY <1>2, <1>3, SMT DEF m
  <2>. QED
    BY <1>7, <2>1, Zenon
<1>10. Marked(FrameOf(c, s, (k + 1) + i - 1).bytes, x)
  BY <1>3, <1>7, <1>8, <1>9, Zenon
<1>. QED
  BY <1>2, <1>9, <1>10, MarkedOnce, Zenon DEF m

(* ... in a buffer of the client, ... *)
LEMMA ConcatMark ==
  ASSUME NEW r \in Seq(Octet), NEW t \in Seq(Octet), NEW x, Marked(r \o t, x)
  PROVE  Marked(r, x) \/ Marked(t, x)
<1>1. r \o t \in Seq(Octet) /\ Joined(r \o t, r, t)
  BY ConcatAt, Zenon
<1>2. Len(r) \in Nat /\ Len(t) \in Nat
  BY LenProperties, Zenon
<1>3. \A m, n \in Nat : \A i \in 1 .. m + n : i \in 1 .. m \/ (i - m \in 1 .. n /\ m + (i - m) = i)
  BY SMT
<1>4. PICK i \in 1 .. Len(r) + Len(t) : (r \o t)[i].of = <<x, 1>>
  BY <1>1, Zenon DEF Marked, Joined
<1>5. CASE i \in 1 .. Len(r)
  BY <1>1, <1>4, <1>5, Zenon DEF Marked, Joined
<1>6. CASE i - Len(r) \in 1 .. Len(t) /\ Len(r) + (i - Len(r)) = i
  BY <1>1, <1>4, <1>6, Zenon DEF Marked, Joined
<1>. QED
  BY <1>2, <1>3, <1>5, <1>6, Zenon

LEMMA EmptyUnmarked == \A x : ~Marked(<<>>, x)
<1>1. Len(<<>>) = 0 /\ \A i : i \notin 1 .. 0
  BY EmptySeq, SMT
<1>. QED
  BY <1>1, Zenon DEF Marked

(* What is decoded has the mark of its content in front. *)
LEMMA DecodedMark ==
  ASSUME NEW bytes \in Seq(Octet), NEW r, r = decode_datagram(bytes), r.is = "datagram"
  PROVE  Marked(bytes, r.content)
<1>. DEFINE HEADER == CRC_LEN + 2
            dst_len == bytes[HEADER].n
            c == [dst  |-> Numbers(Slice(bytes, HEADER + 1, dst_len)),
                  data |-> Numbers(SubSeq(bytes, HEADER + dst_len + LEN_LEN + 1, Len(bytes)))]
            version == bytes[1].n = CAN_DATAGRAM_VERSION
            short == Len(bytes) < HEADER
            other == Len(bytes) < HEADER + dst_len + LEN_LEN \/ Number(Slice(bytes, HEADER + dst_len + 1, LEN_LEN)) # Len(c.data)
            wrong == \E i \in 1 .. CRC_LEN : bytes[i + 1].of # <<c, i>>
<1>1. r = IF ~version THEN Raises("VersionMismatchError")
          ELSE IF short \/ other THEN Nothing
          ELSE IF wrong THEN Raises("CRCMismatchError")
          ELSE Whole(c)
  BY Zenon DEF decode_datagram
<1>. HIDE DEF c, version, other
<1>2. /\ Raises("VersionMismatchError").is # "datagram" /\ Raises("CRCMismatchError").is # "datagram"
      /\ Nothing.is # "datagram" /\ Whole(c).content = c
  BY DEF Raises, Nothing, Whole
<1>3. ~short /\ ~wrong /\ r.content = c
  BY <1>1, <1>2, Zenon
<1>4. bytes[2].of = <<c, 1>>
  <2>1. 1 \in 1 .. CRC_LEN /\ 1 + 1 = 2
    BY Widths, SMT
  <2>. QED
    BY <1>3, <2>1, Zenon
<1>5. 2 \in 1 .. Len(bytes)
  <2>1. \A l \in Nat : ~(l < CRC_LEN + 2) => 2 \in 1 .. l
    BY Widths, SMT
  <2>. QED
    BY <1>3, <2>1, LenProperties, Zenon
<1>. QED
  BY <1>3, <1>4, <1>5, Zenon DEF Marked

(* ... or in the reader of the board: the first byte of the CRC it has. *)
Held(dt, x) == dt.crc_read # 0 /\ dt.crc[CRC_LEN - dt.crc_read + 1].of = <<x, 1>>

LEMMA HeldByte ==
  ASSUME NEW dt, ReaderOK(dt), NEW b \in Octet, NEW x, Held(can_datagram_input_byte(dt, b), x)
  PROVE  Held(dt, x) \/ b.of = <<x, 1>>
<1>. DEFINE e == can_datagram_input_byte(dt, b)
<1>1. dt \in Reader /\ dt.crc \in Seq(Octet) /\ Len(dt.crc) = CRC_LEN /\ dt.state \in ReaderState
  BY DEF ReaderOK, Reader
<1>2. CASE dt.state = "CRC"
  <2>1. dt.crc_read \in Nat /\ dt.crc_read < CRC_LEN
    BY <1>1, <1>2, Widths DEF ReaderOK, Reader, CrcCounted
  <2>2. e.crc_read = dt.crc_read + 1 /\ e.crc = Append(Tail(dt.crc), b)
    BY <1>1, <1>2 DEF can_datagram_input_byte, InputCrc, Reader
  <2>. DEFINE t == Tail(dt.crc)
  <2>3. t \in Seq(Octet) /\ Len(t) = CRC_LEN - 1 /\ \A i \in 1 .. CRC_LEN - 1 : t[i] = dt.crc[i + 1]
    <3>1. dt.crc # <<>>
      BY <1>1, EmptySeq, Widths, SMT
    <3>. QED
      BY <1>1, <3>1, HeadTailProperties
  <2>. HIDE DEF t
  <2>4. /\ \A i \in 1 .. CRC_LEN - 1 : Append(t, b)[i] = dt.crc[i + 1]
        /\ Append(t, b)[CRC_LEN] = b
    <3>1. /\ \A i \in 1 .. Len(t) : Append(t, b)[i] = t[i]
          /\ Append(t, b)[Len(t) + 1] = b
      BY <2>3, AppendFields
    <3>2. (CRC_LEN - 1) + 1 = CRC_LEN
      BY Widths, SMT
    <3>. QED
      BY <2>3, <3>1, <3>2, Zenon
  <2>5. e.crc[CRC_LEN - e.crc_read + 1].of = <<x, 1>>
    BY Zenon DEF Held
  <2>6. CRC_LEN - (dt.crc_read + 1) + 1 = CRC_LEN - dt.crc_read
    BY <2>1, Widths, SMT
  <2>7. Append(t, b)[CRC_LEN - dt.crc_read].of = <<x, 1>>
    BY <2>2, <2>5, <2>6, Zenon DEF t
  <2>8. CASE dt.crc_read = 0
    <3>1. CRC_LEN - dt.crc_read = CRC_LEN
      BY <2>8, Widths, SMT
    <3>. QED
      BY <2>4, <2>7, <3>1, Zenon
  <2>9. CASE dt.crc_read # 0
    <3>1. CRC_LEN - dt.crc_read \in 1 .. CRC_LEN - 1
      BY <2>1, <2>9, Widths, SMT
    <3>. QED
      BY <2>4, <2>7, <2>9, <3>1, Zenon DEF Held
  <2>. QED
    BY <2>8, <2>9, Zenon
<1>3. CASE dt.state # "CRC"
  <2>1. e.crc = dt.crc /\ e.crc_read = dt.crc_read
    BY <1>1, <1>3 DEF can_datagram_input_byte, InputVersion, InputDstLen, InputDst, InputDataLen, InputData, Reader, ReaderState
  <2>. QED
    BY <2>1, Zenon DEF Held
<1>. QED
  BY <1>2, <1>3, Zenon

LEMMA HeldStart ==
  ASSUME NEW dt, ReaderOK(dt)
  PROVE  \A x : ~Held(can_datagram_start(dt), x)
<1>1. can_datagram_start(dt).crc_read = 0
  BY DEF ReaderOK, Reader, can_datagram_start
<1>. QED
  BY <1>1, Zenon DEF Held

LEMMA HeldAfter ==
  ASSUME ReaderOK(reader), NEW frame, Len(frame.bytes) \in Nat,
         \A i \in 1 .. Len(frame.bytes) : frame.bytes[i] \in Octet,
         NEW x, Held(After(frame), x)
  PROVE  Held(reader, x) \/ Marked(frame.bytes, x)
<1>. DEFINE P == Held(reader, x) \/ Marked(frame.bytes, x)
            R == {d \in Reader : ReaderOK(d) /\ (Held(d, x) => P)}
<1>1. \A d : ReaderOK(d) => d \in Reader
  BY Zenon DEF ReaderOK
<1>2. Before(frame) \in R
  BY <1>1, ReaderStarts, HeldStart, Zenon DEF Before
<1>3. ASSUME NEW i \in 1 .. Len(frame.bytes), NEW d \in R PROVE can_datagram_input_byte(d, frame.bytes[i]) \in R
  <2>1. frame.bytes[i].of = <<x, 1>> => P
    BY Zenon DEF Marked
  <2>2. ReaderOK(can_datagram_input_byte(d, frame.bytes[i]))
    BY ByteStays, Zenon
  <2>3. Held(can_datagram_input_byte(d, frame.bytes[i]), x) => P
    BY <2>1, HeldByte, Zenon
  <2>. QED
    BY <1>1, <2>2, <2>3, Zenon
<1>. HIDE DEF R
<1>4. Feed(Before(frame), frame.bytes) \in R
  BY <1>2, <1>3, FeedStays, Zenon
<1>. QED
  BY <1>4, Zenon DEF After, R

LEMMA ExecutedHeld ==
  ASSUME NEW dt, ReaderOK(dt), can_datagram_is_complete(dt), can_datagram_is_valid(dt)
  PROVE  Held(dt, ContentOf(dt))
<1>1. dt.len_read = LEN_LEN /\ \A i \in 1 .. CRC_LEN : dt.crc[i].of = <<ContentOf(dt), i>>
  BY Zenon DEF can_datagram_is_complete, can_datagram_is_valid
<1>2. dt.state \in {"DATA", "TRAILING"}
  BY <1>1, Widths DEF ReaderOK, LengthCounted
<1>3. dt.crc_read = CRC_LEN
  BY <1>2 DEF ReaderOK, CrcCounted
<1>4. 1 \in 1 .. CRC_LEN /\ CRC_LEN - CRC_LEN + 1 = 1 /\ CRC_LEN # 0
  BY Widths, SMT
<1>. QED
  BY <1>1, <1>3, <1>4, Zenon DEF Held

-----------------------------------------------------------------------------
(* Every datagram that was sent is executed, or read, at most once: what was
   sent is at least what was executed and what could still be: the marks in
   the frames to come, in the buffers of the client, and in the reader.      *)
Waiting(x) == {s \in Source : InFrames(queue[s], x)}
Holding(x) == {s \in Source : Marked(buf[s], x)}
InReader(x) == IF Held(reader, x) THEN 1 ELSE 0

Balance(x) == executed[x] + Cardinality(Waiting(x)) + Cardinality(Holding(x)) + InReader(x) <= sent[x]
OnceInv == \A x \in Content : Balance(x)

(* Comparing how many sources there are in two sets of them. *)
Sized(A, B) ==
  /\ Cardinality(A) \in Nat /\ Cardinality(B) \in Nat
  /\ A \subseteq B => Cardinality(A) <= Cardinality(B)
  /\ \A s \in Source : s \in B /\ A \subseteq B \ {s} => Cardinality(A) + 1 <= Cardinality(B)
  /\ \A s \in Source : A \subseteq B \cup {s} => Cardinality(A) <= Cardinality(B) + 1

LEMMA Sizes ==
  ASSUME NEW A, NEW B, A \subseteq Source, B \subseteq Source
  PROVE  Sized(A, B)
<1>1. IsFiniteSet(A) /\ IsFiniteSet(B)
  BY SourceAssumption, FS_Subset, Zenon
<1>2. Cardinality(A) \in Nat /\ Cardinality(B) \in Nat
  BY <1>1, FS_CardinalityType, Zenon
<1>3. A \subseteq B => Cardinality(A) <= Cardinality(B)
  BY <1>1, FS_Subset, Zenon
<1>4. ASSUME NEW s \in Source, s \in B, A \subseteq B \ {s} PROVE Cardinality(A) + 1 <= Cardinality(B)
  <2>1. IsFiniteSet(B \ {s}) /\ Cardinality(B \ {s}) = Cardinality(B) - 1
    BY <1>1, <1>4, FS_RemoveElement, Zenon
  <2>2. Cardinality(A) <= Cardinality(B \ {s})
    BY <1>4, <2>1, FS_Subset, Zenon
  <2>3. \A a, b \in Nat : a <= b - 1 => a + 1 <= b
    BY SMT
  <2>. QED
    BY <1>2, <2>1, <2>2, <2>3, Zenon
<1>5. ASSUME NEW s \in Source, A \subseteq B \cup {s} PROVE Cardinality(A) <= Cardinality(B) + 1
  <2>1. IsFiniteSet(B \cup {s}) /\ Cardinality(B \cup {s}) \in {Cardinality(B), Cardinality(B) + 1}
    BY <1>1, FS_AddElement, Zenon
  <2>2. Cardinality(A) <= Cardinality(B \cup {s})
    BY <1>5, <2>1, FS_Subset, Zenon
  <2>3. \A a, b, d \in Nat : d \in {b, b + 1} /\ a <= d => a <= b + 1
    BY SMT
  <2>4. Cardinality(B \cup {s}) \in Nat
    BY <2>1, FS_CardinalityType, Zenon
  <2>. QED
    BY <1>2, <2>1, <2>2, <2>3, <2>4, Zenon
<1>. QED
  BY <1>2, <1>3, <1>4, <1>5, Zenon DEF Sized

(* What a step may do to the balance of one content. *)
LEMMA Balanced ==
  ASSUME StreamInv, StreamInv', NEW x \in Content, Balance(x),
         NEW e \in Nat, NEW w \in Nat, NEW h \in Nat, NEW r \in Nat, NEW n \in Nat,
         executed'[x] = executed[x] + e, sent'[x] = sent[x] + n,
         NEW w1 \in Nat, NEW h1 \in Nat, NEW r1 \in Nat,
         Cardinality(Waiting(x)') + w1 <= Cardinality(Waiting(x)) + w,
         Cardinality(Holding(x)') + h1 <= Cardinality(Holding(x)) + h,
         InReader(x)' + r1 <= InReader(x) + r,
         e + w + h + r <= w1 + h1 + r1 + n
  PROVE  Balance(x)'
<1>1. /\ Cardinality(Waiting(x)) \in Nat /\ Cardinality(Holding(x)) \in Nat
      /\ Cardinality(Waiting(x)') \in Nat /\ Cardinality(Holding(x)') \in Nat
  <2>1. Waiting(x) \subseteq Source /\ Holding(x) \subseteq Source /\ Waiting(x)' \subseteq Source /\ Holding(x)' \subseteq Source
    BY Zenon DEF Waiting, Holding
  <2>. QED
    BY <2>1, Sizes, Zenon DEF Sized
<1>2. InReader(x) \in Nat /\ InReader(x)' \in Nat
  BY SMT DEF InReader
<1>3. executed[x] \in Nat /\ sent[x] \in Nat
  BY Zenon DEF StreamInv
<1>4. executed[x] + Cardinality(Waiting(x)) + Cardinality(Holding(x)) + InReader(x) <= sent[x]
  BY Zenon DEF Balance
<1>5. executed'[x] + Cardinality(Waiting(x)') + Cardinality(Holding(x)') + InReader(x)' <= sent'[x]
  BY <1>1, <1>2, <1>3, <1>4, SMT
<1>. QED
  BY <1>5, Zenon DEF Balance

LEMMA OnceOfSend ==
  ASSUME StreamInv, StreamInv', NEW s \in Source, Send(s), NEW x \in Content, Balance(x)
  PROVE  Balance(x)'
<1>1. PICK c \in Content :
        /\ s \in Client \/ IsAnswer(c)
        /\ queue' = [queue EXCEPT ![s] = IF s \in Client THEN datagram_to_frames(encode_datagram(c), s)
                                                          ELSE return_datagram(c, s)]
        /\ sent' = [sent EXCEPT ![c] = @ + 1]
  BY Zenon DEF Send
<1>2. queue' = [queue EXCEPT ![s] = Frames(c, s)]
  BY <1>1, FramesSent, Zenon
<1>. DEFINE one == IF x = c THEN 1 ELSE 0
<1>3. executed'[x] = executed[x] + 0 /\ sent'[x] = sent[x] + one
  <2>1. sent'[x] = IF x = c THEN sent[x] + 1 ELSE sent[x]
    BY <1>1, Zenon DEF StreamInv
  <2>2. sent[x] \in Nat /\ executed[x] \in Nat /\ executed' = executed
    BY Zenon DEF StreamInv, Send
  <2>. QED
    BY <2>1, <2>2, SMT
<1>4. InReader(x)' = InReader(x) /\ Holding(x)' = Holding(x)
  BY Zenon DEF Send, InReader, Held, Holding
<1>5. x # c => Waiting(x)' \subseteq Waiting(x)
  BY <1>2, FramesMark, Zenon DEF Waiting, StreamInv
<1>6. Waiting(x)' \subseteq Waiting(x) \cup {s}
  BY <1>2, Zenon DEF Waiting, StreamInv
<1>7. Cardinality(Waiting(x)') <= Cardinality(Waiting(x)) + one /\ Cardinality(Waiting(x)') \in Nat /\ Cardinality(Holding(x)) \in Nat
      /\ Cardinality(Waiting(x)) \in Nat
  <2>1. Sized(Waiting(x)', Waiting(x)) /\ Sized(Holding(x), Holding(x))
    <3>1. Waiting(x) \subseteq Source /\ Waiting(x)' \subseteq Source /\ Holding(x) \subseteq Source
      BY Zenon DEF Waiting, Holding
    <3>. QED
      BY <3>1, Sizes, Zenon
  <2>2. x = c => Cardinality(Waiting(x)') <= Cardinality(Waiting(x)) + 1
    BY <1>6, <2>1, Zenon DEF Sized
  <2>3. x # c => Cardinality(Waiting(x)') <= Cardinality(Waiting(x))
    BY <1>5, <2>1, Zenon DEF Sized
  <2>4. Cardinality(Waiting(x)) \in Nat /\ Cardinality(Waiting(x)') \in Nat /\ Cardinality(Holding(x)) \in Nat
    BY <2>1, Zenon DEF Sized
  <2>. QED
    BY <2>2, <2>3, <2>4, SMT
<1>8. InReader(x) \in Nat
  BY SMT DEF InReader
<1>9. one \in Nat /\ 0 \in Nat /\ 0 + one + 0 + 0 <= 0 + 0 + 0 + one
  BY SMT
<1>. HIDE DEF one
<1>10. /\ Cardinality(Waiting(x)') + 0 <= Cardinality(Waiting(x)) + one
       /\ Cardinality(Holding(x)') + 0 <= Cardinality(Holding(x)) + 0
       /\ InReader(x)' + 0 <= InReader(x) + 0
  <2>1. Cardinality(Holding(x)') = Cardinality(Holding(x))
    BY <1>4, Zenon
  <2>. QED
    BY <1>4, <1>7, <1>8, <1>9, <2>1, SMT
<1>. QED
  BY <1>3, <1>9, <1>10, Balanced

(* A frame takes the mark it has out of the frames to come. *)
MarkIn(bytes, x) == IF Marked(bytes, x) THEN 1 ELSE 0

LEMMA OnceOfFrame ==
  ASSUME StreamInv, NEW s \in Source, queue[s] # <<>>, queue' = [queue EXCEPT ![s] = Tail(@)],
         NEW x \in Content
  PROVE  Cardinality(Waiting(x)') + MarkIn(Head(queue[s]).bytes, x) <= Cardinality(Waiting(x))
<1>1. current[s] \in Content /\ queue[s] \in Seq(Frame) /\ Coming(current[s], s, queue[s])
  BY Zenon DEF StreamInv
<1>2. \A t \in Source : queue'[t] = IF t = s THEN Tail(queue[s]) ELSE queue[t]
  BY Zenon DEF StreamInv
<1>3. Waiting(x)' \subseteq Waiting(x)
  BY <1>1, <1>2, HeadMark, Zenon DEF Waiting
<1>4. Marked(Head(queue[s]).bytes, x) => s \in Waiting(x) /\ s \notin Waiting(x)'
  <2>1. Marked(Head(queue[s]).bytes, x) => InFrames(queue[s], x)
    BY <1>1, HeadMark, Zenon
  <2>2. InFrames(Tail(queue[s]), x) => ~Marked(Head(queue[s]).bytes, x)
    BY <1>1, TailMark, Zenon
  <2>. QED
    BY <1>2, <2>1, <2>2, Zenon DEF Waiting
<1>5. Sized(Waiting(x)', Waiting(x))
  <2>1. Waiting(x) \subseteq Source /\ Waiting(x)' \subseteq Source
    BY Zenon DEF Waiting
  <2>. QED
    BY <2>1, Sizes, Zenon
<1>6. /\ Cardinality(Waiting(x)) \in Nat /\ Cardinality(Waiting(x)') \in Nat
      /\ Cardinality(Waiting(x)') <= Cardinality(Waiting(x))
  BY <1>3, <1>5, Zenon DEF Sized
<1>7. CASE Marked(Head(queue[s]).bytes, x)
  <2>1. s \in Waiting(x) /\ Waiting(x)' \subseteq Waiting(x) \ {s}
    BY <1>3, <1>4, <1>7, Zenon
  <2>2. Cardinality(Waiting(x)') + 1 <= Cardinality(Waiting(x))
    BY <1>5, <2>1, Zenon DEF Sized
  <2>. QED
    BY <1>7, <2>2, Zenon DEF MarkIn
<1>8. CASE ~Marked(Head(queue[s]).bytes, x)
  <2>1. \A a, b \in Nat : a <= b => a + 0 <= b
    BY SMT
  <2>. QED
    BY <1>6, <1>8, <2>1, Zenon DEF MarkIn
<1>. QED
  BY <1>7, <1>8, Zenon

(* The board takes over the mark, and gives it up when it executes. *)
LEMMA OnceOfReceive ==
  ASSUME StreamInv, ReaderOK(reader), NEW f, Len(f.bytes) \in Nat,
         \A i \in 1 .. Len(f.bytes) : f.bytes[i] \in Octet,
         Receive(f), NEW x \in Content
  PROVE  \E e \in Nat : executed'[x] = executed[x] + e /\ InReader(x)' + e <= InReader(x) + MarkIn(f.bytes, x)
<1>. DEFINE dt == After(f)
<1>1. ReaderOK(dt) /\ (Held(dt, x) => Held(reader, x) \/ Marked(f.bytes, x))
  BY AfterOK, HeldAfter, Zenon
<1>2. executed \in [Content -> Nat] /\ executed[x] \in Nat
  BY Zenon DEF StreamInv
<1>3. /\ can_datagram_is_complete(dt) =>
           /\ executed' = IF can_datagram_is_valid(dt) /\ Addressed(ContentOf(dt))
                            THEN [executed EXCEPT ![ContentOf(dt)] = @ + 1] ELSE executed
           /\ reader' = can_datagram_start(dt)
      /\ ~can_datagram_is_complete(dt) => reader' = dt /\ executed' = executed
  BY Zenon DEF Receive, After, Before
<1>. HIDE DEF dt
<1>4. InReader(x)' = IF Held(reader', x) THEN 1 ELSE 0
  BY Zenon DEF InReader, Held
<1>5. \/ executed'[x] = executed[x] + 0 /\ (Held(reader', x) => Held(dt, x))
      \/ executed'[x] = executed[x] + 1 /\ ~Held(reader', x) /\ Held(dt, x)
  <2>1. executed[x] = executed[x] + 0
    BY <1>2, SMT
  <2>2. CASE ~can_datagram_is_complete(dt)
    BY <1>3, <2>1, <2>2, Zenon
  <2>3. CASE can_datagram_is_complete(dt) /\ can_datagram_is_valid(dt) /\ ContentOf(dt) = x
    <3>1. Held(dt, x)
      BY <1>1, <2>3, ExecutedHeld, Zenon
    <3>2. executed'[x] \in {executed[x], executed[x] + 1}
      BY <1>2, <1>3, <2>3, Zenon
    <3>3. ~Held(reader', x)
      BY <1>1, <1>3, <2>3, HeldStart, Zenon
    <3>. QED
      BY <2>1, <3>1, <3>2, <3>3, Zenon
  <2>4. CASE can_datagram_is_complete(dt) /\ ~(can_datagram_is_valid(dt) /\ ContentOf(dt) = x)
    <3>1. executed'[x] = executed[x]
      BY <1>2, <1>3, <2>4, Zenon
    <3>2. ~Held(reader', x)
      BY <1>1, <1>3, <2>4, HeldStart, Zenon
    <3>. QED
      BY <2>1, <3>1, <3>2, Zenon
  <2>. QED
    BY <2>2, <2>3, <2>4, Zenon
<1>6. CASE executed'[x] = executed[x] + 0 /\ (Held(reader', x) => Held(dt, x))
  <2>1. InReader(x)' + 0 <= InReader(x) + MarkIn(f.bytes, x)
    BY <1>1, <1>4, <1>6, SMT DEF InReader, MarkIn
  <2>. QED
    BY <1>6, <2>1, SMT
<1>7. CASE executed'[x] = executed[x] + 1 /\ ~Held(reader', x) /\ Held(dt, x)
  <2>1. InReader(x)' + 1 <= InReader(x) + MarkIn(f.bytes, x)
    BY <1>1, <1>4, <1>7, SMT DEF InReader, MarkIn
  <2>. QED
    BY <1>7, <2>1, SMT
<1>. QED
  BY <1>5, <1>6, <1>7, Zenon

(* So does the client. *)
LEMMA OnceOfHostReceive ==
  ASSUME StreamInv, ReceiverInv, NEW s \in Source, NEW f, f.bytes \in Seq(Octet),
         HostReceive(s, f), NEW x \in Content
  PROVE  \E e \in Nat : /\ executed'[x] = executed[x] + e
                        /\ Cardinality(Holding(x)') + e <= Cardinality(Holding(x)) + MarkIn(f.bytes, x)
<1>. DEFINE bytes == buf[s] \o f.bytes
            r == decode_datagram(bytes)
<1>1. buf \in [Source -> Seq(Octet)] /\ buf[s] \in Seq(Octet)
  BY Zenon DEF ReceiverInv
<1>2. bytes \in Seq(Octet) /\ (Marked(bytes, x) => Marked(buf[s], x) \/ Marked(f.bytes, x))
  BY <1>1, ConcatAt, ConcatMark, Zenon
<1>3. executed \in [Content -> Nat] /\ executed[x] \in Nat
  BY Zenon DEF StreamInv
<1>4. /\ executed' = IF r.is = "datagram" THEN [executed EXCEPT ![r.content] = @ + 1] ELSE executed
      /\ buf' = [buf EXCEPT ![s] = IF r.is = "None" THEN bytes ELSE <<>>]
  BY Zenon DEF HostReceive
<1>5. r.is = "datagram" => Marked(bytes, r.content)
  BY <1>2, DecodedMark, Zenon
<1>. HIDE DEF r, bytes
<1>6. Sized(Holding(x)', Holding(x))
  <2>1. Holding(x) \subseteq Source /\ Holding(x)' \subseteq Source
    BY Zenon DEF Holding
  <2>. QED
    BY <2>1, Sizes, Zenon
<1>7. Cardinality(Holding(x)') \in Nat /\ Cardinality(Holding(x)) \in Nat
  BY <1>6, Zenon DEF Sized
<1>8. \A t \in Source : buf'[t] = IF t = s THEN (IF r.is = "None" THEN bytes ELSE <<>>) ELSE buf[t]
  BY <1>1, <1>4, Zenon
<1>9. CASE r.is = "datagram" /\ r.content = x
  <2>1. executed'[x] = executed[x] + 1
    BY <1>3, <1>4, <1>9, Zenon
  <2>2. Holding(x)' \subseteq Holding(x) \ {s}
    <3>1. "datagram" # "None"
      OBVIOUS
    <3>. QED
      BY <1>8, <1>9, <3>1, EmptyUnmarked, Zenon DEF Holding
  <2>3. Marked(buf[s], x) \/ Marked(f.bytes, x)
    BY <1>2, <1>5, <1>9, Zenon
  <2>4. CASE Marked(buf[s], x)
    <3>1. Cardinality(Holding(x)') + 1 <= Cardinality(Holding(x))
      BY <1>6, <2>2, <2>4, Zenon DEF Sized, Holding
    <3>2. Cardinality(Holding(x)') + 1 <= Cardinality(Holding(x)) + MarkIn(f.bytes, x)
      BY <1>7, <3>1, SMT DEF MarkIn
    <3>. QED
      BY <2>1, <3>2, SMT
  <2>5. CASE Marked(f.bytes, x)
    <3>1. Cardinality(Holding(x)') <= Cardinality(Holding(x))
      BY <1>6, <2>2, Zenon DEF Sized
    <3>2. Cardinality(Holding(x)') + 1 <= Cardinality(Holding(x)) + MarkIn(f.bytes, x)
      BY <1>7, <2>5, <3>1, SMT DEF MarkIn
    <3>. QED
      BY <2>1, <3>2, SMT
  <2>. QED
    BY <2>3, <2>4, <2>5, Zenon
<1>10. CASE ~(r.is = "datagram" /\ r.content = x)
  <2>1. executed'[x] = executed[x] + 0
    <3>1. executed'[x] = executed[x]
      BY <1>3, <1>4, <1>10, Zenon
    <3>. QED
      BY <1>3, <3>1, SMT
  <2>2. Marked(buf'[s], x) => Marked(buf[s], x) \/ Marked(f.bytes, x)
    BY <1>2, <1>8, EmptyUnmarked, Zenon
  <2>3. CASE Marked(f.bytes, x)
    <3>1. Holding(x)' \subseteq Holding(x) \cup {s}
      BY <1>8, Zenon DEF Holding
    <3>2. Cardinality(Holding(x)') <= Cardinality(Holding(x)) + 1
      BY <1>6, <3>1, Zenon DEF Sized
    <3>3. Cardinality(Holding(x)') + 0 <= Cardinality(Holding(x)) + MarkIn(f.bytes, x)
      BY <1>7, <2>3, <3>2, SMT DEF MarkIn
    <3>. QED
      BY <2>1, <3>3, SMT
  <2>4. CASE ~Marked(f.bytes, x)
    <3>1. Holding(x)' \subseteq Holding(x)
      BY <1>8, <2>2, <2>4, Zenon DEF Holding
    <3>2. Cardinality(Holding(x)') <= Cardinality(Holding(x))
      BY <1>6, <3>1, Zenon DEF Sized
    <3>3. Cardinality(Holding(x)') + 0 <= Cardinality(Holding(x)) + MarkIn(f.bytes, x)
      BY <1>7, <2>4, <3>2, SMT DEF MarkIn
    <3>. QED
      BY <2>1, <3>3, SMT
  <2>. QED
    BY <2>3, <2>4, Zenon
<1>. QED
  BY <1>9, <1>10, Zenon

LEMMA OnceOfDeliver ==
  ASSUME StreamInv, StreamInv', ReceiverInv, NEW s \in Source, Deliver(s), NEW x \in Content, Balance(x)
  PROVE  Balance(x)'
<1>. DEFINE f == Head(queue[s])
            m == MarkIn(f.bytes, x)
<1>1. queue[s] # <<>> /\ queue' = [queue EXCEPT ![s] = Tail(@)] /\ sent' = sent
  BY Zenon DEF Deliver
<1>2. f.bytes \in Seq(Octet) /\ Len(f.bytes) \in Nat /\ \A i \in 1 .. Len(f.bytes) : f.bytes[i] \in Octet
  BY <1>1, NextFrame, Zenon
<1>3. Cardinality(Waiting(x)') + m <= Cardinality(Waiting(x))
  BY <1>1, OnceOfFrame, Zenon
<1>4. m \in Nat
  BY SMT DEF MarkIn
<1>. HIDE DEF f, m
<1>5. Waiting(x) \subseteq Source /\ Holding(x) \subseteq Source /\ Waiting(x)' \subseteq Source
  BY Zenon DEF Waiting, Holding
<1>6. Cardinality(Waiting(x)) \in Nat /\ Cardinality(Waiting(x)') \in Nat /\ Cardinality(Holding(x)) \in Nat
  <2>1. Sized(Waiting(x)', Waiting(x)) /\ Sized(Holding(x), Holding(x))
    BY <1>5, Sizes, Zenon
  <2>. QED
    BY <2>1, Zenon DEF Sized
<1>7. Cardinality(Waiting(x)') + m <= Cardinality(Waiting(x)) + 0
  BY <1>3, <1>4, <1>6, SMT
<1>8. sent'[x] = sent[x] + 0 /\ InReader(x) \in Nat
  <2>1. sent[x] \in Nat
    BY Zenon DEF StreamInv
  <2>2. InReader(x) \in Nat
    BY SMT DEF InReader
  <2>. QED
    BY <1>1, <2>1, <2>2, SMT
<1>9. CASE Receive(f) /\ UNCHANGED host
  <2>1. PICK e \in Nat : executed'[x] = executed[x] + e /\ InReader(x)' + e <= InReader(x) + m
    BY <1>2, <1>9, OnceOfReceive, Zenon DEF ReceiverInv, m
  <2>2. Holding(x)' = Holding(x)
    BY <1>9, Zenon DEF Holding, host
  <2>3. Cardinality(Holding(x)') + 0 <= Cardinality(Holding(x)) + 0
    <3>1. Cardinality(Holding(x)') = Cardinality(Holding(x))
      BY <2>2, Zenon
    <3>. QED
      BY <1>6, <3>1, SMT
  <2>4. 0 \in Nat /\ e + 0 + 0 + m <= m + 0 + e + 0
    BY <1>4, SMT
  <2>. QED
    BY <1>4, <1>7, <1>8, <2>1, <2>3, <2>4, Balanced
<1>10. CASE HostReceive(s, f) /\ UNCHANGED board
  <2>1. PICK e \in Nat : /\ executed'[x] = executed[x] + e
                         /\ Cardinality(Holding(x)') + e <= Cardinality(Holding(x)) + m
    BY <1>2, <1>10, OnceOfHostReceive, Zenon DEF m
  <2>2. InReader(x)' = InReader(x)
    BY <1>10, Zenon DEF InReader, Held, board
  <2>3. InReader(x)' + 0 <= InReader(x) + 0
    BY <1>8, <2>2, SMT
  <2>4. 0 \in Nat /\ e + 0 + m + 0 <= m + e + 0 + 0
    BY <1>4, SMT
  <2>. QED
    BY <1>4, <1>7, <1>8, <2>1, <2>3, <2>4, Balanced
<1>. QED
  BY <1>9, <1>10, Zenon DEF Deliver, f

(* The other steps add no mark anywhere. *)
LEMMA OnceOfOther ==
  ASSUME StreamInv, StreamInv', NEW x \in Content, Balance(x), executed' = executed, sent' = sent,
         Waiting(x)' \subseteq Waiting(x), Holding(x)' \subseteq Holding(x),
         InReader(x)' = InReader(x) \/ InReader(x)' = 0
  PROVE  Balance(x)'
<1>1. Waiting(x) \subseteq Source /\ Waiting(x)' \subseteq Source /\ Holding(x) \subseteq Source /\ Holding(x)' \subseteq Source
  BY Zenon DEF Waiting, Holding
<1>2. Sized(Waiting(x)', Waiting(x)) /\ Sized(Holding(x)', Holding(x))
  BY <1>1, Sizes, Zenon
<1>3. /\ Cardinality(Waiting(x)') <= Cardinality(Waiting(x)) /\ Cardinality(Holding(x)') <= Cardinality(Holding(x))
      /\ Cardinality(Waiting(x)) \in Nat /\ Cardinality(Holding(x)) \in Nat
      /\ Cardinality(Waiting(x)') \in Nat /\ Cardinality(Holding(x)') \in Nat
  BY <1>2, Zenon DEF Sized
<1>4. InReader(x) \in Nat /\ executed[x] \in Nat /\ sent[x] \in Nat
  BY Zenon DEF InReader, StreamInv
<1>5. /\ 0 \in Nat /\ executed'[x] = executed[x] + 0 /\ sent'[x] = sent[x] + 0
      /\ Cardinality(Waiting(x)') + 0 <= Cardinality(Waiting(x)) + 0
      /\ Cardinality(Holding(x)') + 0 <= Cardinality(Holding(x)) + 0
      /\ InReader(x)' + 0 <= InReader(x) + 0
      /\ 0 + 0 + 0 + 0 <= 0 + 0 + 0 + 0
  BY <1>3, <1>4, SMT
<1>. QED
  BY <1>5, Balanced

LEMMA OnceStep == StreamInv /\ StreamInv' /\ ReceiverInv /\ OnceInv /\ [Next]_vars => OnceInv'
<1>. SUFFICES ASSUME StreamInv, StreamInv', ReceiverInv, OnceInv, [Next]_vars, NEW x \in Content
              PROVE  Balance(x)'
  BY Zenon DEF OnceInv
<1>1. Balance(x)
  BY Zenon DEF OnceInv
<1>2. CASE \E s \in Source : Send(s)
  BY <1>1, <1>2, OnceOfSend, Zenon
<1>3. CASE \E s \in Source : Deliver(s)
  BY <1>1, <1>3, OnceOfDeliver, Zenon
<1>4. CASE \E s \in Source : Lose(s)
  <2>1. PICK s \in Source : Lose(s)
    BY <1>4, Zenon
  <2>2. /\ queue[s] # <<>> /\ queue' = [queue EXCEPT ![s] = Tail(@)]
        /\ executed' = executed /\ sent' = sent /\ reader' = reader /\ buf' = buf
    BY <2>1, Zenon DEF Lose
  <2>3. Waiting(x)' \subseteq Waiting(x)
    <3>1. queue[s] \in Seq(Frame) /\ \A t \in Source : queue'[t] = IF t = s THEN Tail(queue[s]) ELSE queue[t]
      BY <2>2, Zenon DEF StreamInv
    <3>. QED
      BY <2>2, <3>1, HeadMark, Zenon DEF Waiting
  <2>4. Holding(x)' \subseteq Holding(x) /\ InReader(x)' = InReader(x)
    BY <2>2, Zenon DEF Holding, InReader, Held
  <2>. QED
    BY <1>1, <2>2, <2>3, <2>4, OnceOfOther, Zenon
<1>5. CASE Restart
  <2>1. /\ executed' = executed /\ sent' = sent /\ queue' = queue /\ buf' = buf
        /\ reader' = can_datagram_start(can_datagram_init)
    BY <1>5, Zenon DEF Restart, host
  <2>2. Waiting(x)' \subseteq Waiting(x) /\ Holding(x)' \subseteq Holding(x)
    BY <2>1, Zenon DEF Waiting, Holding
  <2>3. reader'.crc_read = 0
    BY <2>1 DEF can_datagram_start, can_datagram_init
  <2>4. InReader(x)' = 0
    BY <2>3, Zenon DEF InReader, Held
  <2>. QED
    BY <1>1, <2>1, <2>2, <2>4, OnceOfOther, Zenon
<1>6. CASE NewReader
  <2>1. /\ executed' = executed /\ sent' = sent /\ queue' = queue /\ reader' = reader
        /\ buf' = [s \in Source |-> <<>>]
    BY <1>6, Zenon DEF NewReader, board
  <2>2. Waiting(x)' \subseteq Waiting(x) /\ InReader(x)' = InReader(x)
    BY <2>1, Zenon DEF Waiting, InReader, Held
  <2>3. Holding(x)' \subseteq Holding(x)
    BY <2>1, EmptyUnmarked, Zenon DEF Holding
  <2>. QED
    BY <1>1, <2>1, <2>2, <2>3, OnceOfOther, Zenon
<1>7. CASE UNCHANGED vars
  <2>1. executed' = executed /\ sent' = sent /\ queue' = queue /\ reader' = reader /\ buf' = buf
    BY <1>7, Zenon DEF vars, board, host
  <2>2. Waiting(x)' \subseteq Waiting(x) /\ Holding(x)' \subseteq Holding(x) /\ InReader(x)' = InReader(x)
    BY <2>1, Zenon DEF Waiting, Holding, InReader, Held
  <2>. QED
    BY <1>1, <2>1, <2>2, OnceOfOther, Zenon
<1>. QED
  BY <1>2, <1>3, <1>4, <1>5, <1>6, <1>7, Zenon DEF Next

LEMMA OnceInit == Init => OnceInv
<1>. SUFFICES ASSUME Init, NEW x \in Content PROVE Balance(x)
  BY Zenon DEF OnceInv
<1>1. /\ executed[x] = 0 /\ sent[x] = 0 /\ reader = can_datagram_start(can_datagram_init)
      /\ \A s \in Source : queue[s] = <<>> /\ buf[s] = <<>>
  BY Zenon DEF Init
<1>2. \A i : i \notin 1 .. Len(<<>>)
  <2>1. \A i : i \notin 1 .. 0
    BY SMT
  <2>. QED
    BY <2>1, EmptySeq, Zenon
<1>3. Waiting(x) = {} /\ Holding(x) = {}
  BY <1>1, <1>2, EmptyUnmarked, Zenon DEF Waiting, Holding, InFrames
<1>4. InReader(x) = 0
  <2>1. reader.crc_read = 0
    BY <1>1 DEF can_datagram_start, can_datagram_init
  <2>. QED
    BY <2>1, Zenon DEF InReader, Held
<1>5. 0 + 0 + 0 + 0 <= 0
  BY SMT
<1>. QED
  BY <1>1, <1>3, <1>4, <1>5, FS_EmptySet, Zenon DEF Balance

(* Whatever is lost, mixed, cut by a restart or come late, a board executes no
   command, and the client reads no answer, more often than it was sent.      *)
THEOREM ExecutedAtMostOnce == Spec => []AtMostOnce
<1>1. StreamInv /\ OnceInv => AtMostOnce
  <2>. SUFFICES ASSUME StreamInv, OnceInv, NEW x \in Content PROVE executed[x] <= sent[x]
    BY Zenon DEF AtMostOnce
  <2>1. executed[x] + Cardinality(Waiting(x)) + Cardinality(Holding(x)) + InReader(x) <= sent[x]
    BY Zenon DEF OnceInv, Balance
  <2>2. Cardinality(Waiting(x)) \in Nat /\ Cardinality(Holding(x)) \in Nat
    <3>1. Waiting(x) \subseteq Source /\ Holding(x) \subseteq Source
      BY Zenon DEF Waiting, Holding
    <3>. QED
      BY <3>1, Sizes, Zenon DEF Sized
  <2>3. InReader(x) \in Nat /\ executed[x] \in Nat /\ sent[x] \in Nat
    BY Zenon DEF InReader, StreamInv
  <2>. QED
    BY <2>1, <2>2, <2>3, SMT
<1>. QED
  BY <1>1, StreamInit, StreamStep, ReceiverInit, ReceiverStep, OnceInit, OnceStep, PTL DEF Spec

-----------------------------------------------------------------------------
(* What the client reads from a board, this board said: of a source, the frames
   to come and the bytes in its buffer have only marks of what it sent.        *)
OriginInv ==
  /\ receiver = "board" => yielded.is # "datagram"
  /\ \A s \in Source : queue[s] # <<>> => current[s] \in said[s]
  /\ \A s \in Source : \A x : Marked(buf[s], x) => x \in said[s]

NoNewReading == yielded'.is # "datagram"

LEMMA NothingYielded ==
  ASSUME NoYield
  PROVE  NoNewReading
<1>1. Nothing.is # "datagram"
  BY DEF Nothing
<1>. QED
  BY <1>1, Zenon DEF NoYield, Raised, NoNewReading

(* What a frame of a source, after the bytes that came before it, may yield. *)
LEMMA OriginOfBytes ==
  ASSUME StreamInv, ReceiverInv, OriginInv, NEW s \in Source, queue[s] # <<>>, NEW x,
         Marked(buf[s] \o Head(queue[s]).bytes, x)
  PROVE  x \in said[s]
<1>1. current[s] \in Content /\ Coming(current[s], s, queue[s]) /\ current[s] \in said[s]
  BY Zenon DEF StreamInv, OriginInv
<1>2. buf[s] \in Seq(Octet) /\ Head(queue[s]).bytes \in Seq(Octet)
  BY NextFrame, Zenon DEF ReceiverInv
<1>3. PICK k \in 1 .. Count(current[s]) + 1 : Rest(current[s], s, queue[s], k)
  BY <1>1, Zenon DEF Coming
<1>4. k \in 1 .. Count(current[s]) /\ Head(queue[s]) = FrameOf(current[s], s, k)
  BY <1>1, <1>3, ComingNext, Zenon
<1>5. CASE Marked(buf[s], x)
  BY <1>5, Zenon DEF OriginInv
<1>6. CASE Marked(Head(queue[s]).bytes, x)
  <2>1. x = current[s]
    BY <1>1, <1>4, <1>6, MarkOfFrame, Zenon
  <2>. QED
    BY <1>1, <2>1, Zenon
<1>. QED
  BY <1>2, <1>5, <1>6, ConcatMark, Zenon

LEMMA OriginOfHost ==
  ASSUME StreamInv, ReceiverInv, OriginInv, NEW s \in Source, queue[s] # <<>>, HostReceive(s, Head(queue[s]))
  PROVE  /\ yielded'.is = "datagram" => yielded'.content \in said[s]
         /\ \A t \in Source : \A x : Marked(buf'[t], x) => x \in said[t]
<1>. DEFINE bytes == buf[s] \o Head(queue[s]).bytes
            r == decode_datagram(bytes)
<1>1. buf \in [Source -> Seq(Octet)]
  BY Zenon DEF ReceiverInv
<1>2. bytes \in Seq(Octet)
  BY <1>1, NextFrame, ConcatAt, Zenon
<1>3. \A x : Marked(bytes, x) => x \in said[s]
  BY OriginOfBytes, Zenon
<1>4. yielded' = r /\ buf' = [buf EXCEPT ![s] = IF r.is = "None" THEN bytes ELSE <<>>]
  BY Zenon DEF HostReceive
<1>5. r.is = "datagram" => Marked(bytes, r.content)
  BY <1>2, DecodedMark, Zenon
<1>. HIDE DEF r, bytes
<1>6. yielded'.is = "datagram" => yielded'.content \in said[s]
  BY <1>3, <1>4, <1>5, Zenon
<1>7. ASSUME NEW t \in Source, NEW x, Marked(buf'[t], x) PROVE x \in said[t]
  <2>1. buf'[t] = IF t = s THEN (IF r.is = "None" THEN bytes ELSE <<>>) ELSE buf[t]
    BY <1>1, <1>4, Zenon
  <2>. QED
    BY <1>3, <1>7, <2>1, EmptyUnmarked, Zenon DEF OriginInv
<1>. QED
  BY <1>6, <1>7, Zenon

(* Only the client's reader yields, and only what was said. *)
ReadsWhatWasSent ==
  \A s \in Source : queue'[s] # queue[s] /\ yielded'.is = "datagram" => yielded'.content \in said[s]

LEMMA OriginStep == StreamInv /\ ReceiverInv /\ OriginInv /\ [Next]_vars => OriginInv' /\ (Next => ReadsWhatWasSent)
<1>. SUFFICES ASSUME StreamInv, ReceiverInv, OriginInv, [Next]_vars
              PROVE  OriginInv' /\ (Next => ReadsWhatWasSent)
  OBVIOUS
<1>1. CASE \E s \in Source : Send(s)
  <2>1. PICK s \in Source : Send(s)
    BY <1>1, Zenon
  <2>2. PICK c \in Content :
          current' = [current EXCEPT ![s] = c] /\ said' = [said EXCEPT ![s] = @ \cup {c}]
    BY <2>1, Zenon DEF Send
  <2>3. /\ buf' = buf /\ NoNewReading
        /\ \A t \in Source : t # s => queue'[t] = queue[t]
    BY <2>1, NothingYielded, Zenon DEF Send, StreamInv
  <2>4. \A t \in Source : /\ current'[t] = IF t = s THEN c ELSE current[t]
                          /\ said'[t] = IF t = s THEN said[t] \cup {c} ELSE said[t]
    BY <2>2, Zenon DEF StreamInv
  <2>5. \A t \in Source : queue'[t] # <<>> => current'[t] \in said'[t]
    BY <2>3, <2>4, Zenon DEF OriginInv
  <2>6. \A t \in Source : \A x : Marked(buf'[t], x) => x \in said'[t]
    BY <2>3, <2>4, Zenon DEF OriginInv
  <2>. QED
    BY <2>3, <2>5, <2>6, Zenon DEF OriginInv, NoNewReading, ReadsWhatWasSent
<1>2. CASE \E s \in Source : Lose(s)
  <2>1. PICK s \in Source : Lose(s)
    BY <1>2, Zenon
  <2>2. /\ queue[s] # <<>> /\ queue' = [queue EXCEPT ![s] = Tail(@)] /\ buf' = buf /\ current' = current /\ said' = said
        /\ NoNewReading
    BY <2>1, NothingYielded, Zenon DEF Lose
  <2>3. \A t \in Source : queue'[t] # <<>> => queue[t] # <<>>
    BY <2>2, Zenon DEF StreamInv
  <2>. QED
    BY <2>2, <2>3, Zenon DEF OriginInv, NoNewReading, ReadsWhatWasSent
<1>3. CASE \E s \in Source : Deliver(s)
  <2>1. PICK s \in Source : Deliver(s)
    BY <1>3, Zenon
  <2>2. /\ queue[s] # <<>> /\ queue' = [queue EXCEPT ![s] = Tail(@)]
        /\ current' = current /\ said' = said /\ receiver' = receiver
    BY <2>1, Zenon DEF Deliver
  <2>3. \A t \in Source : /\ queue'[t] # <<>> => queue[t] # <<>>
                          /\ t # s => queue'[t] = queue[t]
    BY <2>2, Zenon DEF StreamInv
  <2>4. \A t \in Source : queue'[t] # <<>> => current'[t] \in said'[t]
    BY <2>2, <2>3, Zenon DEF OriginInv
  <2>5. CASE receiver = "board" /\ UNCHANGED host
    <3>1. buf' = buf /\ yielded' = yielded
      BY <2>5, Zenon DEF host
    <3>. QED
      BY <2>2, <2>4, <2>5, <3>1, Zenon DEF OriginInv, ReadsWhatWasSent
  <2>6. CASE receiver = "client" /\ HostReceive(s, Head(queue[s]))
    <3>1. /\ yielded'.is = "datagram" => yielded'.content \in said[s]
          /\ \A t \in Source : \A x : Marked(buf'[t], x) => x \in said[t]
      BY <2>2, <2>6, OriginOfHost
    <3>2. receiver' # "board"
      <4>1. "client" # "board"
        OBVIOUS
      <4>. QED
        BY <2>2, <2>6, <4>1, Zenon
    <3>3. OriginInv'
      BY <2>2, <2>4, <3>1, <3>2, Zenon DEF OriginInv
    <3>4. ReadsWhatWasSent
      BY <2>3, <3>1, Zenon DEF ReadsWhatWasSent
    <3>. QED
      BY <3>3, <3>4, Zenon
  <2>. QED
    BY <2>1, <2>5, <2>6, Zenon DEF Deliver
<1>4. CASE Restart
  <2>1. queue' = queue /\ current' = current /\ said' = said /\ receiver' = receiver /\ buf' = buf /\ yielded' = yielded
    BY <1>4, Zenon DEF Restart, host
  <2>. QED
    BY <2>1, Zenon DEF OriginInv, ReadsWhatWasSent
<1>5. CASE NewReader
  <2>1. /\ queue' = queue /\ current' = current /\ said' = said
        /\ buf' = [s \in Source |-> <<>>] /\ yielded' = Nothing
    BY <1>5, Zenon DEF NewReader
  <2>2. yielded'.is # "datagram"
    BY <2>1 DEF Nothing
  <2>3. \A s \in Source : \A x : ~Marked(buf'[s], x)
    BY <2>1, EmptyUnmarked, Zenon
  <2>. QED
    BY <2>1, <2>2, <2>3, Zenon DEF OriginInv, ReadsWhatWasSent
<1>6. CASE UNCHANGED vars
  <2>1. queue' = queue /\ current' = current /\ said' = said /\ receiver' = receiver /\ buf' = buf /\ yielded' = yielded
    BY <1>6, Zenon DEF vars, board, host
  <2>. QED
    BY <2>1, Zenon DEF OriginInv, ReadsWhatWasSent
<1>. QED
  BY <1>1, <1>2, <1>3, <1>4, <1>5, <1>6, Zenon DEF Next

LEMMA OriginInit == Init => OriginInv
<1>. SUFFICES ASSUME Init PROVE OriginInv
  OBVIOUS
<1>1. Nothing.is # "datagram"
  BY DEF Nothing
<1>2. yielded = Nothing /\ \A s \in Source : queue[s] = <<>> /\ buf[s] = <<>>
  BY Zenon DEF Init
<1>. QED
  BY <1>1, <1>2, EmptyUnmarked, Zenon DEF OriginInv

(* Whatever frames of a board are lost, the client yields of it only answers
   that this board gave: never one patched together, nor one of another board. *)
THEOREM ReadWasSent == Spec => HostReadsWhatWasSent
<1>1. StreamInv /\ ReceiverInv /\ OriginInv /\ [Next]_vars =>
        [\A s \in Source : queue'[s] # queue[s] /\ yielded'.is = "datagram" => yielded'.content \in said[s]]_vars
  BY OriginStep, Zenon DEF ReadsWhatWasSent
<1>. QED
  BY <1>1, StreamInit, StreamStep, ReceiverInit, ReceiverStep, OriginInit, OriginStep, PTL DEF Spec, HostReadsWhatWasSent

-----------------------------------------------------------------------------
(* The length of the data, byte by byte: what is left of a number when its last
   k bytes are cut off.                                                        *)
Divided(x, d, q, r) == q \in Nat /\ r \in Nat /\ r < d /\ x = q * d + r

LEMMA Division ==
  ASSUME NEW d \in Nat \ {0}, NEW x \in Nat
  PROVE  Divided(x, d, x \div d, x % d)
<1>1. PICK q \in Nat : q = x \div d
  BY SMT
<1>2. PICK r \in Nat : r = x % d /\ r < d
  BY SMT
<1>3. x % d = x - (x \div d) * d
  BY SMT
<1>4. PICK m \in Nat : m = q * d
  BY Multiples, Zenon
<1>5. r = x - m
  BY <1>1, <1>2, <1>3, <1>4, Zenon
<1>6. x = m + r
  BY <1>5, SMT
<1>. QED
  BY <1>1, <1>2, <1>4, <1>6, Zenon DEF Divided

LEMMA Quotient ==
  ASSUME NEW d \in Nat \ {0}, NEW q \in Nat, NEW r \in Nat, r < d
  PROVE  (q * d + r) \div d = q
<1>1. PICK x \in Nat : x = q * d + r
  <2>1. q * d \in Nat
    BY Multiples, Zenon
  <2>2. q * d + r \in Nat
    BY <2>1, SMT
  <2>. QED
    BY <2>2, Zenon
<1>2. PICK p \in Nat : p = x \div d
  BY SMT
<1>3. PICK s \in Nat : s < d /\ x = p * d + s
  BY <1>2, Division, Zenon DEF Divided
<1>4. ASSUME NEW a \in Nat, NEW b \in Nat, NEW u \in Nat, NEW v \in Nat, u < d, v < d,
             a * d + u = b * d + v, a < b
      PROVE  FALSE
  <2>1. a + 1 \in Nat /\ a + 1 <= b /\ d \in Nat
    BY <1>4, SMT
  <2>2. (a + 1) * d <= b * d /\ (a + 1) * d = a * d + d /\ a * d \in Nat /\ b * d \in Nat
    BY <2>1, Multiples, Zenon
  <2>. QED
    BY <1>4, <2>2, SMT
<1>5. ~(p < q) /\ ~(q < p)
  BY <1>1, <1>3, <1>4, Zenon
<1>6. p = q
  BY <1>5, SMT
<1>. QED
  BY <1>1, <1>2, <1>6, Zenon

Value(n, k) == n \div Power[k]

AddDigit(n, k, b) ==
  /\ b \in Number8 /\ Value(n, k) \in Nat /\ Value(n, k - 1) \in Nat
  /\ Value(n, k) * BYTE + b = Value(n, k - 1)

LEMMA Digit ==
  ASSUME NEW n \in Nat, NEW k \in 1 .. LEN_LEN
  PROVE  AddDigit(n, k, Value(n, k - 1) % BYTE)
<1>1. k \in 0 .. LEN_LEN /\ k - 1 \in 0 .. LEN_LEN /\ BYTE \in Nat \ {0}
  BY Widths, SMT
<1>2. PICK a \in Nat \ {0} : a = Power[k - 1]
  BY <1>1, PowerUnfold, Zenon
<1>3. Power[k] = a * BYTE /\ Power[k] \in Nat \ {0}
  BY <1>1, <1>2, PowerUnfold, Zenon
<1>4. PICK x \in Nat : x = Value(n, k - 1) /\ x = n \div a
  <2>1. n \div a \in Nat
    BY SMT
  <2>. QED
    BY <1>2, <2>1, Zenon DEF Value
<1>5. PICK r \in Nat : r < a /\ n = x * a + r
  BY <1>4, Division, Zenon DEF Divided
<1>6. PICK y \in Nat : y = x \div BYTE
  BY <1>1, SMT
<1>7. PICK b \in Nat : b = x % BYTE /\ b < BYTE /\ x = y * BYTE + b
  BY <1>1, <1>6, Division, Zenon DEF Divided
<1>8. n = y * (a * BYTE) + (b * a + r)
  <2>1. x * a = y * (a * BYTE) + b * a
    BY <1>1, <1>7, SMT
  <2>2. y * (a * BYTE) \in Nat /\ b * a \in Nat
    BY <1>1, SMT
  <2>. QED
    BY <1>5, <2>1, <2>2, SMT
<1>9. b * a + r \in Nat /\ b * a + r < a * BYTE
  <2>1. b + 1 \in Nat /\ b + 1 <= BYTE
    BY <1>1, <1>7, SMT
  <2>2. (b + 1) * a <= BYTE * a /\ (b + 1) * a = b * a + a /\ b * a \in Nat /\ BYTE * a \in Nat
    BY <1>1, <2>1, Multiples, Zenon
  <2>3. BYTE * a = a * BYTE
    BY <1>1, SMT
  <2>. QED
    BY <1>5, <2>2, <2>3, SMT
<1>10. Value(n, k) = y
  <2>1. a * BYTE \in Nat \ {0}
    BY <1>3, Zenon
  <2>2. (y * (a * BYTE) + (b * a + r)) \div (a * BYTE) = y
    BY <1>9, <2>1, Quotient, Zenon
  <2>. QED
    BY <1>3, <1>8, <2>2, Zenon DEF Value
<1>11. b \in Number8
  BY <1>7, Widths, SMT DEF Number8
<1>. QED
  BY <1>4, <1>7, <1>10, <1>11, Zenon DEF AddDigit

LEMMA AllDigits ==
  ASSUME NEW n \in Nat, n < WORD
  PROVE  Value(n, LEN_LEN) = 0 /\ Value(n, 0) = n
<1>1. WORD \in Nat \ {0} /\ Power[LEN_LEN] = WORD /\ Power[0] = 1
  BY WordNumber, PowerUnfold, Zenon DEF WORD
<1>2. n \div 1 = n /\ 0 * WORD + n = n
  BY <1>1, SMT
<1>3. (0 * WORD + n) \div WORD = 0
  BY <1>1, Quotient
<1>. QED
  BY <1>1, <1>2, <1>3, Zenon DEF Value

LEMMA BigEndianDigits ==
  ASSUME NEW n \in Nat, NEW i \in 1 .. LEN_LEN
  PROVE  /\ LEN_LEN - i + 1 \in 1 .. LEN_LEN /\ (LEN_LEN - i + 1) - 1 = LEN_LEN - i
         /\ AddDigit(n, LEN_LEN - i + 1, BigEndian(n)[i])
<1>1. LEN_LEN - i + 1 \in 1 .. LEN_LEN /\ (LEN_LEN - i + 1) - 1 = LEN_LEN - i
  BY Widths, SMT
<1>2. BigEndian(n)[i] = Value(n, LEN_LEN - i) % BYTE
  BY Zenon DEF BigEndian, Value
<1>. QED
  BY <1>1, <1>2, Digit, Zenon

(* Each power divides the values of the length. *)
LEMMA PowerDivides ==
  ASSUME NEW j \in 0 .. LEN_LEN
  PROVE  \E m \in Nat : WORD = m * Power[j]
<1>. DEFINE T == {i \in 0 .. LEN_LEN : \E m \in Nat : WORD = m * Power[LEN_LEN - i]}
<1>1. 0 \in T
  <2>1. 0 \in 0 .. LEN_LEN /\ LEN_LEN - 0 = LEN_LEN /\ 1 \in Nat
    BY Widths, SMT
  <2>2. WORD = 1 * WORD
    BY WordNumber, SMT
  <2>3. WORD = 1 * Power[LEN_LEN - 0]
    BY <2>1, <2>2, Zenon DEF WORD
  <2>. QED
    BY <2>1, <2>3, Zenon
<1>2. ASSUME NEW i \in 0 .. LEN_LEN, i < LEN_LEN, i \in T PROVE i + 1 \in T
  <2>1. PICK m \in Nat : WORD = m * Power[LEN_LEN - i]
    BY <1>2, Zenon
  <2>2. LEN_LEN - i \in 1 .. LEN_LEN /\ (LEN_LEN - i) - 1 = LEN_LEN - (i + 1) /\ i + 1 \in 0 .. LEN_LEN
        /\ LEN_LEN - (i + 1) \in 0 .. LEN_LEN
    BY <1>2, Widths, SMT
  <2>3. PICK a \in Nat \ {0} : a = Power[LEN_LEN - (i + 1)]
    BY <2>2, PowerUnfold, Zenon
  <2>4. Power[LEN_LEN - i] = a * BYTE
    BY <2>2, <2>3, PowerUnfold, Zenon
  <2>5. m * BYTE \in Nat /\ m * (a * BYTE) = (m * BYTE) * a
    BY Widths, SMT
  <2>. QED
    BY <2>1, <2>2, <2>3, <2>4, <2>5, Zenon
<1>3. 0 .. LEN_LEN \subseteq T
  BY <1>1, <1>2, Widths, InductionTo, Zenon
<1>4. LEN_LEN - j \in 0 .. LEN_LEN /\ LEN_LEN - (LEN_LEN - j) = j
  BY Widths, SMT
<1>5. LEN_LEN - j \in T
  BY <1>3, <1>4, Zenon
<1>. QED
  BY <1>4, <1>5, Zenon

IsNumber(f, bytes) ==
  f = [i \in 0 .. Len(bytes) |-> IF i = 0 THEN 0 ELSE f[i - 1] * BYTE + bytes[i].n]

LEMMA NumberOfLength ==
  ASSUME NEW n \in Nat, n < WORD, NEW bytes, Len(bytes) = LEN_LEN,
         \A i \in 1 .. LEN_LEN : bytes[i].n = BigEndian(n)[i]
  PROVE  Number(bytes) = n
<1>. DEFINE h == [i \in 0 .. LEN_LEN |-> Value(n, LEN_LEN - i)]
<1>1. /\ LEN_LEN \in Nat /\ 0 \in 0 .. LEN_LEN /\ LEN_LEN \in 0 .. LEN_LEN
      /\ LEN_LEN - 0 = LEN_LEN /\ LEN_LEN - LEN_LEN = 0
      /\ \A i \in 0 .. LEN_LEN : i = 0 \/ i \in 1 .. LEN_LEN
      /\ \A i \in 1 .. LEN_LEN : i \in 0 .. LEN_LEN /\ i # 0 /\ i - 1 \in 0 .. LEN_LEN /\ LEN_LEN - (i - 1) = LEN_LEN - i + 1
  BY Widths, SMT
<1>2. h[0] = 0 /\ h[LEN_LEN] = n
  <2>1. h[0] = Value(n, LEN_LEN) /\ h[LEN_LEN] = Value(n, 0)
    BY <1>1, Zenon
  <2>2. Value(n, LEN_LEN) = 0 /\ Value(n, 0) = n
    BY AllDigits, Zenon
  <2>. QED
    BY <2>1, <2>2, Zenon
<1>3. ASSUME NEW i \in 1 .. LEN_LEN PROVE h[i] = h[i - 1] * BYTE + bytes[i].n
  <2>1. h[i] = Value(n, LEN_LEN - i) /\ h[i - 1] = Value(n, LEN_LEN - i + 1)
    BY <1>1, Zenon
  <2>2. (LEN_LEN - i + 1) - 1 = LEN_LEN - i /\ AddDigit(n, LEN_LEN - i + 1, BigEndian(n)[i])
    BY BigEndianDigits, Zenon
  <2>3. Value(n, LEN_LEN - i + 1) * BYTE + BigEndian(n)[i] = Value(n, LEN_LEN - i)
    BY <2>2, Zenon DEF AddDigit
  <2>. QED
    BY <2>1, <2>3, Zenon
<1>4. IsNumber(h, bytes)
  <2>1. \A i \in 0 .. LEN_LEN : h[i] = IF i = 0 THEN 0 ELSE h[i - 1] * BYTE + bytes[i].n
    BY <1>1, <1>2, <1>3, Zenon
  <2>. QED
    BY <2>1, Zenon DEF IsNumber
<1>. DEFINE f == CHOOSE g : IsNumber(g, bytes)
<1>5. IsNumber(f, bytes)
  BY <1>4, Zenon
<1>6. Number(bytes) = f[LEN_LEN]
  BY Zenon DEF Number, IsNumber
<1>. HIDE DEF h, f
<1>7. f[0] = h[0] /\ \A i \in 1 .. LEN_LEN : f[i] = f[i - 1] * BYTE + bytes[i].n
  <2>1. \A i \in 0 .. LEN_LEN : f[i] = IF i = 0 THEN 0 ELSE f[i - 1] * BYTE + bytes[i].n
    BY <1>5, Zenon DEF IsNumber
  <2>2. 0 \in 0 .. LEN_LEN /\ \A i \in 1 .. LEN_LEN : i \in 0 .. LEN_LEN /\ i # 0
    BY <1>1, Zenon
  <2>3. f[0] = h[0]
    BY <1>2, <2>1, <2>2, Zenon
  <2>4. ASSUME NEW i \in 1 .. LEN_LEN PROVE f[i] = f[i - 1] * BYTE + bytes[i].n
    BY <2>1, <2>2, Zenon
  <2>. QED
    BY <2>3, <2>4, Zenon
<1>8. ASSUME NEW i \in 1 .. LEN_LEN, f[i - 1] = h[i - 1] PROVE f[i] = h[i]
  BY <1>3, <1>7, <1>8, Zenon
<1>9. f[LEN_LEN] = h[LEN_LEN]
  <2>1. LEN_LEN \in Nat
    BY <1>1, Zenon
  <2>2. f[0] = h[0]
    BY <1>7, Zenon
  <2>. QED
    BY <1>8, <2>1, <2>2, SameSolution, Zenon
<1>. QED
  BY <1>2, <1>6, <1>9, Zenon

-----------------------------------------------------------------------------
(* What the client decodes of the first bytes of a datagram: nothing, until it
   has them all.                                                             *)
PartOf(t, s, a, b) ==
  /\ Len(t) = b - a + 1
  /\ \A i \in 1 .. b - a + 1 : t[i] = s[a + i - 1]

LEMMA Part ==
  ASSUME NEW S, NEW s \in Seq(S), NEW a \in Nat \ {0}, NEW b \in Nat, a <= b + 1, b <= Len(s)
  PROVE  SubSeq(s, a, b) \in Seq(S) /\ PartOf(SubSeq(s, a, b), s, a, b)
<1>1. Len(s) \in Nat
  BY LenProperties, Zenon
<1>2. \A i \in a .. b : i \in 1 .. Len(s)
  BY <1>1, SMT
<1>3. \A i \in a .. b : s[i] \in S
  BY <1>2, ElementOfSeq, Zenon
<1>4. a \in Int /\ b \in Int
  BY SMT
<1>5. SubSeq(s, a, b) \in Seq(S) /\ Len(SubSeq(s, a, b)) = (IF a <= b THEN b - a + 1 ELSE 0)
      /\ \A i \in 1 .. b - a + 1 : SubSeq(s, a, b)[i] = s[a + i - 1]
  BY <1>3, <1>4, SubSeqProperties
<1>6. (IF a <= b THEN b - a + 1 ELSE 0) = b - a + 1
  BY SMT
<1>. QED
  BY <1>5, <1>6, Zenon DEF PartOf

Prefix(c, p) == SubSeq(encode_datagram(c), 1, p)

PrefixIs(bytes, c, p) ==
  /\ bytes \in Seq(Octet) /\ Len(bytes) = p
  /\ \A i \in 1 .. p : bytes[i] = encode_datagram(c)[i]

LEMMA PrefixFields ==
  ASSUME NEW c \in Content, NEW p \in 0 .. Size(c)
  PROVE  PrefixIs(Prefix(c, p), c, p)
<1>1. encode_datagram(c) \in Seq(Octet) /\ Len(encode_datagram(c)) = Size(c)
  BY EncodeFields, Zenon
<1>2. Size(c) \in Nat
  BY ContentFields, Zenon
<1>3. /\ p \in Nat /\ 1 \in Nat \ {0} /\ 1 <= p + 1 /\ p <= Size(c) /\ p - 1 + 1 = p
      /\ \A i \in 1 .. p : 1 + i - 1 = i
  BY <1>2, SMT
<1>4. Prefix(c, p) \in Seq(Octet) /\ PartOf(Prefix(c, p), encode_datagram(c), 1, p)
  BY <1>1, <1>3, Part, Zenon DEF Prefix
<1>. QED
  BY <1>3, <1>4, Zenon DEF PartOf, PrefixIs

LEMMA NextPrefix ==
  ASSUME NEW c \in Content, NEW p \in 0 .. Size(c), NEW q \in p .. Size(c)
  PROVE  Prefix(c, p) \o SubSeq(encode_datagram(c), p + 1, q) = Prefix(c, q)
<1>. DEFINE E == encode_datagram(c)
            t == SubSeq(E, p + 1, q)
            r == Prefix(c, p) \o t
<1>1. E \in Seq(Octet) /\ Len(E) = Size(c)
  BY EncodeFields, Zenon
<1>2. Size(c) \in Nat
  BY ContentFields, Zenon
<1>. HIDE DEF E
<1>3. /\ p + 1 \in Nat \ {0} /\ q \in Nat /\ p + 1 <= q + 1 /\ q <= Size(c) /\ q \in 0 .. Size(c) /\ p \in Nat
      /\ p + (q - (p + 1) + 1) = q
      /\ \A i \in 1 .. q : i \in 1 .. p \/ (i - p \in 1 .. q - (p + 1) + 1 /\ p + (i - p) = i /\ (p + 1) + (i - p) - 1 = i)
  BY <1>2, SMT
<1>4. t \in Seq(Octet) /\ PartOf(t, E, p + 1, q)
  BY <1>1, <1>3, Part, Zenon
<1>5. PrefixIs(Prefix(c, p), c, p) /\ PrefixIs(Prefix(c, q), c, q)
  BY <1>3, PrefixFields, Zenon
<1>6. r \in Seq(Octet) /\ Joined(r, Prefix(c, p), t)
  BY <1>4, <1>5, ConcatAt, Zenon DEF PrefixIs
<1>. HIDE DEF r, t
<1>7. Len(r) = q
  BY <1>3, <1>4, <1>5, <1>6, Zenon DEF Joined, PrefixIs, PartOf
<1>8. ASSUME NEW i \in 1 .. q PROVE r[i] = E[i]
  <2>1. CASE i \in 1 .. p
    BY <1>5, <1>6, <2>1, Zenon DEF Joined, PrefixIs, E
  <2>2. CASE i \notin 1 .. p
    <3>1. i - p \in 1 .. q - (p + 1) + 1 /\ p + (i - p) = i /\ (p + 1) + (i - p) - 1 = i
      BY <1>3, <2>2, Zenon
    <3>2. t[i - p] = E[i]
      BY <1>4, <3>1, Zenon DEF PartOf
    <3>3. r[i] = t[i - p]
      BY <1>4, <1>5, <1>6, <3>1, Zenon DEF Joined, PrefixIs, PartOf
    <3>. QED
      BY <3>2, <3>3, Zenon
  <2>. QED
    BY <2>1, <2>2, Zenon
<1>9. \A i \in 1 .. Len(r) : r[i] = Prefix(c, q)[i]
  BY <1>5, <1>7, <1>8, Zenon DEF PrefixIs, E
<1>10. r = Prefix(c, q)
  BY <1>5, <1>6, <1>7, <1>9, SeqEqual, Zenon DEF PrefixIs
<1>. QED
  BY <1>10, Zenon DEF r, t, E

(* The number a reader makes of the length. *)
LEMMA NumbersAre ==
  ASSUME NEW s, NEW t, t \in Seq(Number8), Len(s) = Len(t), \A i \in 1 .. Len(t) : s[i] = Plain(t[i])
  PROVE  Numbers(s) = t
<1>1. \A i \in 1 .. Len(t) : s[i].n = t[i]
  <2>1. \A n : Plain(n).n = n
    BY DEF Plain
  <2>. QED
    BY <2>1, Zenon
<1>2. Numbers(s) = [i \in 1 .. Len(t) |-> t[i]]
  BY <1>1, Zenon DEF Numbers
<1>. QED
  BY <1>2

(* The fields as the client finds them. *)
LEMMA PrefixFront ==
  ASSUME NEW c \in Content, NEW bytes, NEW p \in 1 .. Size(c), PrefixIs(bytes, c, p)
  PROVE  /\ bytes[1].n = CAN_DATAGRAM_VERSION
         /\ p >= HeaderSize => /\ bytes[HeaderSize].n = Len(c.dst)
                               /\ \A i \in 1 .. CRC_LEN : bytes[i + 1].of = <<c, i>>
<1>1. HeaderSize \in Nat /\ Size(c) \in Nat
  BY ContentFields, Zenon
<1>2. 1 \in 1 .. p
  BY <1>1, SMT
<1>3. \A n : Plain(n).n = n
  BY DEF Plain
<1>4. bytes[1].n = CAN_DATAGRAM_VERSION
  BY <1>2, <1>3, EncodeFields, Zenon DEF PrefixIs
<1>5. ASSUME p >= HeaderSize
      PROVE  bytes[HeaderSize].n = Len(c.dst) /\ \A i \in 1 .. CRC_LEN : bytes[i + 1].of = <<c, i>>
  <2>1. HeaderSize \in 1 .. p /\ \A i \in 1 .. CRC_LEN : i + 1 \in 1 .. p /\ i + 1 = 1 + i
    BY <1>1, <1>5, Widths, SMT DEF HeaderSize
  <2>2. bytes[HeaderSize].n = Len(c.dst)
    BY <1>3, <2>1, EncodeFields, Zenon DEF PrefixIs
  <2>3. ASSUME NEW i \in 1 .. CRC_LEN PROVE bytes[i + 1].of = <<c, i>>
    <3>1. bytes[i + 1] = Crc(c)[i]
      BY <2>1, EncodeFields, Zenon DEF PrefixIs
    <3>2. Crc(c)[i] = [n |-> CrcValue[c][i], of |-> <<c, i>>]
      BY CrcFields, Zenon
    <3>3. [n |-> CrcValue[c][i], of |-> <<c, i>>].of = <<c, i>>
      OBVIOUS
    <3>. QED
      BY <3>1, <3>2, <3>3, Zenon
  <2>. QED
    BY <2>2, <2>3, Zenon
<1>. QED
  BY <1>4, <1>5, Zenon

(* Where the data begins, less one. *)
DataAt(c) == HeaderSize + Len(c.dst) + LEN_LEN

LEMMA PrefixLength ==
  ASSUME NEW c \in Content, NEW bytes, NEW p \in 1 .. Size(c), PrefixIs(bytes, c, p), p >= DataAt(c)
  PROVE  /\ Number(Slice(bytes, HeaderSize + Len(c.dst) + 1, LEN_LEN)) = Len(c.data)
         /\ Len(Numbers(SubSeq(bytes, DataAt(c) + 1, Len(bytes)))) = p - DataAt(c)
<1>. DEFINE d == Len(c.dst)
            l == Len(c.data)
            a == HeaderSize + d + 1
            t == Slice(bytes, a, LEN_LEN)
            u == SubSeq(bytes, DataAt(c) + 1, p)
<1>1. d \in Nat /\ l \in Nat /\ l < WORD /\ HeaderSize \in Nat /\ Size(c) \in Nat
  BY ContentFields, Zenon
<1>2. DataAt(c) = HeaderSize + d + LEN_LEN /\ bytes \in Seq(Octet) /\ Len(bytes) = p
  BY Zenon DEF DataAt, PrefixIs
<1>. HIDE DEF d, l
<1>3. /\ a \in Nat \ {0} /\ DataAt(c) \in Nat /\ a <= DataAt(c) + 1 /\ DataAt(c) <= p /\ p \in Nat
      /\ a + LEN_LEN - 1 = DataAt(c) /\ DataAt(c) - a + 1 = LEN_LEN
      /\ \A i \in 1 .. LEN_LEN : a + i - 1 = HeaderSize + d + i /\ HeaderSize + d + i \in 1 .. p
      /\ DataAt(c) + 1 \in Nat \ {0} /\ DataAt(c) + 1 <= p + 1 /\ p <= p
      /\ p - (DataAt(c) + 1) + 1 = p - DataAt(c)
      /\ p - DataAt(c) \in Nat
  BY <1>1, <1>2, Widths, SMT
<1>4. t = SubSeq(bytes, a, DataAt(c))
  <2>1. \A m, q \in Nat : m <= q => (IF m < q THEN m ELSE q) = m
    BY SMT
  <2>2. (IF DataAt(c) < p THEN DataAt(c) ELSE p) = DataAt(c)
    BY <1>3, <2>1, Zenon
  <2>. QED
    BY <1>2, <1>3, <2>2, Zenon DEF Slice
<1>5. PartOf(SubSeq(bytes, a, DataAt(c)), bytes, a, DataAt(c)) /\ u \in Seq(Octet) /\ PartOf(u, bytes, DataAt(c) + 1, p)
  BY <1>2, <1>3, Part, Zenon
<1>. HIDE DEF t, a, u
<1>6. Len(t) = LEN_LEN /\ Len(u) = p - DataAt(c)
  BY <1>3, <1>4, <1>5, Zenon DEF PartOf
<1>7. ASSUME NEW i \in 1 .. LEN_LEN PROVE t[i].n = BigEndian(l)[i]
  <2>1. t[i] = bytes[HeaderSize + d + i]
    BY <1>3, <1>4, <1>5, Zenon DEF PartOf
  <2>2. bytes[HeaderSize + d + i] = encode_datagram(c)[HeaderSize + d + i]
    BY <1>3, Zenon DEF PrefixIs
  <2>3. encode_datagram(c)[HeaderSize + d + i] = Plain(BigEndian(l)[i])
    BY EncodeFields, Zenon DEF d, l
  <2>4. \A n : Plain(n).n = n
    BY DEF Plain
  <2>. QED
    BY <2>1, <2>2, <2>3, <2>4, Zenon
<1>8. Number(t) = l
  BY <1>1, <1>6, <1>7, NumberOfLength, Zenon
<1>9. Len(Numbers(u)) = p - DataAt(c)
  <2>1. Numbers(u) = [i \in 1 .. Len(u) |-> u[i].n] /\ Len(u) \in Nat
    BY <1>3, <1>6, Zenon DEF Numbers
  <2>2. Len(Numbers(u)) = Len(u)
    BY <2>1
  <2>. QED
    BY <1>6, <2>2, Zenon
<1>. QED
  BY <1>2, <1>8, <1>9, Zenon DEF t, a, u, d, l

LEMMA WholeContent ==
  ASSUME NEW c \in Content, NEW bytes, PrefixIs(bytes, c, Size(c))
  PROVE  /\ Numbers(Slice(bytes, HeaderSize + 1, Len(c.dst))) = c.dst
         /\ Numbers(SubSeq(bytes, DataAt(c) + 1, Len(bytes))) = c.data
<1>. DEFINE d == Len(c.dst)
            l == Len(c.data)
            n == Size(c)
            a == HeaderSize + 1
            b == HeaderSize + d
            t == Slice(bytes, a, d)
            u == SubSeq(bytes, DataAt(c) + 1, n)
<1>1. d \in Nat /\ l \in Nat /\ HeaderSize \in Nat /\ n \in Nat /\ c.dst \in Seq(Number8) /\ c.data \in Seq(Number8)
  BY ContentFields, Zenon
<1>2. /\ DataAt(c) = HeaderSize + d + LEN_LEN /\ n = HeaderSize + d + LEN_LEN + l
      /\ bytes \in Seq(Octet) /\ Len(bytes) = n
  BY Zenon DEF DataAt, PrefixIs, Size
<1>. HIDE DEF d, l, n
<1>3. /\ a \in Nat \ {0} /\ b \in Nat /\ n \in Nat /\ a <= b + 1
      /\ b <= n /\ b < n /\ a + d - 1 = b /\ b - a + 1 = d
      /\ \A i \in 1 .. d : a + i - 1 = HeaderSize + i /\ HeaderSize + i \in 1 .. n
      /\ DataAt(c) + 1 \in Nat \ {0} /\ DataAt(c) + 1 <= n + 1 /\ n <= n
      /\ n - (DataAt(c) + 1) + 1 = l
      /\ \A i \in 1 .. l : DataAt(c) + 1 + i - 1 = HeaderSize + d + LEN_LEN + i /\ HeaderSize + d + LEN_LEN + i \in 1 .. n
  BY <1>1, <1>2, Widths, SMT
<1>. HIDE DEF a, b
<1>4. t = SubSeq(bytes, a, b)
  BY <1>2, <1>3, Zenon DEF Slice
<1>5. /\ PartOf(SubSeq(bytes, a, b), bytes, a, b)
      /\ PartOf(u, bytes, DataAt(c) + 1, n)
  BY <1>2, <1>3, Part, Zenon
<1>. HIDE DEF t, u
<1>6. Len(t) = d /\ \A i \in 1 .. d : t[i] = Plain(c.dst[i])
  <2>1. \A i \in 1 .. d : t[i] = bytes[HeaderSize + i]
    BY <1>3, <1>4, <1>5, Zenon DEF PartOf
  <2>2. \A i \in 1 .. d : bytes[HeaderSize + i] = encode_datagram(c)[HeaderSize + i]
    BY <1>3, Zenon DEF PrefixIs, n
  <2>3. \A i \in 1 .. d : encode_datagram(c)[HeaderSize + i] = Plain(c.dst[i])
    BY EncodeFields, Zenon DEF d
  <2>. QED
    BY <1>3, <1>4, <1>5, <2>1, <2>2, <2>3, Zenon DEF PartOf
<1>7. Len(u) = l /\ \A i \in 1 .. l : u[i] = Plain(c.data[i])
  <2>1. \A i \in 1 .. l : u[i] = bytes[HeaderSize + d + LEN_LEN + i]
    BY <1>3, <1>5, Zenon DEF PartOf
  <2>2. \A i \in 1 .. l : bytes[HeaderSize + d + LEN_LEN + i] = encode_datagram(c)[HeaderSize + d + LEN_LEN + i]
    BY <1>3, Zenon DEF PrefixIs, n
  <2>3. \A i \in 1 .. l : encode_datagram(c)[HeaderSize + d + LEN_LEN + i] = Plain(c.data[i])
    BY EncodeFields, Zenon DEF d, l
  <2>. QED
    BY <1>3, <1>5, <2>1, <2>2, <2>3, Zenon DEF PartOf
<1>8. Numbers(t) = c.dst
  BY <1>1, <1>6, NumbersAre, Zenon DEF d
<1>9. Numbers(u) = c.data
  BY <1>1, <1>7, NumbersAre, Zenon DEF l
<1>. QED
  BY <1>2, <1>8, <1>9, Zenon DEF t, u, a, d, n

LEMMA DecodePrefix ==
  ASSUME NEW c \in Content, NEW bytes, NEW p \in 1 .. Size(c), PrefixIs(bytes, c, p)
  PROVE  decode_datagram(bytes) = IF p = Size(c) THEN Whole(c) ELSE Nothing
<1>. DEFINE HEADER == CRC_LEN + 2
            dst_len == bytes[HEADER].n
            x == [dst  |-> Numbers(Slice(bytes, HEADER + 1, dst_len)),
                  data |-> Numbers(SubSeq(bytes, HEADER + dst_len + LEN_LEN + 1, Len(bytes)))]
            version == bytes[1].n = CAN_DATAGRAM_VERSION
            short == Len(bytes) < HEADER
            headless == Len(bytes) < HEADER + dst_len + LEN_LEN
            other == Number(Slice(bytes, HEADER + dst_len + 1, LEN_LEN)) # Len(x.data)
            wrong == \E i \in 1 .. CRC_LEN : bytes[i + 1].of # <<x, i>>
            r == decode_datagram(bytes)
            h == HeaderSize
            d == Len(c.dst)
            l == Len(c.data)
            k == DataAt(c)
            n == Size(c)
<1>1. r = IF ~version THEN Raises("VersionMismatchError")
          ELSE IF short \/ headless \/ other THEN Nothing
          ELSE IF wrong THEN Raises("CRCMismatchError")
          ELSE Whole(x)
  BY Zenon DEF decode_datagram
<1>2. version
  BY PrefixFront, Zenon
<1>3. /\ HEADER = h /\ Len(bytes) = p
      /\ d \in Nat /\ l \in Nat /\ h \in Nat /\ n \in Nat
      /\ n = h + d + LEN_LEN + l /\ k = h + d + LEN_LEN
  BY ContentFields, Zenon DEF PrefixIs, HeaderSize, Size, DataAt
<1>. HIDE DEF version, wrong, r, h, d, l, k, n
<1>4. /\ p \in Nat /\ k \in Nat /\ n = k + l /\ h < k /\ h < n /\ k <= n
      /\ ~(p < h) => p >= h
      /\ ~(p < k) => p >= k
  BY <1>3, Widths, SMT
<1>5. CASE p < h
  <2>1. short
    BY <1>3, <1>5, Zenon
  <2>2. p # n
    BY <1>3, <1>4, <1>5, SMT
  <2>. QED
    BY <1>1, <1>2, <2>1, <2>2, Zenon DEF r, n
<1>6. CASE p >= h /\ p < k
  <2>1. dst_len = d
    BY <1>3, <1>6, PrefixFront, Zenon DEF h, d
  <2>2. headless
    BY <1>3, <1>6, <2>1, Zenon
  <2>3. p # n
    BY <1>3, <1>4, <1>6, SMT
  <2>. QED
    BY <1>1, <1>2, <2>2, <2>3, Zenon DEF r, n
<1>7. CASE p >= k
  <2>1. p >= h /\ ~(p < h) /\ ~(p < k)
    BY <1>3, <1>4, <1>7, SMT
  <2>2. dst_len = d /\ \A i \in 1 .. CRC_LEN : bytes[i + 1].of = <<c, i>>
    BY <1>3, <2>1, PrefixFront, Zenon DEF h, d
  <2>3. ~short /\ ~headless
    BY <1>3, <2>1, <2>2, Zenon
  <2>4. x.data = Numbers(SubSeq(bytes, k + 1, Len(bytes)))
    BY <1>3, <2>2, Zenon
  <2>5. other <=> l # p - k
    <3>1. /\ Number(Slice(bytes, h + d + 1, LEN_LEN)) = l
          /\ Len(Numbers(SubSeq(bytes, k + 1, Len(bytes)))) = p - k
      BY <1>7, PrefixLength, Zenon DEF h, d, l, k
    <3>. QED
      BY <1>3, <2>2, <2>4, <3>1, Zenon
  <2>6. l # p - k <=> p # n
    BY <1>3, <1>4, <1>7, SMT
  <2>7. CASE p # n
    BY <1>1, <1>2, <2>5, <2>6, <2>7, Zenon DEF r, n
  <2>8. CASE p = n
    <3>1. /\ Numbers(Slice(bytes, h + 1, d)) = c.dst
          /\ Numbers(SubSeq(bytes, k + 1, Len(bytes))) = c.data
      BY <2>8, WholeContent, Zenon DEF h, d, k, n
    <3>2. x = [dst |-> c.dst, data |-> c.data]
      BY <1>3, <2>2, <3>1, Zenon
    <3>3. x = c
      BY <3>2, ContentFields, Zenon
    <3>. HIDE DEF x
    <3>4. ~wrong
      BY <2>2, <3>3, Zenon DEF wrong
    <3>. QED
      BY <1>1, <1>2, <2>3, <2>5, <2>6, <2>8, <3>3, <3>4, Zenon DEF r, n
  <2>. QED
    BY <2>7, <2>8, Zenon
<1>8. p < h \/ (p >= h /\ p < k) \/ p >= k
  BY <1>4, Zenon
<1>. QED
  BY <1>5, <1>6, <1>7, <1>8, Zenon

-----------------------------------------------------------------------------
(* The buffer of a source that was heard from the first frame on holds all
   that came of its datagram.                                               *)
HasRead(c, s, q, b, k) == k >= 2 /\ Rest(c, s, q, k) /\ b = Prefix(c, Cut(c, k - 1))

FreshAt(s) == fresh[s] /\ queue[s] # <<>> => \E k : HasRead(current[s], s, queue[s], buf[s], k)

FreshInv ==
  /\ receiver = "board" => \A s \in Source : ~fresh[s]
  /\ \A s \in Source : FreshAt(s)

LEMMA FrameJoins ==
  ASSUME NEW c \in Content, NEW s \in Source, NEW k \in 1 .. Count(c)
  PROVE  /\ Prefix(c, Cut(c, k - 1)) \o FrameOf(c, s, k).bytes = Prefix(c, Cut(c, k))
         /\ Cut(c, k) \in 1 .. Size(c)
<1>1. k - 1 \in Nat /\ k \in Nat
  BY CutFacts, SMT
<1>2. /\ Cut(c, k - 1) = (k - 1) * FRAME /\ Cut(c, k - 1) < Cut(c, k)
      /\ Cut(c, k - 1) \in 0 .. Size(c) /\ Cut(c, k) \in 0 .. Size(c) /\ Size(c) \in Nat
  BY <1>1, CutFacts, Zenon
<1>3. Cut(c, k) \in Cut(c, k - 1) .. Size(c) /\ Cut(c, k) \in 1 .. Size(c)
  <2>1. \A a, b, n : n \in Nat /\ a \in 0 .. n /\ b \in 0 .. n /\ a < b => b \in a .. n /\ b \in 1 .. n
    BY SMT
  <2>. QED
    BY <1>2, <2>1, Zenon
<1>4. FrameOf(c, s, k).bytes = SubSeq(encode_datagram(c), Cut(c, k - 1) + 1, Cut(c, k))
  <2>1. FrameOf(c, s, k).bytes = SubSeq(encode_datagram(c), (k - 1) * FRAME + 1, Cut(c, k))
    BY DEF FrameOf
  <2>. QED
    BY <1>2, <2>1, Zenon
<1>5. Prefix(c, Cut(c, k - 1)) \o SubSeq(encode_datagram(c), Cut(c, k - 1) + 1, Cut(c, k)) = Prefix(c, Cut(c, k))
  BY <1>2, <1>3, NextPrefix, Zenon
<1>. QED
  BY <1>3, <1>4, <1>5, Zenon

(* The frames that are left end when the datagram is whole. *)
LEMMA RestEnds ==
  ASSUME NEW c \in Content, NEW s \in Source, NEW k \in 1 .. Count(c), NEW q, Rest(c, s, q, k + 1)
  PROVE  q = <<>> <=> Cut(c, k) = Size(c)
<1>1. Count(c) \in Nat /\ Size(c) \in Nat /\ q = SubSeq(Frames(c, s), k + 1, Count(c))
  BY CutFacts, Zenon DEF Rest
<1>2. CASE k = Count(c)
  <2>1. k + 1 \in Int /\ Count(c) \in Int /\ Count(c) < k + 1 /\ k \in Nat /\ k >= Count(c)
    BY <1>1, <1>2, SMT
  <2>2. q = <<>>
    BY <1>1, <2>1, SubSeqEmpty, Zenon
  <2>3. Cut(c, k) = Size(c)
    BY <2>1, CutFacts, Zenon
  <2>. QED
    BY <2>2, <2>3, Zenon
<1>3. CASE k # Count(c)
  <2>1. k + 1 \in 1 .. Count(c) /\ (k + 1) - 1 = k /\ k + 1 \in Nat \ {0} /\ k + 1 <= Count(c) + 1
        /\ Count(c) - (k + 1) + 1 # 0
    BY <1>1, <1>3, SMT
  <2>2. Cut(c, k) < Cut(c, k + 1) /\ Cut(c, k + 1) \in 0 .. Size(c) /\ Cut(c, k) \in 0 .. Size(c)
    <3>1. k \in Nat /\ k + 1 \in Nat
      BY <1>1, SMT
    <3>. QED
      BY <2>1, <3>1, CutFacts, Zenon
  <2>3. Cut(c, k) # Size(c)
    <3>1. \A a, b, n : n \in Nat /\ a \in 0 .. n /\ b \in 0 .. n /\ a < b => a # n
      BY SMT
    <3>. QED
      BY <1>1, <2>2, <3>1, Zenon
  <2>4. Frames(c, s) \in Seq(Frame) /\ Len(Frames(c, s)) = Count(c) /\ Count(c) <= Count(c)
    <3>1. Count(c) <= Count(c)
      BY <1>1, SMT
    <3>. QED
      BY <3>1, FramesFields, Zenon DEF FramesAre
  <2>5. Len(q) # 0
    <3>1. PartOf(q, Frames(c, s), k + 1, Count(c))
      BY <1>1, <2>1, <2>4, Part, Zenon
    <3>. QED
      BY <2>1, <3>1, Zenon DEF PartOf
  <2>6. q # <<>>
    BY <2>5, EmptySeq, Zenon
  <2>. QED
    BY <2>3, <2>6, Zenon
<1>. QED
  BY <1>2, <1>3, Zenon

(* What the buffer holds with the next frame. *)
GetsTo(s, k) ==
  /\ k \in 1 .. Count(current[s])
  /\ Rest(current[s], s, Tail(queue[s]), k + 1)
  /\ buf[s] \o Head(queue[s]).bytes = Prefix(current[s], Cut(current[s], k))

LEMMA FreshBytes ==
  ASSUME StreamInv, FreshInv, NEW s \in Source, queue[s] # <<>>,
         fresh[s] \/ (Head(queue[s]).start /\ buf[s] = <<>>)
  PROVE  \E k : GetsTo(s, k)
<1>. DEFINE c == current[s]
<1>1. c \in Content /\ Coming(c, s, queue[s])
  BY Zenon DEF StreamInv
<1>. HIDE DEF c
<1>2. SUFFICES \E k : Rest(c, s, queue[s], k) /\ buf[s] = Prefix(c, Cut(c, k - 1))
  <2>1. PICK k : Rest(c, s, queue[s], k) /\ buf[s] = Prefix(c, Cut(c, k - 1))
    BY <1>2, Zenon
  <2>2. k \in 1 .. Count(c) /\ Head(queue[s]) = FrameOf(c, s, k) /\ Rest(c, s, Tail(queue[s]), k + 1)
    BY <1>1, <2>1, ComingNext, Zenon
  <2>3. buf[s] \o Head(queue[s]).bytes = Prefix(c, Cut(c, k))
    BY <1>1, <2>1, <2>2, FrameJoins, Zenon
  <2>4. GetsTo(s, k)
    BY <2>2, <2>3, Zenon DEF GetsTo, c
  <2>. QED
    BY <2>4, Zenon
<1>3. CASE fresh[s]
  BY <1>3, Zenon DEF FreshInv, FreshAt, HasRead, c
<1>4. CASE Head(queue[s]).start /\ buf[s] = <<>>
  <2>1. PICK k : Rest(c, s, queue[s], k)
    BY <1>1, Zenon DEF Coming
  <2>2. Head(queue[s]) = FrameOf(c, s, k)
    BY <1>1, <2>1, ComingNext, Zenon
  <2>3. FrameOf(c, s, k).start <=> k = 1
    BY DEF FrameOf
  <2>4. k = 1
    BY <1>4, <2>2, <2>3, Zenon
  <2>5. Cut(c, 1 - 1) = 0
    <3>1. 1 \in 1 .. Count(c) /\ 1 - 1 = 0 /\ 0 \in Nat
      BY <1>1, CutFacts, SMT
    <3>2. Cut(c, 1 - 1) = (1 - 1) * FRAME
      BY <1>1, <3>1, CutFacts, Zenon
    <3>3. 0 * FRAME = 0
      BY <3>1, Widths, Multiples, Zenon
    <3>. QED
      BY <3>1, <3>2, <3>3, Zenon
  <2>6. Prefix(c, 0) = <<>>
    <3>1. 1 \in Int /\ 0 \in Int /\ 0 < 1
      BY SMT
    <3>. QED
      BY <3>1, SubSeqEmpty, Zenon DEF Prefix
  <2>. QED
    BY <1>4, <2>1, <2>4, <2>5, <2>6, Zenon
<1>. QED
  BY <1>3, <1>4, Zenon

DeliversWhole ==
  \A s \in Source \ Client :
    Len(queue[s]) = 1 /\ queue'[s] = <<>> /\ fresh'[s] => yielded' = Whole(current[s])

(* A frame that reaches the client. *)
LEMMA FreshOfHost ==
  ASSUME StreamInv, ReceiverInv, FreshInv, NEW s \in Source, queue[s] # <<>>,
         queue' = [queue EXCEPT ![s] = Tail(@)], current' = current, HostReceive(s, Head(queue[s]))
  PROVE  /\ \A t \in Source : FreshAt(t)'
         /\ DeliversWhole
<1>. DEFINE c == current[s]
            bytes == buf[s] \o Head(queue[s]).bytes
            r == decode_datagram(bytes)
<1>1. c \in Content /\ queue \in [Source -> Seq(Frame)] /\ fresh \in [Source -> BOOLEAN]
  BY Zenon DEF StreamInv
<1>2. /\ yielded' = r
      /\ buf' = [buf EXCEPT ![s] = IF r.is = "None" THEN bytes ELSE <<>>]
      /\ fresh' = [fresh EXCEPT ![s] = @ \/ (Head(queue[s]).start /\ buf[s] = <<>>)]
  BY Zenon DEF HostReceive
<1>. HIDE DEF bytes, r, c
<1>3. ASSUME fresh'[s]
      PROVE  /\ queue'[s] = <<>> => yielded' = Whole(c)
             /\ queue'[s] # <<>> => \E k : HasRead(c, s, queue'[s], buf'[s], k)
  <2>1. fresh[s] \/ (Head(queue[s]).start /\ buf[s] = <<>>)
    BY <1>1, <1>2, <1>3, Zenon
  <2>2. PICK k : GetsTo(s, k)
    BY <2>1, FreshBytes, Zenon
  <2>3. k \in 1 .. Count(c) /\ Rest(c, s, queue'[s], k + 1) /\ bytes = Prefix(c, Cut(c, k))
    BY <1>1, <2>2, Zenon DEF GetsTo, c, bytes
  <2>4. Cut(c, k) \in 1 .. Size(c)
    BY <1>1, <2>3, FrameJoins, Zenon
  <2>5. PrefixIs(bytes, c, Cut(c, k))
    <3>1. Size(c) \in Nat
      BY <1>1, ContentFields, Zenon
    <3>2. Cut(c, k) \in 0 .. Size(c)
      BY <2>4, <3>1, SMT
    <3>. QED
      BY <1>1, <2>3, <3>2, PrefixFields, Zenon
  <2>6. r = IF Cut(c, k) = Size(c) THEN Whole(c) ELSE Nothing
    BY <1>1, <2>4, <2>5, DecodePrefix, Zenon DEF r
  <2>7. queue'[s] = <<>> <=> Cut(c, k) = Size(c)
    BY <1>1, <2>3, RestEnds, Zenon
  <2>8. ASSUME queue'[s] # <<>> PROVE HasRead(c, s, queue'[s], buf'[s], k + 1)
    <3>1. r = Nothing
      BY <2>6, <2>7, <2>8, Zenon
    <3>2. buf'[s] = bytes
      <4>1. Nothing.is = "None"
        BY DEF Nothing
      <4>. QED
        BY <1>2, <3>1, <4>1, Zenon DEF ReceiverInv
    <3>3. k + 1 >= 2 /\ (k + 1) - 1 = k
      <4>1. Count(c) \in Nat
        BY <1>1, CutFacts, Zenon
      <4>. QED
        BY <2>3, <4>1, SMT
    <3>. QED
      BY <2>3, <3>2, <3>3, Zenon DEF HasRead
  <2>. QED
    BY <1>2, <2>6, <2>7, <2>8, Zenon
<1>4. ASSUME NEW t \in Source, t # s
      PROVE  queue'[t] = queue[t] /\ buf'[t] = buf[t] /\ fresh'[t] = fresh[t]
  BY <1>1, <1>2, <1>4, Zenon DEF ReceiverInv
<1>5. ASSUME NEW t \in Source PROVE FreshAt(t)'
  <2>1. CASE t = s
    BY <1>3, <2>1, Zenon DEF FreshAt, c
  <2>2. CASE t # s
    <3>1. FreshAt(t)
      BY Zenon DEF FreshInv
    <3>. QED
      BY <1>4, <2>2, <3>1, Zenon DEF FreshAt
  <2>. QED
    BY <2>1, <2>2, Zenon
<1>6. DeliversWhole
  <2>1. ASSUME NEW t \in Source, Len(queue[t]) = 1, queue'[t] = <<>> PROVE t = s
    <3>1. queue[t] # <<>>
      <4>1. Len(<<>>) # 1
        OBVIOUS
      <4>. QED
        BY <2>1, <4>1, Zenon
    <3>. QED
      BY <1>4, <2>1, <3>1, Zenon
  <2>. QED
    BY <1>3, <2>1, Zenon DEF DeliversWhole, c
<1>. QED
  BY <1>5, <1>6, Zenon

LEMMA FreshInit == Init => FreshInv
<1>. SUFFICES ASSUME Init PROVE FreshInv
  OBVIOUS
<1>1. \A s \in Source : ~fresh[s]
  BY Zenon DEF Init
<1>. QED
  BY <1>1, Zenon DEF FreshInv, FreshAt

LEMMA FreshStep ==
  StreamInv /\ ReceiverInv /\ FreshInv /\ [Next]_vars => FreshInv' /\ (Next => DeliversWhole)
<1>. SUFFICES ASSUME StreamInv, ReceiverInv, FreshInv, [Next]_vars
              PROVE  FreshInv' /\ (Next => DeliversWhole)
  OBVIOUS
<1>1. \A s \in Source : Len(queue[s]) = 1 => queue[s] # <<>>
  <2>1. Len(<<>>) # 1
    OBVIOUS
  <2>. QED
    BY <2>1, Zenon
<1>2. CASE \E s \in Source : Send(s)
  <2>1. PICK s \in Source : Send(s)
    BY <1>2, Zenon
  <2>2. PICK f : queue' = [queue EXCEPT ![s] = f]
    BY <2>1, Zenon DEF Send
  <2>3. PICK c \in Content : current' = [current EXCEPT ![s] = c]
    BY <2>1, Zenon DEF Send
  <2>4. queue[s] = <<>> /\ fresh' = [fresh EXCEPT ![s] = FALSE] /\ buf' = buf /\ receiver' = receiver
    BY <2>1, Zenon DEF Send
  <2>5. ASSUME NEW t \in Source, t # s PROVE queue'[t] = queue[t] /\ current'[t] = current[t] /\ fresh'[t] = fresh[t]
    BY <2>2, <2>3, <2>4, <2>5, Zenon DEF StreamInv
  <2>6. ~fresh'[s]
    BY <2>4, Zenon DEF StreamInv
  <2>7. ASSUME NEW t \in Source PROVE FreshAt(t)' /\ (fresh'[t] => fresh[t])
    BY <2>4, <2>5, <2>6, Zenon DEF FreshInv, FreshAt
  <2>8. DeliversWhole
    BY <1>1, <2>5, <2>6, Zenon DEF DeliversWhole
  <2>. QED
    BY <2>4, <2>7, <2>8, Zenon DEF FreshInv
<1>3. CASE \E s \in Source : Lose(s)
  <2>1. PICK s \in Source : Lose(s)
    BY <1>3, Zenon
  <2>2. /\ queue' = [queue EXCEPT ![s] = Tail(@)] /\ fresh' = [fresh EXCEPT ![s] = FALSE]
        /\ buf' = buf /\ receiver' = receiver /\ current' = current
    BY <2>1, Zenon DEF Lose
  <2>3. ASSUME NEW t \in Source, t # s PROVE queue'[t] = queue[t] /\ fresh'[t] = fresh[t]
    BY <2>2, <2>3, Zenon DEF StreamInv
  <2>4. ~fresh'[s]
    BY <2>2, Zenon DEF StreamInv
  <2>5. ASSUME NEW t \in Source PROVE FreshAt(t)' /\ (fresh'[t] => fresh[t])
    BY <2>2, <2>3, <2>4, Zenon DEF FreshInv, FreshAt
  <2>6. DeliversWhole
    BY <1>1, <2>3, <2>4, Zenon DEF DeliversWhole
  <2>. QED
    BY <2>2, <2>5, <2>6, Zenon DEF FreshInv
<1>4. CASE \E s \in Source : Deliver(s)
  <2>1. PICK s \in Source : Deliver(s)
    BY <1>4, Zenon
  <2>2. queue[s] # <<>> /\ queue' = [queue EXCEPT ![s] = Tail(@)] /\ current' = current /\ receiver' = receiver
    BY <2>1, Zenon DEF Deliver
  <2>3. CASE receiver = "board" /\ UNCHANGED host
    <3>1. fresh' = fresh /\ \A t \in Source : ~fresh[t]
      BY <2>3, Zenon DEF host, FreshInv
    <3>. QED
      BY <2>2, <3>1, Zenon DEF FreshInv, FreshAt, DeliversWhole
  <2>4. CASE receiver = "client" /\ HostReceive(s, Head(queue[s]))
    <3>1. (\A t \in Source : FreshAt(t)') /\ DeliversWhole
      BY <2>2, <2>4, FreshOfHost
    <3>2. receiver' # "board"
      <4>1. "client" # "board"
        OBVIOUS
      <4>. QED
        BY <2>2, <2>4, <4>1, Zenon
    <3>. QED
      BY <3>1, <3>2, Zenon DEF FreshInv
  <2>. QED
    BY <2>1, <2>3, <2>4, Zenon DEF Deliver
<1>5. CASE Restart
  <2>1. fresh' = fresh /\ queue' = queue /\ buf' = buf /\ current' = current /\ receiver' = receiver
    BY <1>5, Zenon DEF Restart, host
  <2>. QED
    BY <1>1, <2>1, Zenon DEF FreshInv, FreshAt, DeliversWhole
<1>6. CASE NewReader
  <2>1. \A s \in Source : ~fresh'[s]
    BY <1>6, Zenon DEF NewReader
  <2>. QED
    BY <2>1, Zenon DEF FreshInv, FreshAt, DeliversWhole
<1>7. CASE UNCHANGED vars
  <2>1. fresh' = fresh /\ queue' = queue /\ buf' = buf /\ current' = current /\ receiver' = receiver
    BY <1>7, Zenon DEF vars, host
  <2>. QED
    BY <1>1, <2>1, Zenon DEF FreshInv, FreshAt, DeliversWhole
<1>. QED
  BY <1>2, <1>3, <1>4, <1>5, <1>6, <1>7, Zenon DEF Next

(* A datagram that reaches the client whole, with nothing of an earlier one in
   its buffer, is yielded, whatever its length and whatever other boards send
   in between.                                                                *)
THEOREM HostDelivers == Spec => HostDelivery
<1>1. StreamInv /\ ReceiverInv /\ FreshInv /\ [Next]_vars =>
        [\A s \in Source \ Client :
           Len(queue[s]) = 1 /\ queue'[s] = <<>> /\ fresh'[s] => yielded' = Whole(current[s])]_vars
  BY FreshStep, Zenon DEF DeliversWhole
<1>. QED
  BY <1>1, StreamInit, StreamStep, ReceiverInit, ReceiverStep, FreshInit, FreshStep, PTL DEF Spec, HostDelivery

-----------------------------------------------------------------------------
(* What the reader of a board is after the first bytes of a datagram that has
   destinations and data the buffer can hold, whatever it was before them.   *)
Readable(c) == Len(c.dst) # 0 /\ Len(c.data) \in 1 .. DATA_CAP

Starts(t, s, n) == Len(t) = n /\ \A j \in 1 .. n : t[j] = s[j]

CrcEnd(dt, c, n) == \A j \in 1 .. n : dt.crc[CRC_LEN - n + j].of = <<c, j>>
HasCrc(dt, c) == dt.version = CAN_DATAGRAM_VERSION /\ CrcEnd(dt, c, CRC_LEN)

(* The length is read into a number that is not cleared: what was in it is
   shifted out, or is a multiple of what can be counted.                   *)
HasDigits(dt, c, n) == \E q \in Int : dt.data_len = q * Power[n] + Value(Len(c.data), LEN_LEN - n)

InVersion(dt)   == dt.state = "VERSION" /\ dt.dst = <<>>
InCrc(dt, c, n) == /\ dt.state = "CRC" /\ dt.dst = <<>> /\ dt.version = CAN_DATAGRAM_VERSION
                   /\ dt.crc_read = n /\ CrcEnd(dt, c, n)
InDstLen(dt, c) == dt.state = "DST_LEN" /\ dt.dst = <<>> /\ HasCrc(dt, c)
InDst(dt, c, n) == dt.state = "DST" /\ HasCrc(dt, c) /\ dt.dst_len = Len(c.dst) /\ Starts(dt.dst, c.dst, n)
InDataLen(dt, c, n) == dt.state = "DATA_LEN" /\ HasCrc(dt, c) /\ dt.dst = c.dst /\ dt.len_read = n /\ HasDigits(dt, c, n)
HasFront(dt, c) == HasCrc(dt, c) /\ dt.dst = c.dst /\ dt.data_len = Len(c.data)
InData(dt, c, n) == dt.state = "DATA" /\ HasFront(dt, c) /\ Starts(dt.data, c.data, n)
InTrailing(dt, c) == dt.state = "TRAILING" /\ HasFront(dt, c) /\ dt.data = c.data

ReadAt(dt, c, p) ==
  \/ p = 0 /\ InVersion(dt)
  \/ \E n \in 0 .. CRC_LEN - 1 : p = 1 + n /\ InCrc(dt, c, n)
  \/ p = 1 + CRC_LEN /\ InDstLen(dt, c)
  \/ \E n \in 0 .. Len(c.dst) - 1 : p = HeaderSize + n /\ InDst(dt, c, n)
  \/ \E n \in 0 .. LEN_LEN - 1 : p = HeaderSize + Len(c.dst) + n /\ InDataLen(dt, c, n)
  \/ \E n \in 0 .. Len(c.data) - 1 : p = DataAt(c) + n /\ InData(dt, c, n)
  \/ p = Size(c) /\ InTrailing(dt, c)

LEMMA OneMore ==
  ASSUME NEW S, NEW s \in Seq(S), NEW t \in Seq(S), NEW n \in Nat, Starts(t, s, n), NEW b \in S, b = s[n + 1]
  PROVE  Starts(Append(t, b), s, n + 1)
<1>1. /\ Len(Append(t, b)) = Len(t) + 1 /\ Append(t, b)[Len(t) + 1] = b
      /\ \A j \in 1 .. Len(t) : Append(t, b)[j] = t[j]
  BY AppendFields
<1>2. \A j \in 1 .. n + 1 : j \in 1 .. n \/ j = n + 1
  BY SMT
<1>. QED
  BY <1>1, <1>2, Zenon DEF Starts

LEMMA AllOfThem ==
  ASSUME NEW S, NEW s \in Seq(S), NEW t \in Seq(S), Starts(t, s, Len(s))
  PROVE  t = s
BY SeqEqual, Zenon DEF Starts

LEMMA StepVersion ==
  ASSUME NEW dt, ReaderOK(dt), NEW c \in Content, InVersion(dt), NEW b, b = Plain(CAN_DATAGRAM_VERSION)
  PROVE  InCrc(InputVersion(dt, b), c, 0)
<1>. DEFINE e == InputVersion(dt, b)
<1>1. e.state = "CRC" /\ e.version = b.n /\ e.crc_read = dt.crc_read /\ e.dst = dt.dst
  BY DEF InputVersion, ReaderOK, Reader
<1>. HIDE DEF e
<1>2. dt.crc_read = 0
  BY DEF ReaderOK, CrcCounted, InVersion
<1>3. b.n = CAN_DATAGRAM_VERSION
  BY DEF Plain
<1>4. CrcEnd(e, c, 0)
  <2>1. \A j \in 1 .. 0 : FALSE
    BY SMT
  <2>. QED
    BY <2>1, Zenon DEF CrcEnd
<1>. QED
  BY <1>1, <1>2, <1>3, <1>4, Zenon DEF InCrc, InVersion, e

(* The buffer of the CRC is filled from behind. *)
LEMMA Shifted ==
  ASSUME NEW S, NEW s \in Seq(S), NEW b \in S, NEW n \in Nat \ {0}, Len(s) = n
  PROVE  /\ \A i \in 1 .. n - 1 : Append(Tail(s), b)[i] = s[i + 1]
         /\ Append(Tail(s), b)[n] = b
<1>. DEFINE t == Tail(s)
<1>1. s # <<>>
  BY EmptySeq, SMT
<1>2. t \in Seq(S) /\ Len(t) = n - 1 /\ \A i \in 1 .. n - 1 : t[i] = s[i + 1]
  BY <1>1, HeadTailProperties
<1>. HIDE DEF t
<1>3. (n - 1) + 1 = n
  BY SMT
<1>4. (\A i \in 1 .. Len(t) : Append(t, b)[i] = t[i]) /\ Append(t, b)[Len(t) + 1] = b
  BY <1>2, AppendFields
<1>. QED
  BY <1>2, <1>3, <1>4, Zenon DEF t

LEMMA StepCrc ==
  ASSUME NEW dt, ReaderOK(dt), NEW c \in Content, NEW n \in 0 .. CRC_LEN - 1, InCrc(dt, c, n),
         NEW b \in Octet, b = Crc(c)[n + 1]
  PROVE  IF n + 1 = CRC_LEN THEN InDstLen(InputCrc(dt, b), c) ELSE InCrc(InputCrc(dt, b), c, n + 1)
<1>. DEFINE e == InputCrc(dt, b)
<1>1. dt \in Reader /\ dt.crc \in Seq(Octet) /\ Len(dt.crc) = CRC_LEN /\ dt.crc_read = n
  BY DEF ReaderOK, Reader, InCrc
<1>2. /\ e.crc_read = n + 1 /\ e.crc = Append(Tail(dt.crc), b) /\ e.dst = dt.dst /\ e.version = dt.version
      /\ e.state = (IF n + 1 = CRC_LEN THEN "DST_LEN" ELSE "CRC")
  BY <1>1 DEF InputCrc, Reader, InCrc
<1>. HIDE DEF e
<1>3. CRC_LEN \in Nat \ {0} /\ n \in Nat /\ n + 1 <= CRC_LEN /\ n + 1 \in 1 .. CRC_LEN /\ CRC_LEN - (n + 1) + (n + 1) = CRC_LEN
  BY Widths, SMT
<1>4. /\ \A i \in 1 .. CRC_LEN - 1 : e.crc[i] = dt.crc[i + 1]
      /\ e.crc[CRC_LEN] = b
  <2>1. /\ \A i \in 1 .. CRC_LEN - 1 : Append(Tail(dt.crc), b)[i] = dt.crc[i + 1]
        /\ Append(Tail(dt.crc), b)[CRC_LEN] = b
    BY <1>1, <1>3, Shifted
  <2>. QED
    BY <1>2, <2>1, Zenon
<1>5. CrcEnd(e, c, n + 1)
  <2>1. ASSUME NEW j \in 1 .. n + 1 PROVE e.crc[CRC_LEN - (n + 1) + j].of = <<c, j>>
    <3>1. CASE j = n + 1
      <4>1. Crc(c)[n + 1] = [n |-> CrcValue[c][n + 1], of |-> <<c, n + 1>>]
        BY <1>3, CrcFields, Zenon
      <4>2. [n |-> CrcValue[c][n + 1], of |-> <<c, n + 1>>].of = <<c, n + 1>>
        OBVIOUS
      <4>. QED
        BY <1>3, <1>4, <3>1, <4>1, <4>2, Zenon
    <3>2. CASE j # n + 1
      <4>1. /\ j \in 1 .. n /\ CRC_LEN - (n + 1) + j \in 1 .. CRC_LEN - 1
            /\ (CRC_LEN - (n + 1) + j) + 1 = CRC_LEN - n + j
        BY <1>3, <3>2, SMT
      <4>2. e.crc[CRC_LEN - (n + 1) + j] = dt.crc[CRC_LEN - n + j]
        BY <1>4, <4>1, Zenon
      <4>3. dt.crc[CRC_LEN - n + j].of = <<c, j>>
        BY <4>1, Zenon DEF InCrc, CrcEnd
      <4>. QED
        BY <4>2, <4>3, Zenon
    <3>. QED
      BY <3>1, <3>2, Zenon
  <2>. QED
    BY <2>1, Zenon DEF CrcEnd
<1>6. CASE n + 1 = CRC_LEN
  BY <1>2, <1>5, <1>6, Zenon DEF InDstLen, HasCrc, InCrc, e
<1>7. CASE n + 1 # CRC_LEN
  BY <1>2, <1>5, <1>7, Zenon DEF InCrc, e
<1>. QED
  BY <1>6, <1>7, Zenon

LEMMA StepDstLen ==
  ASSUME NEW dt, ReaderOK(dt), NEW c \in Content, InDstLen(dt, c), NEW b, b = Plain(Len(c.dst))
  PROVE  InDst(InputDstLen(dt, b), c, 0)
<1>. DEFINE e == InputDstLen(dt, b)
<1>1. e.state = "DST" /\ e.dst_len = b.n /\ e.dst = dt.dst /\ e.version = dt.version /\ e.crc = dt.crc
  BY DEF InputDstLen, ReaderOK, Reader
<1>. HIDE DEF e
<1>2. b.n = Len(c.dst)
  BY DEF Plain
<1>3. Starts(<<>>, c.dst, 0)
  <2>1. Len(<<>>) = 0 /\ \A j \in 1 .. 0 : FALSE
    OBVIOUS
  <2>. QED
    BY <2>1, Zenon DEF Starts
<1>. QED
  BY <1>1, <1>2, <1>3, Zenon DEF InDst, InDstLen, HasCrc, CrcEnd, e

(* The index of the destinations does not wrap, as a datagram has fewer. *)
LEMMA StepDst ==
  ASSUME NEW dt, ReaderOK(dt), NEW c \in Content, NEW n \in 0 .. Len(c.dst) - 1, InDst(dt, c, n),
         NEW b \in Octet, b = Plain(c.dst[n + 1])
  PROVE  IF n + 1 = Len(c.dst) THEN InDataLen(InputDst(dt, b), c, 0) ELSE InDst(InputDst(dt, b), c, n + 1)
<1>. DEFINE e == InputDst(dt, b)
            d == Len(c.dst)
            dst == Append(dt.dst, b.n)
<1>1. dt \in Reader /\ dt.dst \in Seq(Number8) /\ b.n \in Number8 /\ Len(dt.dst) = n /\ dt.dst_len = d
  BY DEF ReaderOK, Reader, Octet, InDst, Starts
<1>2. c.dst \in Seq(Number8) /\ d \in Nat /\ d < BYTE
  <2>1. c.dst \in Seq(Number8) /\ d \in Nat /\ d \in Number8
    BY ContentFields, Zenon
  <2>2. \A x \in Number8 : x < BYTE
    BY Widths, SMT DEF Number8
  <2>. QED
    BY <2>1, <2>2, Zenon
<1>. HIDE DEF d
<1>3. (n + 1) % BYTE = n + 1 /\ n + 1 # 0 /\ n \in Nat /\ n + 1 \in Nat
  <2>1. n \in Nat /\ n + 1 <= d
    BY <1>2, SMT DEF d
  <2>2. n + 1 \in Nat /\ n + 1 < BYTE
    BY <1>2, <2>1, Widths, SMT
  <2>3. \A m \in Nat : m < BYTE => m % BYTE = m
    BY Widths, SMT
  <2>. QED
    BY <2>1, <2>2, <2>3, SMT
<1>. HIDE DEF dst
<1>4. /\ e.dst = dst /\ e.state = (IF n + 1 = d THEN "DATA_LEN" ELSE "DST")
      /\ e.dst_len = d /\ e.version = dt.version /\ e.crc = dt.crc /\ e.len_read = dt.len_read
      /\ e.data_len = dt.data_len
  BY <1>1, <1>3 DEF InputDst, Reader, dst, InDst
<1>5. Starts(dst, c.dst, n + 1) /\ dst \in Seq(Number8)
  <2>1. b.n = c.dst[n + 1]
    BY DEF Plain
  <2>2. Starts(dt.dst, c.dst, n)
    BY Zenon DEF InDst
  <2>3. Starts(dst, c.dst, n + 1)
    BY <1>1, <1>2, <1>3, <2>1, <2>2, OneMore, Zenon DEF dst
  <2>. QED
    BY <1>1, <2>3, AppendFields, Zenon DEF dst
<1>. HIDE DEF e
<1>6. HasCrc(e, c)
  BY <1>4, Zenon DEF InDst, HasCrc, CrcEnd
<1>7. CASE n + 1 = d
  <2>1. dst = c.dst
    BY <1>2, <1>5, <1>7, AllOfThem, Zenon DEF d
  <2>2. e.len_read = 0
    BY <1>4 DEF ReaderOK, LengthCounted, InDst
  <2>3. HasDigits(e, c, 0)
    <3>1. Len(c.data) \in Nat /\ Len(c.data) < WORD
      BY ContentFields, Zenon
    <3>2. Value(Len(c.data), LEN_LEN - 0) = 0
      <4>1. LEN_LEN - 0 = LEN_LEN
        BY Widths, SMT
      <4>. QED
        BY <3>1, <4>1, AllDigits, Zenon
    <3>3. dt.data_len \in Int
      BY <1>1, WordNumber DEF Reader
    <3>4. dt.data_len = dt.data_len * 1 + 0
      BY <3>3, SMT
    <3>. QED
      BY <1>4, <3>2, <3>3, <3>4, PowerUnfold, Zenon DEF HasDigits
  <2>. QED
    BY <1>4, <1>6, <1>7, <2>1, <2>2, <2>3, Zenon DEF InDataLen, e, d
<1>8. CASE n + 1 # d
  BY <1>4, <1>5, <1>6, <1>8, Zenon DEF InDst, e, d
<1>. QED
  BY <1>7, <1>8, Zenon DEF d

(* A digit more: what is above the width is cut off, and is a multiple. *)
MultipleAnd(x, n, v) == \E r \in Int : x = r * Power[n] + v

LEMMA DigitCut ==
  ASSUME NEW n \in 1 .. LEN_LEN, NEW q \in Int, NEW v \in Nat, NEW x \in Nat, x = q * Power[n] + v
  PROVE  \E z \in Nat : z = x % WORD /\ MultipleAnd(z, n, v)
<1>1. n \in 0 .. LEN_LEN /\ WORD \in Nat \ {0}
  BY WordNumber, Widths, SMT
<1>2. PICK m \in Nat : WORD = m * Power[n]
  BY <1>1, PowerDivides, Zenon
<1>3. PICK a \in Nat : a = Power[n]
  BY <1>1, PowerUnfold, Zenon
<1>4. PICK y \in Nat : y = x \div WORD
  BY <1>1, SMT
<1>5. PICK z \in Nat : z = x % WORD /\ x = y * WORD + z
  BY <1>1, <1>4, Division, Zenon DEF Divided
<1>6. y * WORD = (y * m) * a
  BY <1>2, <1>3, SMT
<1>7. z = (q - y * m) * a + v
  <2>1. PICK k \in Nat : k = y * m
    BY SMT
  <2>2. (q - k) * a = q * a - k * a /\ q * a \in Int /\ k * a \in Int
    BY <1>3, <2>1, SMT
  <2>3. q * a + v = k * a + z
    BY <1>3, <1>5, <1>6, <2>1, Zenon
  <2>. QED
    BY <2>1, <2>2, <2>3, SMT
<1>8. q - y * m \in Int
  BY SMT
<1>9. z = (q - y * m) * Power[n] + v
  BY <1>3, <1>7, Zenon
<1>. QED
  BY <1>5, <1>8, <1>9, Zenon DEF MultipleAnd

LEMMA AllCounted ==
  ASSUME NEW q \in Int, NEW x \in Nat, NEW l \in Nat, x < WORD, l < WORD, x = q * WORD + l
  PROVE  x = l
<1>1. PICK w \in Nat \ {0} : w = WORD
  BY WordNumber, Zenon
<1>2. CASE q = 0
  BY <1>1, <1>2, SMT
<1>3. CASE q >= 1
  <2>1. PICK k \in Nat : q = k + 1
    <3>1. q - 1 \in Nat /\ q = (q - 1) + 1
      BY <1>3, SMT
    <3>. QED
      BY <3>1, Zenon
  <2>2. q * w = k * w + w /\ k * w \in Nat
    BY <1>1, <2>1, SMT
  <2>. QED
    BY <1>1, <2>2, SMT
<1>4. CASE q <= -1
  <2>1. PICK k \in Nat : q = -(k + 1)
    <3>1. -q - 1 \in Nat /\ q = -((-q - 1) + 1)
      BY <1>4, SMT
    <3>. QED
      BY <3>1, Zenon
  <2>2. q * w = -(k * w + w) /\ k * w \in Nat
    BY <1>1, <2>1, SMT
  <2>. QED
    BY <1>1, <2>2, SMT
<1>. QED
  BY <1>2, <1>3, <1>4, SMT

LEMMA StepDataLen ==
  ASSUME NEW dt, ReaderOK(dt), NEW c \in Content, NEW n \in 0 .. LEN_LEN - 1, InDataLen(dt, c, n),
         NEW b \in Octet, b = Plain(BigEndian(Len(c.data))[n + 1])
  PROVE  IF n + 1 = LEN_LEN THEN InData(InputDataLen(dt, b), c, 0) ELSE InDataLen(InputDataLen(dt, b), c, n + 1)
<1>. DEFINE e == InputDataLen(dt, b)
            l == Len(c.data)
            x == dt.data_len * BYTE + b.n
<1>1. /\ dt \in Reader /\ dt.len_read = n /\ dt.data_len \in Nat /\ b.n \in Nat
  BY WordNumber DEF ReaderOK, Reader, Octet, Number8, InDataLen
<1>2. l \in Nat /\ l < WORD
  BY ContentFields, Zenon
<1>3. /\ e.data_len = x % WORD /\ e.len_read = n + 1 /\ e.state = (IF n + 1 = LEN_LEN THEN "DATA" ELSE "DATA_LEN")
      /\ e.version = dt.version /\ e.crc = dt.crc /\ e.dst = dt.dst /\ e.data = dt.data
  BY <1>1 DEF InputDataLen, Reader, InDataLen
<1>. HIDE DEF e, l
<1>4. /\ n + 1 \in 1 .. LEN_LEN /\ n \in 0 .. LEN_LEN /\ n + 1 \in 0 .. LEN_LEN
      /\ LEN_LEN - (n + 1) + 1 = LEN_LEN - n /\ (n + 1) - 1 = n /\ LEN_LEN - LEN_LEN = 0
  BY Widths, SMT
<1>5. HasDigits(e, c, n + 1)
  <2>1. PICK q \in Int : dt.data_len = q * Power[n] + Value(l, LEN_LEN - n)
    BY Zenon DEF InDataLen, HasDigits, l
  <2>2. AddDigit(l, LEN_LEN - (n + 1) + 1, BigEndian(l)[n + 1]) /\ (LEN_LEN - (n + 1) + 1) - 1 = LEN_LEN - (n + 1)
    BY <1>2, <1>4, BigEndianDigits, Zenon
  <2>3. b.n = BigEndian(l)[n + 1]
    BY DEF Plain, l
  <2>4. /\ Value(l, LEN_LEN - n) \in Nat /\ Value(l, LEN_LEN - (n + 1)) \in Nat
        /\ Value(l, LEN_LEN - n) * BYTE + b.n = Value(l, LEN_LEN - (n + 1))
    BY <1>4, <2>2, <2>3, Zenon DEF AddDigit
  <2>5. PICK a \in Nat : a = Power[n] /\ Power[n + 1] = a * BYTE
    BY <1>4, PowerUnfold, Zenon
  <2>6. PICK u \in Nat : u = Value(l, LEN_LEN - n)
    BY <2>4, Zenon
  <2>7. PICK v \in Nat : v = Value(l, LEN_LEN - (n + 1)) /\ u * BYTE + b.n = v
    BY <2>4, <2>6, Zenon
  <2>8. x = q * (a * BYTE) + v
    <3>1. dt.data_len = q * a + u
      BY <2>1, <2>5, <2>6, Zenon
    <3>2. PICK k \in Int : k = q * a /\ k * BYTE = q * (a * BYTE)
      BY Widths, SMT
    <3>3. (k + u) * BYTE = k * BYTE + u * BYTE /\ k * BYTE \in Int /\ u * BYTE \in Int
      BY Widths, SMT
    <3>4. x = (k + u) * BYTE + b.n
      BY <3>1, <3>2, Zenon
    <3>5. x = k * BYTE + v
      BY <1>1, <2>7, <3>3, <3>4, SMT
    <3>. QED
      BY <3>2, <3>5, Zenon
  <2>9. x \in Nat
    BY <1>1, Widths, SMT
  <2>. HIDE DEF x
  <2>10. PICK z \in Nat : z = x % WORD /\ MultipleAnd(z, n + 1, v)
    <3>1. x = q * Power[n + 1] + v
      BY <2>5, <2>8, Zenon
    <3>. QED
      BY <1>4, <2>9, <3>1, DigitCut, Zenon
  <2>11. e.data_len = z
    BY <1>3, <2>10, Zenon
  <2>12. PICK r \in Int : z = r * Power[n + 1] + v
    BY <2>10, Zenon DEF MultipleAnd
  <2>. QED
    BY <2>7, <2>11, <2>12, Zenon DEF HasDigits, l
<1>. HIDE DEF x
<1>6. HasCrc(e, c) /\ e.dst = c.dst
  BY <1>3, Zenon DEF InDataLen, HasCrc, CrcEnd
<1>7. CASE n + 1 = LEN_LEN
  <2>1. ReaderOK(e)
    BY ByteDataLen, Zenon DEF InDataLen, e
  <2>2. e.data_len \in Nat /\ e.data_len < WORD
    BY <2>1, WordNumber DEF ReaderOK, Reader
  <2>3. PICK q \in Int : e.data_len = q * Power[LEN_LEN] + Value(l, LEN_LEN - LEN_LEN)
    BY <1>5, <1>7, Zenon DEF HasDigits, l
  <2>4. Value(l, LEN_LEN - LEN_LEN) = l
    BY <1>2, <1>4, AllDigits, Zenon
  <2>5. e.data_len = q * WORD + l
    BY <2>3, <2>4, Zenon DEF WORD
  <2>6. e.data_len = l
    BY <1>2, <2>2, <2>5, AllCounted, Zenon
  <2>7. Starts(e.data, c.data, 0)
    <3>1. dt.data = <<>>
      BY DEF ReaderOK, DataCounted, InDataLen
    <3>2. Len(<<>>) = 0 /\ \A j \in 1 .. 0 : FALSE
      OBVIOUS
    <3>. QED
      BY <1>3, <3>1, <3>2, Zenon DEF Starts
  <2>. QED
    BY <1>3, <1>6, <1>7, <2>6, <2>7, Zenon DEF InData, HasFront, e, l
<1>8. CASE n + 1 # LEN_LEN
  BY <1>3, <1>5, <1>6, <1>8, Zenon DEF InDataLen, e
<1>. QED
  BY <1>7, <1>8, Zenon

LEMMA StepData ==
  ASSUME NEW dt, ReaderOK(dt), NEW c \in Content, Readable(c), NEW n \in 0 .. Len(c.data) - 1, InData(dt, c, n),
         NEW b \in Octet, b = Plain(c.data[n + 1])
  PROVE  IF n + 1 = Len(c.data) THEN InTrailing(InputData(dt, b), c) ELSE InData(InputData(dt, b), c, n + 1)
<1>. DEFINE e == InputData(dt, b)
            l == Len(c.data)
            data == Append(dt.data, b.n)
<1>1. dt \in Reader /\ dt.data \in Seq(Number8) /\ b.n \in Number8 /\ Len(dt.data) = n /\ dt.data_len = l
  BY DEF ReaderOK, Reader, Octet, InData, HasFront, Starts
<1>2. c.data \in Seq(Number8) /\ l \in Nat /\ l \in 1 .. DATA_CAP
  BY ContentFields, Zenon DEF Readable
<1>. HIDE DEF l, data
<1>3. n \in Nat /\ n + 1 <= l /\ (n + 1 \in {l, DATA_CAP} <=> n + 1 = l)
  <2>1. n \in 0 .. l - 1
    BY Zenon DEF l
  <2>. QED
    BY <1>2, <2>1, Widths, SMT
<1>4. /\ e.data = data /\ e.state = (IF n + 1 = l THEN "TRAILING" ELSE "DATA")
      /\ e.version = dt.version /\ e.crc = dt.crc /\ e.dst = dt.dst /\ e.data_len = dt.data_len
  BY <1>1, <1>3 DEF InputData, Reader, data, InData
<1>5. Starts(data, c.data, n + 1) /\ data \in Seq(Number8)
  <2>1. b.n = c.data[n + 1]
    BY DEF Plain
  <2>2. Starts(dt.data, c.data, n)
    BY Zenon DEF InData
  <2>3. Starts(data, c.data, n + 1)
    BY <1>1, <1>2, <1>3, <2>1, <2>2, OneMore, Zenon DEF data
  <2>. QED
    BY <1>1, <2>3, AppendFields, Zenon DEF data
<1>. HIDE DEF e
<1>6. HasFront(e, c)
  BY <1>4, Zenon DEF InData, HasFront, HasCrc, CrcEnd
<1>7. CASE n + 1 = l
  <2>1. data = c.data
    BY <1>2, <1>5, <1>7, AllOfThem, Zenon DEF l
  <2>. QED
    BY <1>4, <1>6, <1>7, <2>1, Zenon DEF InTrailing, e, l
<1>8. CASE n + 1 # l
  BY <1>4, <1>5, <1>6, <1>8, Zenon DEF InData, e, l
<1>. QED
  BY <1>7, <1>8, Zenon DEF l

LEMMA ByteReads ==
  ASSUME NEW dt, ReaderOK(dt), NEW c \in Content, Readable(c), NEW p \in Nat, p < Size(c), ReadAt(dt, c, p)
  PROVE  /\ ReadAt(can_datagram_input_byte(dt, encode_datagram(c)[p + 1]), c, p + 1)
         /\ ~can_datagram_is_complete(dt)
<1>. DEFINE E == encode_datagram(c)
            b == E[p + 1]
            e == can_datagram_input_byte(dt, b)
            h == HeaderSize
            d == Len(c.dst)
            l == Len(c.data)
            k == DataAt(c)
            N == Size(c)
<1>1. /\ d \in Nat /\ d # 0 /\ l \in 1 .. DATA_CAP /\ h = CRC_LEN + 2
      /\ k = h + d + LEN_LEN /\ N = h + d + LEN_LEN + l
  BY ContentFields, Zenon DEF Readable, HeaderSize, DataAt, Size
<1>2. /\ E \in Seq(Octet) /\ Len(E) = N
      /\ E[1] = Plain(CAN_DATAGRAM_VERSION)
      /\ \A i \in 1 .. CRC_LEN : E[1 + i] = Crc(c)[i]
      /\ E[h] = Plain(d)
      /\ \A i \in 1 .. d : E[h + i] = Plain(c.dst[i])
      /\ \A i \in 1 .. LEN_LEN : E[h + d + i] = Plain(BigEndian(l)[i])
      /\ \A i \in 1 .. l : E[k + i] = Plain(c.data[i])
  BY EncodeFields, Zenon DEF DataAt
<1>3. b \in Octet
  <2>1. N \in Nat /\ p < N
    BY ContentFields, Zenon
  <2>2. p + 1 \in 1 .. N
    BY <2>1, SMT
  <2>. QED
    BY <1>2, <2>2, ElementOfSeq, Zenon
<1>. HIDE DEF E, b, e, h, d, l, k, N
<1>4. dt.len_read # LEN_LEN => ~can_datagram_is_complete(dt)
  BY Zenon DEF can_datagram_is_complete
<1>5. dt.state \notin {"DATA_LEN", "DATA", "TRAILING"} => dt.len_read # LEN_LEN
  BY Widths DEF ReaderOK, LengthCounted
<1>6. CASE p = 0 /\ InVersion(dt)
  <2>1. e = InputVersion(dt, b) /\ dt.state = "VERSION"
    BY <1>6 DEF can_datagram_input_byte, InVersion, e
  <2>2. b = Plain(CAN_DATAGRAM_VERSION)
    <3>1. p + 1 = 1
      BY <1>6, SMT
    <3>. QED
      BY <1>2, <3>1, Zenon DEF b
  <2>3. InCrc(e, c, 0)
    BY <1>6, <2>1, <2>2, StepVersion, Zenon
  <2>4. 0 \in 0 .. CRC_LEN - 1 /\ p + 1 = 1 + 0
    BY <1>6, Widths, SMT
  <2>5. ReadAt(e, c, p + 1)
    BY <2>3, <2>4, Zenon DEF ReadAt
  <2>. QED
    BY <1>4, <1>5, <2>1, <2>5 DEF e, b, E
<1>7. ASSUME NEW n \in 0 .. CRC_LEN - 1, p = 1 + n, InCrc(dt, c, n)
      PROVE  ReadAt(e, c, p + 1) /\ ~can_datagram_is_complete(dt)
  <2>1. e = InputCrc(dt, b) /\ dt.state = "CRC"
    BY <1>7 DEF can_datagram_input_byte, InCrc, e
  <2>2. /\ n + 1 \in 1 .. CRC_LEN /\ p + 1 = 1 + (n + 1) /\ (n + 1 # CRC_LEN => n + 1 \in 0 .. CRC_LEN - 1)
    BY <1>7, Widths, SMT
  <2>3. b = Crc(c)[n + 1]
    <3>1. E[1 + (n + 1)] = Crc(c)[n + 1]
      BY <1>2, <2>2, Zenon
    <3>. QED
      BY <2>2, <3>1, Zenon DEF b
  <2>4. IF n + 1 = CRC_LEN THEN InDstLen(e, c) ELSE InCrc(e, c, n + 1)
    BY <1>3, <1>7, <2>1, <2>3, StepCrc, Zenon
  <2>5. ReadAt(e, c, p + 1)
    BY <2>2, <2>4, Zenon DEF ReadAt
  <2>. QED
    BY <1>4, <1>5, <2>1, <2>5
<1>8. CASE p = 1 + CRC_LEN /\ InDstLen(dt, c)
  <2>1. e = InputDstLen(dt, b) /\ dt.state = "DST_LEN"
    BY <1>8 DEF can_datagram_input_byte, InDstLen, e
  <2>2. p + 1 = h /\ p + 1 = h + 0 /\ 0 \in 0 .. d - 1
    BY <1>1, <1>8, Widths, SMT
  <2>3. InDst(e, c, 0)
    BY <1>2, <1>8, <2>1, <2>2, StepDstLen, Zenon DEF b, d
  <2>4. ReadAt(e, c, p + 1)
    BY <2>2, <2>3, Zenon DEF ReadAt, h, d
  <2>5. dt.len_read # LEN_LEN
    <3>1. dt.state \notin {"DATA_LEN", "DATA", "TRAILING"}
      BY <2>1
    <3>. QED
      BY <1>5, <3>1, Zenon
  <2>. QED
    BY <1>4, <2>4, <2>5, Zenon DEF e, b, E
<1>9. ASSUME NEW n \in 0 .. d - 1, p = h + n, InDst(dt, c, n)
      PROVE  ReadAt(e, c, p + 1) /\ ~can_datagram_is_complete(dt)
  <2>1. e = InputDst(dt, b) /\ dt.state = "DST"
    BY <1>9 DEF can_datagram_input_byte, InDst, e
  <2>2. /\ n + 1 \in 1 .. d /\ p + 1 = h + (n + 1) /\ (n + 1 # d => n + 1 \in 0 .. d - 1)
        /\ (n + 1 = d => p + 1 = h + d + 0) /\ 0 \in 0 .. LEN_LEN - 1
    BY <1>1, <1>9, Widths, SMT
  <2>3. b = Plain(c.dst[n + 1])
    BY <1>2, <2>2, Zenon DEF b
  <2>4. IF n + 1 = d THEN InDataLen(e, c, 0) ELSE InDst(e, c, n + 1)
    BY <1>3, <1>9, <2>1, <2>3, StepDst, Zenon DEF d
  <2>5. ReadAt(e, c, p + 1)
    BY <2>2, <2>4, Zenon DEF ReadAt, h, d
  <2>. QED
    BY <1>4, <1>5, <2>1, <2>5
<1>10. ASSUME NEW n \in 0 .. LEN_LEN - 1, p = h + d + n, InDataLen(dt, c, n)
       PROVE  ReadAt(e, c, p + 1) /\ ~can_datagram_is_complete(dt)
  <2>1. e = InputDataLen(dt, b) /\ dt.len_read = n
    BY <1>10 DEF can_datagram_input_byte, InDataLen, e
  <2>2. /\ n + 1 \in 1 .. LEN_LEN /\ p + 1 = h + d + (n + 1) /\ (n + 1 # LEN_LEN => n + 1 \in 0 .. LEN_LEN - 1)
        /\ (n + 1 = LEN_LEN => p + 1 = k + 0) /\ 0 \in 0 .. l - 1 /\ n # LEN_LEN
    BY <1>1, <1>10, Widths, SMT
  <2>3. b = Plain(BigEndian(l)[n + 1])
    BY <1>2, <2>2, Zenon DEF b
  <2>4. IF n + 1 = LEN_LEN THEN InData(e, c, 0) ELSE InDataLen(e, c, n + 1)
    BY <1>3, <1>10, <2>1, <2>3, StepDataLen, Zenon DEF l
  <2>5. ReadAt(e, c, p + 1)
    BY <2>2, <2>4, Zenon DEF ReadAt, h, d, k, l
  <2>. QED
    BY <1>4, <2>1, <2>2, <2>5
<1>11. ASSUME NEW n \in 0 .. l - 1, p = k + n, InData(dt, c, n)
       PROVE  ReadAt(e, c, p + 1) /\ ~can_datagram_is_complete(dt)
  <2>1. e = InputData(dt, b) /\ Len(dt.data) = n /\ dt.data_len = l
    BY <1>11 DEF can_datagram_input_byte, InData, HasFront, Starts, e, l
  <2>2. /\ n + 1 \in 1 .. l /\ p + 1 = k + (n + 1) /\ (n + 1 # l => n + 1 \in 0 .. l - 1)
        /\ (n + 1 = l => p + 1 = N) /\ n # l
    BY <1>1, <1>11, Widths, SMT
  <2>3. b = Plain(c.data[n + 1])
    BY <1>2, <2>2, Zenon DEF b
  <2>4. IF n + 1 = l THEN InTrailing(e, c) ELSE InData(e, c, n + 1)
    BY <1>3, <1>11, <2>1, <2>3, StepData, Zenon DEF l
  <2>5. ReadAt(e, c, p + 1)
    BY <2>2, <2>4, Zenon DEF ReadAt, k, l, N
  <2>. QED
    BY <2>1, <2>2, <2>5, Zenon DEF can_datagram_is_complete
<1>12. p # N
  BY <1>1, Widths, SMT DEF N
<1>. QED
  BY <1>6, <1>7, <1>8, <1>9, <1>10, <1>11, <1>12, Zenon DEF ReadAt, e, b, E, h, d, l, k, N

(* ... and it is complete and valid when it has read them all. *)
LEMMA WholeIsRead ==
  ASSUME NEW dt, ReaderOK(dt), NEW c \in Content, Readable(c), ReadAt(dt, c, Size(c))
  PROVE  can_datagram_is_complete(dt) /\ can_datagram_is_valid(dt) /\ ContentOf(dt) = c
<1>. DEFINE h == HeaderSize
            d == Len(c.dst)
            l == Len(c.data)
            k == DataAt(c)
            N == Size(c)
<1>1. /\ d \in Nat /\ l \in 1 .. DATA_CAP /\ h = CRC_LEN + 2
      /\ k = h + d + LEN_LEN /\ N = h + d + LEN_LEN + l
  BY ContentFields, Zenon DEF Readable, HeaderSize, DataAt, Size
<1>. HIDE DEF h, d, l, k, N
<1>2. /\ N # 0 /\ N # 1 + CRC_LEN
      /\ \A n \in 0 .. CRC_LEN - 1 : N # 1 + n
      /\ \A n \in 0 .. d - 1 : N # h + n
      /\ \A n \in 0 .. LEN_LEN - 1 : N # h + d + n
      /\ \A n \in 0 .. l - 1 : N # k + n
  BY <1>1, Widths, SMT
<1>3. InTrailing(dt, c)
  BY <1>2, Zenon DEF ReadAt, h, d, l, k, N
<1>4. /\ dt.state = "TRAILING" /\ dt.dst = c.dst /\ dt.data = c.data /\ dt.data_len = Len(dt.data)
      /\ dt.version = CAN_DATAGRAM_VERSION /\ CrcEnd(dt, c, CRC_LEN)
  BY <1>3, Zenon DEF InTrailing, HasFront, HasCrc
<1>5. dt.len_read = LEN_LEN
  BY <1>4 DEF ReaderOK, LengthCounted
<1>6. can_datagram_is_complete(dt)
  BY <1>4, <1>5 DEF can_datagram_is_complete
<1>7. ContentOf(dt) = c
  <2>1. ContentOf(dt) = [dst |-> c.dst, data |-> c.data]
    BY <1>4, Zenon DEF ContentOf
  <2>. QED
    BY <2>1, ContentFields, Zenon
<1>8. \A i \in 1 .. CRC_LEN : dt.crc[i].of = <<ContentOf(dt), i>>
  <2>1. \A i \in 1 .. CRC_LEN : CRC_LEN - CRC_LEN + i = i
    BY Widths, SMT
  <2>. QED
    BY <1>4, <1>7, <2>1, Zenon DEF CrcEnd
<1>. QED
  BY <1>4, <1>6, <1>7, <1>8, Zenon DEF can_datagram_is_valid


(* A frame takes the reader from where it begins to where it ends. *)
LEMMA FrameReads ==
  ASSUME NEW c \in Content, Readable(c), NEW s \in Source, NEW k \in 1 .. Count(c),
         NEW dt, ReaderOK(dt), ReadAt(dt, c, Cut(c, k - 1))
  PROVE  /\ ReaderOK(Feed(dt, FrameOf(c, s, k).bytes))
         /\ ReadAt(Feed(dt, FrameOf(c, s, k).bytes), c, Cut(c, k))
<1>. DEFINE E == encode_datagram(c)
            bytes == FrameOf(c, s, k).bytes
            p == Cut(c, k - 1)
            q == Cut(c, k)
            m == Len(bytes)
            R(i) == {d \in Reader : ReaderOK(d) /\ ReadAt(d, c, p + i)}
            S == [i \in 0 .. m |-> R(i)]
<1>1. /\ p \in Nat /\ q \in Nat /\ q <= Size(c) /\ Size(c) \in Nat /\ p < q
      /\ p = (k - 1) * FRAME
  <2>1. Count(c) \in Nat /\ Size(c) \in Nat /\ p = (k - 1) * FRAME /\ p < q
    BY CutFacts, Zenon
  <2>2. k - 1 \in Nat /\ k \in Nat
    BY <2>1, SMT
  <2>3. p \in 0 .. Size(c) /\ q \in 0 .. Size(c)
    BY <2>2, CutFacts, Zenon
  <2>. HIDE DEF p, q
  <2>. QED
    BY <2>1, <2>3, SMT
<1>2. bytes = SubSeq(E, p + 1, q)
  BY <1>1, Zenon DEF FrameOf
<1>3. E \in Seq(Octet) /\ Len(E) = Size(c)
  BY EncodeFields, Zenon
<1>. HIDE DEF E, bytes, p, q
<1>4. /\ p + 1 \in Nat \ {0} /\ p + 1 <= q + 1 /\ q - (p + 1) + 1 \in Nat /\ p + (q - (p + 1) + 1) = q
      /\ \A i \in 1 .. q - (p + 1) + 1 : (p + 1) + i - 1 = p + i /\ p + i \in 1 .. Size(c)
  BY <1>1, SMT
<1>5. bytes \in Seq(Octet) /\ PartOf(bytes, E, p + 1, q)
  BY <1>1, <1>2, <1>3, <1>4, Part, Zenon
<1>6. m \in Nat /\ p + m = q /\ \A i \in 1 .. m : bytes[i] = E[p + i] /\ E[p + i] \in Octet /\ p + i \in 1 .. Size(c)
  <2>1. m = q - (p + 1) + 1
    BY <1>5, Zenon DEF PartOf
  <2>2. m \in Nat /\ p + m = q
    BY <1>4, <2>1, Zenon
  <2>3. ASSUME NEW i \in 1 .. m PROVE bytes[i] = E[p + i] /\ E[p + i] \in Octet /\ p + i \in 1 .. Size(c)
    <3>1. i \in 1 .. q - (p + 1) + 1
      BY <2>1, Zenon
    <3>2. bytes[i] = E[(p + 1) + i - 1]
      BY <1>5, <3>1, Zenon DEF PartOf
    <3>3. (p + 1) + i - 1 = p + i /\ p + i \in 1 .. Size(c)
      BY <1>4, <3>1, Zenon
    <3>4. E[p + i] \in Octet
      BY <1>3, <3>3, ElementOfSeq, Zenon
    <3>. QED
      BY <3>2, <3>3, <3>4, Zenon
  <2>. QED
    BY <2>2, <2>3, Zenon
<1>. HIDE DEF m
<1>7. 0 \in 0 .. m /\ m \in 0 .. m /\ p + 0 = p
  BY <1>1, <1>6, SMT
<1>8. dt \in S[0]
  <2>1. dt \in Reader /\ ReadAt(dt, c, p + 0)
    BY <1>7, Zenon DEF ReaderOK, p
  <2>2. dt \in R(0)
    BY <2>1, Zenon
  <2>. QED
    BY <1>7, <2>2, Zenon
<1>9. ASSUME NEW i \in 1 .. m, NEW d \in S[i - 1] PROVE can_datagram_input_byte(d, bytes[i]) \in S[i]
  <2>1. i - 1 \in 0 .. m /\ i \in 0 .. m /\ p + (i - 1) \in Nat /\ (p + (i - 1)) + 1 = p + i
    BY <1>1, <1>6, SMT
  <2>2. d \in R(i - 1)
    BY <2>1, Zenon
  <2>3. ReaderOK(d) /\ ReadAt(d, c, p + (i - 1))
    BY <2>2, Zenon
  <2>4. bytes[i] = E[p + i] /\ bytes[i] \in Octet /\ p + i \in 1 .. Size(c)
    BY <1>6, Zenon
  <2>5. p + (i - 1) < Size(c)
    BY <1>1, <2>1, <2>4, SMT
  <2>6. PICK x \in Nat : x = p + (i - 1) /\ x + 1 = p + i
    BY <2>1, Zenon
  <2>7. ReadAt(can_datagram_input_byte(d, encode_datagram(c)[x + 1]), c, x + 1)
    BY <2>3, <2>5, <2>6, ByteReads, Zenon
  <2>8. ReadAt(can_datagram_input_byte(d, bytes[i]), c, p + i)
    BY <2>4, <2>6, <2>7, Zenon DEF E
  <2>9. ReaderOK(can_datagram_input_byte(d, bytes[i]))
    BY <2>3, <2>4, ByteStays, Zenon
  <2>10. can_datagram_input_byte(d, bytes[i]) \in R(i)
    BY <2>8, <2>9, Zenon DEF ReaderOK
  <2>. QED
    BY <2>1, <2>10, Zenon
<1>10. Feed(dt, bytes) \in S[Len(bytes)]
  <2>. HIDE DEF S
  <2>. QED
    BY <1>6, <1>8, <1>9, FeedReaches, Zenon DEF m
<1>11. Feed(dt, bytes) \in R(m)
  BY <1>7, <1>10, Zenon DEF m
<1>. QED
  BY <1>6, <1>11, Zenon DEF bytes, q

(* Starting again takes it to the first byte, whatever it was before. *)
LEMMA StartReads ==
  ASSUME NEW dt, ReaderOK(dt), NEW c
  PROVE  ReadAt(can_datagram_start(dt), c, 0)
<1>1. can_datagram_start(dt).state = "VERSION" /\ can_datagram_start(dt).dst = <<>>
  BY DEF can_datagram_start, ReaderOK, Reader
<1>. QED
  BY <1>1, Zenon DEF ReadAt, InVersion

-----------------------------------------------------------------------------
(* The reader of a board that was sent all that came of a datagram, and nothing
   else, is where the next frame begins.                                     *)
ReadsOn(c, s, q, dt) == \E k : Rest(c, s, q, k) /\ ReadAt(dt, c, Cut(c, k - 1))

CleanAt(s) ==
  clean[s] /\ queue[s] # <<>> /\ Readable(current[s]) => ReadsOn(current[s], s, queue[s], reader)

CleanInv ==
  /\ receiver = "client" => \A s \in Source : ~clean[s]
  /\ \A s \in Source : CleanAt(s)

LEMMA CleanBefore ==
  ASSUME StreamInv, ReceiverInv, CleanInv, NEW s \in Source, queue[s] # <<>>, Readable(current[s]),
         clean[s] \/ Head(queue[s]).start
  PROVE  ReadsOn(current[s], s, queue[s], Before(Head(queue[s])))
<1>. DEFINE c == current[s]
            f == Head(queue[s])
<1>1. c \in Content /\ Coming(c, s, queue[s])
  BY Zenon DEF StreamInv
<1>. HIDE DEF c, f
<1>2. CASE f.start
  <2>1. PICK k : Rest(c, s, queue[s], k)
    BY <1>1, Zenon DEF Coming
  <2>2. f = FrameOf(c, s, k)
    BY <1>1, <2>1, ComingNext, Zenon DEF f
  <2>3. FrameOf(c, s, k).start <=> k = 1
    BY DEF FrameOf
  <2>4. k = 1
    BY <1>2, <2>2, <2>3, Zenon
  <2>5. Cut(c, 1 - 1) = 0
    <3>1. 1 \in 1 .. Count(c) /\ 1 - 1 = 0 /\ 0 \in Nat
      BY <1>1, CutFacts, SMT
    <3>2. Cut(c, 1 - 1) = (1 - 1) * FRAME
      BY <1>1, <3>1, CutFacts, Zenon
    <3>3. 0 * FRAME = 0
      BY <3>1, Widths, Multiples, Zenon
    <3>. QED
      BY <3>1, <3>2, <3>3, Zenon
  <2>6. ReadAt(Before(f), c, 0)
    BY <1>2, StartReads, Zenon DEF ReceiverInv, Before
  <2>. QED
    BY <2>1, <2>4, <2>5, <2>6, Zenon DEF ReadsOn, c, f
<1>3. CASE ~f.start
  <2>1. Before(f) = reader
    BY <1>3, Zenon DEF Before
  <2>2. ReadsOn(c, s, queue[s], reader)
    BY <1>3, Zenon DEF CleanInv, CleanAt, c, f
  <2>. QED
    BY <2>1, <2>2, Zenon DEF c, f
<1>. QED
  BY <1>2, <1>3, Zenon

ExecutesWhole ==
  \A s \in Source :
    /\ Len(queue[s]) = 1 /\ queue'[s] = <<>> /\ clean'[s]
    /\ Addressed(current[s]) /\ Len(current[s].data) \in 1 .. DATA_CAP
    => executed'[current[s]] = executed[current[s]] + 1

LEMMA AddressedReadable ==
  ASSUME NEW c \in Content, Addressed(c), Len(c.data) \in 1 .. DATA_CAP
  PROVE  Readable(c)
<1>1. \A i \in 1 .. 0 : FALSE
  BY SMT
<1>. QED
  BY <1>1, Zenon DEF Addressed, Readable

(* What a frame makes of the reader that was sent all before it. *)
LEMMA CleanFrame ==
  ASSUME StreamInv, ReceiverInv, CleanInv, NEW s \in Source, queue[s] # <<>>, Readable(current[s]),
         clean[s] \/ Head(queue[s]).start,
         NEW dt, dt = After(Head(queue[s]))
  PROVE  /\ Tail(queue[s]) = <<>> => /\ can_datagram_is_complete(dt) /\ can_datagram_is_valid(dt)
                                     /\ ContentOf(dt) = current[s]
         /\ Tail(queue[s]) # <<>> => /\ ~can_datagram_is_complete(dt)
                                     /\ ReadsOn(current[s], s, Tail(queue[s]), dt)
<1>. DEFINE c == current[s]
            f == Head(queue[s])
            q == Tail(queue[s])
<1>1. c \in Content
  BY Zenon DEF StreamInv
<1>. HIDE DEF c
<1>2. PICK k : Rest(c, s, queue[s], k) /\ ReadAt(Before(f), c, Cut(c, k - 1))
  BY CleanBefore, Zenon DEF ReadsOn, c
<1>3. k \in 1 .. Count(c) /\ f = FrameOf(c, s, k) /\ Rest(c, s, q, k + 1)
  BY <1>1, <1>2, ComingNext, Zenon
<1>4. Readable(c) /\ ReaderOK(Before(f))
  BY ReaderStarts, Zenon DEF ReceiverInv, Before, c
<1>. HIDE DEF f, q
<1>5. ReaderOK(dt) /\ ReadAt(dt, c, Cut(c, k))
  <2>1. dt = Feed(Before(f), FrameOf(c, s, k).bytes)
    BY <1>3, Zenon DEF After, f
  <2>. QED
    BY <1>1, <1>2, <1>3, <1>4, <2>1, FrameReads, Zenon
<1>6. q = <<>> <=> Cut(c, k) = Size(c)
  BY <1>1, <1>3, RestEnds, Zenon
<1>7. ASSUME q = <<>> PROVE can_datagram_is_complete(dt) /\ can_datagram_is_valid(dt) /\ ContentOf(dt) = c
  BY <1>1, <1>4, <1>5, <1>6, <1>7, WholeIsRead, Zenon
<1>8. ASSUME q # <<>> PROVE ~can_datagram_is_complete(dt) /\ ReadsOn(c, s, q, dt)
  <2>1. Count(c) \in Nat /\ Size(c) \in Nat
    BY <1>1, CutFacts, Zenon
  <2>2. k \in Nat /\ (k + 1) - 1 = k
    BY <1>3, <2>1, SMT
  <2>3. PICK p \in Nat : p = Cut(c, k) /\ p < Size(c)
    <3>1. Cut(c, k) \in 0 .. Size(c)
      BY <1>1, <2>2, CutFacts, Zenon
    <3>2. Cut(c, k) # Size(c)
      BY <1>6, <1>8, Zenon
    <3>3. \A a, n : n \in Nat /\ a \in 0 .. n /\ a # n => a \in Nat /\ a < n
      BY SMT
    <3>. QED
      BY <2>1, <3>1, <3>2, <3>3, Zenon
  <2>4. ~can_datagram_is_complete(dt)
    BY <1>1, <1>4, <1>5, <2>3, ByteReads, Zenon
  <2>5. Rest(c, s, q, k + 1) /\ ReadAt(dt, c, Cut(c, (k + 1) - 1))
    BY <1>3, <1>5, <2>2, Zenon
  <2>. QED
    BY <2>4, <2>5, Zenon DEF ReadsOn
<1>. QED
  BY <1>7, <1>8, Zenon DEF c, q

(* A frame that reaches the board. *)
LEMMA CleanOfBoard ==
  ASSUME StreamInv, ReceiverInv, CleanInv, NEW s \in Source, queue[s] # <<>>,
         queue' = [queue EXCEPT ![s] = Tail(@)], current' = current, Receive(Head(queue[s])),
         clean' = [t \in Source |-> t = s /\ (clean[s] \/ Head(queue[s]).start)]
  PROVE  /\ \A t \in Source : CleanAt(t)'
         /\ ExecutesWhole
<1>. DEFINE c == current[s]
            dt == After(Head(queue[s]))
<1>1. /\ c \in Content /\ queue'[s] = Tail(queue[s]) /\ executed \in [Content -> Nat]
      /\ current \in [Source -> Content]
      /\ \A t \in Source : t # s => queue'[t] = queue[t] /\ ~clean'[t]
      /\ clean'[s] => clean[s] \/ Head(queue[s]).start
  BY Zenon DEF StreamInv
<1>2. /\ can_datagram_is_complete(dt) =>
           executed' = IF can_datagram_is_valid(dt) /\ Addressed(ContentOf(dt))
                         THEN [executed EXCEPT ![ContentOf(dt)] = @ + 1] ELSE executed
      /\ ~can_datagram_is_complete(dt) => reader' = dt
  BY Zenon DEF Receive, After, Before
<1>3. ASSUME clean'[s], Readable(c)
      PROVE  /\ queue'[s] = <<>> => can_datagram_is_complete(dt) /\ can_datagram_is_valid(dt) /\ ContentOf(dt) = c
             /\ queue'[s] # <<>> => ~can_datagram_is_complete(dt) /\ ReadsOn(c, s, queue'[s], dt)
  BY <1>1, <1>3, CleanFrame, Zenon
<1>. HIDE DEF c, dt
<1>4. ASSUME NEW t \in Source PROVE CleanAt(t)'
  <2>1. CASE t = s
    <3>1. ASSUME clean'[s], queue'[s] # <<>>, Readable(c) PROVE ReadsOn(c, s, queue'[s], reader')
      BY <1>2, <1>3, <3>1, Zenon
    <3>2. CleanAt(s)' <=> (clean'[s] /\ queue'[s] # <<>> /\ Readable(c) => ReadsOn(c, s, queue'[s], reader'))
      BY Zenon DEF CleanAt, ReadsOn, ReadAt, InVersion, InCrc, InDstLen, InDst, InDataLen, InData, InTrailing, c
    <3>. QED
      BY <2>1, <3>1, <3>2, Zenon
  <2>2. CASE t # s
    BY <1>1, <2>2, Zenon DEF CleanAt
  <2>. QED
    BY <2>1, <2>2, Zenon
<1>5. ExecutesWhole
  <2>. SUFFICES ASSUME NEW t \in Source, queue'[t] = <<>>, clean'[t],
                       Addressed(current[t]), Len(current[t].data) \in 1 .. DATA_CAP
                PROVE  executed'[current[t]] = executed[current[t]] + 1
    BY Zenon DEF ExecutesWhole
  <2>1. t = s
    BY <1>1, Zenon
  <2>2. Readable(c)
    BY <1>1, <2>1, AddressedReadable, Zenon DEF c
  <2>3. can_datagram_is_complete(dt) /\ can_datagram_is_valid(dt) /\ ContentOf(dt) = c
    BY <1>3, <2>1, <2>2, Zenon
  <2>4. Addressed(ContentOf(dt))
    BY <2>1, <2>3, Zenon DEF c
  <2>5. executed' = [executed EXCEPT ![c] = @ + 1]
    BY <1>2, <2>3, <2>4, Zenon
  <2>. QED
    BY <1>1, <2>1, <2>5, Zenon DEF c
<1>. QED
  BY <1>4, <1>5, Zenon

LEMMA CleanInit == Init => CleanInv
<1>. SUFFICES ASSUME Init PROVE CleanInv
  OBVIOUS
<1>1. \A s \in Source : ~clean[s]
  BY Zenon DEF Init
<1>. QED
  BY <1>1, Zenon DEF CleanInv, CleanAt

LEMMA CleanStays ==
  ASSUME CleanInv, NEW t \in Source, queue'[t] = queue[t], current'[t] = current[t],
         reader' = reader, clean'[t] = clean[t]
  PROVE  CleanAt(t)'
<1>1. CleanAt(t)
  BY Zenon DEF CleanInv
<1>. QED
  BY <1>1, Zenon DEF CleanAt, ReadsOn, ReadAt, InVersion, InCrc, InDstLen, InDst, InDataLen, InData, InTrailing

LEMMA CleanStep ==
  StreamInv /\ ReceiverInv /\ CleanInv /\ [Next]_vars => CleanInv' /\ (Next => ExecutesWhole)
<1>. SUFFICES ASSUME StreamInv, ReceiverInv, CleanInv, [Next]_vars
              PROVE  CleanInv' /\ (Next => ExecutesWhole)
  OBVIOUS
<1>1. \A s \in Source : Len(queue[s]) = 1 => queue[s] # <<>>
  <2>1. Len(<<>>) # 1
    OBVIOUS
  <2>. QED
    BY <2>1, Zenon
<1>2. CASE \E s \in Source : Send(s)
  <2>1. PICK s \in Source : Send(s)
    BY <1>2, Zenon
  <2>2. PICK f : queue' = [queue EXCEPT ![s] = f]
    BY <2>1, Zenon DEF Send
  <2>3. PICK c \in Content : current' = [current EXCEPT ![s] = c]
    BY <2>1, Zenon DEF Send
  <2>4. queue[s] = <<>> /\ clean' = [clean EXCEPT ![s] = FALSE] /\ reader' = reader /\ receiver' = receiver
    BY <2>1, Zenon DEF Send
  <2>5. ASSUME NEW t \in Source, t # s PROVE queue'[t] = queue[t] /\ current'[t] = current[t] /\ clean'[t] = clean[t]
    BY <2>2, <2>3, <2>4, <2>5, Zenon DEF StreamInv
  <2>6. ~clean'[s]
    BY <2>4, Zenon DEF StreamInv
  <2>7. ASSUME NEW t \in Source PROVE CleanAt(t)' /\ (clean'[t] => clean[t])
    <3>1. CASE t = s
      BY <2>6, <3>1, Zenon DEF CleanAt
    <3>2. CASE t # s
      BY <2>4, <2>5, <3>2, CleanStays, Zenon
    <3>. QED
      BY <3>1, <3>2, Zenon
  <2>8. ExecutesWhole
    BY <1>1, <2>5, <2>6, Zenon DEF ExecutesWhole
  <2>. QED
    BY <2>4, <2>7, <2>8, Zenon DEF CleanInv
<1>3. CASE \E s \in Source : Lose(s)
  <2>1. PICK s \in Source : Lose(s)
    BY <1>3, Zenon
  <2>2. /\ queue' = [queue EXCEPT ![s] = Tail(@)] /\ clean' = [clean EXCEPT ![s] = FALSE]
        /\ reader' = reader /\ receiver' = receiver /\ current' = current
    BY <2>1, Zenon DEF Lose
  <2>3. ASSUME NEW t \in Source, t # s PROVE queue'[t] = queue[t] /\ clean'[t] = clean[t]
    BY <2>2, <2>3, Zenon DEF StreamInv
  <2>4. ~clean'[s]
    BY <2>2, Zenon DEF StreamInv
  <2>5. ASSUME NEW t \in Source PROVE CleanAt(t)' /\ (clean'[t] => clean[t])
    <3>1. CASE t = s
      BY <2>4, <3>1, Zenon DEF CleanAt
    <3>2. CASE t # s
      BY <2>2, <2>3, <3>2, CleanStays, Zenon
    <3>. QED
      BY <3>1, <3>2, Zenon
  <2>6. ExecutesWhole
    BY <1>1, <2>3, <2>4, Zenon DEF ExecutesWhole
  <2>. QED
    BY <2>2, <2>5, <2>6, Zenon DEF CleanInv
<1>4. CASE \E s \in Source : Deliver(s)
  <2>1. PICK s \in Source : Deliver(s)
    BY <1>4, Zenon
  <2>2. queue[s] # <<>> /\ queue' = [queue EXCEPT ![s] = Tail(@)] /\ current' = current /\ receiver' = receiver
    BY <2>1, Zenon DEF Deliver
  <2>3. CASE /\ receiver = "board" /\ Receive(Head(queue[s]))
             /\ clean' = [t \in Source |-> t = s /\ (clean[s] \/ Head(queue[s]).start)]
    <3>1. (\A t \in Source : CleanAt(t)') /\ ExecutesWhole
      BY <2>2, <2>3, CleanOfBoard, Zenon
    <3>2. receiver' # "client"
      <4>1. "board" # "client"
        OBVIOUS
      <4>. QED
        BY <2>2, <2>3, <4>1, Zenon
    <3>. QED
      BY <3>1, <3>2, Zenon DEF CleanInv
  <2>4. CASE receiver = "client" /\ UNCHANGED board
    <3>1. clean' = clean /\ \A t \in Source : ~clean[t]
      BY <2>4, Zenon DEF board, CleanInv
    <3>. QED
      BY <2>2, <3>1, Zenon DEF CleanInv, CleanAt, ExecutesWhole
  <2>. QED
    BY <2>1, <2>3, <2>4, Zenon DEF Deliver
<1>5. CASE Restart
  <2>1. \A s \in Source : ~clean'[s]
    BY <1>5, Zenon DEF Restart
  <2>. QED
    BY <2>1, Zenon DEF CleanInv, CleanAt, ExecutesWhole
<1>6. CASE NewReader \/ UNCHANGED vars
  <2>1. reader' = reader /\ clean' = clean /\ queue' = queue /\ current' = current /\ receiver' = receiver
    <3>1. CASE NewReader
      BY <3>1, Zenon DEF NewReader, board
    <3>2. CASE UNCHANGED vars
      BY <3>2, Zenon DEF vars, board
    <3>. QED
      BY <1>6, <3>1, <3>2, Zenon
  <2>2. \A t \in Source : CleanAt(t)'
    BY <2>1, CleanStays, Zenon
  <2>. QED
    BY <1>1, <2>1, <2>2, Zenon DEF CleanInv, ExecutesWhole
<1>. QED
  BY <1>2, <1>3, <1>4, <1>5, <1>6, Zenon DEF Next

(* A datagram for the board that reaches it whole, with no other frame in
   between, is executed when its last frame comes, whatever its length and
   whatever lost, mixed or cut datagrams left in the reader before it.     *)
THEOREM CleanDelivers == Spec => CleanDelivery
<1>1. StreamInv /\ ReceiverInv /\ CleanInv /\ [Next]_vars =>
        [\A s \in Source :
           /\ Len(queue[s]) = 1 /\ queue'[s] = <<>> /\ clean'[s]
           /\ Addressed(current[s]) /\ Len(current[s].data) \in 1 .. DATA_CAP
           => executed'[current[s]] = executed[current[s]] + 1]_vars
  BY CleanStep, Zenon DEF ExecutesWhole
<1>. QED
  BY <1>1, StreamInit, StreamStep, ReceiverInit, ReceiverStep, CleanInit, CleanStep, PTL DEF Spec, CleanDelivery

=============================================================================
