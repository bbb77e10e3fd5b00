------------------------- MODULE FlashCommandsProofs -------------------------
(***************************************************************************)
(* For every layout whose application starts on a page of its own: no      *)
(* command changes the bootloader or its configuration, and, as long as    *)
(* commands write within a page (or, on the F1 and F3, wherever they       *)
(* write), an erase that answers true has erased.                          *)
(***************************************************************************)
EXTENDS FlashCommands, SequenceTheorems, TLAPS

(* A sector that is marked has not been written since it was erased, and
   writers that always erase mark none. *)
MarkInv ==
  \A p \in Page : sector_erased[p] => skips_erased /\ \A a \in Cells(p) : flash[a] = Erased

FlashInv == TypeOK /\ MarkInv

-----------------------------------------------------------------------------
(* An erase touches the cells of its page, and marks it only if erased. *)
LEMMA PageEraseEffect ==
  ASSUME TypeOK, NEW a \in Flash, PageErase(PageOf[a]), UNCHANGED skips_erased
  PROVE  /\ flash' \in [Flash -> Datum \cup {Erased}]
         /\ sector_erased' \in [Page -> BOOLEAN]
         /\ \A x \in Flash : PageOf[x] # PageOf[a] => flash'[x] = flash[x]
         /\ MarkInv => MarkInv'
         /\ MarkInv => \A x \in Cells(PageOf[a]) : flash'[x] = Erased
<1>. DEFINE p == PageOf[a]
<1>1. p \in Page
  BY DEF Page
<1>2. Emptied(p) \in [Flash -> Datum \cup {Erased}]
  BY DEF Emptied, TypeOK
<1>3. \A x \in Flash : Emptied(p)[x] = IF PageOf[x] = p THEN Erased ELSE flash[x]
  BY DEF Emptied, Cells
<1>4. CASE ~skips_erased
  <2>1. flash' = Emptied(p) /\ sector_erased' = sector_erased
    BY <1>4 DEF PageErase, EraseAlways
  <2>. QED
    BY <1>2, <1>3, <1>4, <2>1 DEF TypeOK, MarkInv, Cells
<1>5. CASE skips_erased
  <2>1. /\ flash' = IF sector_erased[p] THEN flash ELSE Emptied(p)
        /\ sector_erased' = [sector_erased EXCEPT ![p] = TRUE]
    BY <1>5 DEF PageErase, EraseUnlessMarked
  <2>2. sector_erased' \in [Page -> BOOLEAN] /\ flash' \in [Flash -> Datum \cup {Erased}]
    BY <1>1, <1>2, <2>1 DEF TypeOK
  <2>3. \A x \in Flash : PageOf[x] # p => flash'[x] = flash[x]
    BY <1>3, <2>1
  <2>4. MarkInv => \A x \in Cells(p) : flash'[x] = Erased
    BY <1>1, <1>3, <2>1 DEF MarkInv, Cells
  <2>5. MarkInv => MarkInv'
    <3>. SUFFICES ASSUME MarkInv, NEW q \in Page, sector_erased'[q]
                  PROVE  skips_erased /\ \A x \in Cells(q) : flash'[x] = Erased
      BY DEF MarkInv
    <3>1. CASE q = p
      BY <1>5, <2>4, <3>1
    <3>2. CASE q # p
      BY <1>5, <2>1, <2>3, <3>2 DEF MarkInv, Cells, TypeOK
    <3>. QED
      BY <3>1, <3>2
  <2>. QED
    BY <2>2, <2>3, <2>4, <2>5
<1>. QED
  BY <1>4, <1>5

(* What a half-word writer programs is the data, and for an odd length one
   byte more, which an erased last cell makes an erased one. *)
LEMMA HalfWordsTypes ==
  ASSUME TypeOK, NEW a \in Flash, NEW n \in 1 .. MaxLen, NEW data \in [1 .. n -> Datum]
  PROVE  /\ HalfWords(a, data) \in Seq(Datum \cup {Erased})
         /\ Len(HalfWords(a, data)) \in {n, n + 1}
         /\ Len(HalfWords(a, data)) % 2 = 0
         /\ \A i \in 1 .. n : HalfWords(a, data)[i] = data[i]
         /\ Len(HalfWords(a, data)) = n + 1 /\ (a + n - 1 \in Flash => flash[a + n - 1] = Erased)
              => HalfWords(a, data)[n + 1] = Erased
<1>1. n \in Nat \ {0} /\ Len(data) = n /\ data \in Seq(Datum \cup {Erased})
  BY LayoutAssumption
<1>2. CASE n % 2 = 0
  BY <1>1, <1>2 DEF HalfWords
<1>3. CASE n % 2 # 0
  <2>. DEFINE last == a + n - 1
              byte == IF last \in Flash THEN flash[last] ELSE Erased
  <2>1. HalfWords(a, data) = Append(data, byte)
    BY <1>1, <1>3 DEF HalfWords
  <2>2. byte \in Datum \cup {Erased}
    BY DEF TypeOK
  <2>3. (n + 1) % 2 = 0
    BY <1>1, <1>3
  <2>. HIDE DEF byte
  <2>4. /\ Append(data, byte) \in Seq(Datum \cup {Erased}) /\ Len(Append(data, byte)) = n + 1
        /\ \A i \in 1 .. n : Append(data, byte)[i] = data[i]
        /\ Append(data, byte)[n + 1] = byte
    BY <1>1, <2>2, AppendProperties
  <2>. QED
    BY <2>1, <2>3, <2>4 DEF byte
<1>. QED
  BY <1>2, <1>3

(* A write touches no cell below its address; when it stays in a page, it
   unmarks that page and touches no other (F4). *)
LEMMA WriteBytesEffect ==
  ASSUME TypeOK, NEW a \in Flash, NEW data, Len(data) \in Nat, WriteBytes(a, data),
         UNCHANGED skips_erased
  PROVE  /\ flash' \in [Flash -> Datum \cup {Erased}]
         /\ sector_erased' \in [Page -> BOOLEAN]
         /\ \A x \in Flash : x < a => flash'[x] = flash[x]
         /\ MarkInv /\ (\A x \in a .. a + Len(data) - 1 : PageOf[x] = PageOf[a]) => MarkInv'
<1>1. PICK new \in [Span(a, Len(data)) -> Datum] :
        flash' = [x \in Flash |-> IF x \in DOMAIN new THEN new[x] ELSE flash[x]]
  BY DEF WriteBytes, Programmed
<1>2. sector_erased' = [sector_erased EXCEPT ![PageOf[a]] = FALSE]
  BY DEF WriteBytes
<1>3. flash' \in [Flash -> Datum \cup {Erased}]
  BY <1>1 DEF TypeOK
<1>4. sector_erased' \in [Page -> BOOLEAN]
  BY <1>2 DEF TypeOK
<1>5. \A x \in Flash : x < a => flash'[x] = flash[x]
  BY <1>1, LayoutAssumption DEF Flash, Span
<1>6. ASSUME MarkInv, \A x \in a .. a + Len(data) - 1 : PageOf[x] = PageOf[a]
      PROVE  MarkInv'
  <2>. SUFFICES ASSUME NEW p \in Page, sector_erased'[p]
                PROVE  skips_erased /\ \A x \in Cells(p) : flash'[x] = Erased
    BY DEF MarkInv
  <2>1. PageOf[a] \in Page
    BY DEF Page
  <2>2. p # PageOf[a] /\ sector_erased[p] /\ skips_erased
    BY <1>2, <1>6, <2>1 DEF TypeOK, MarkInv
  <2>. SUFFICES ASSUME NEW x \in Cells(p)
                PROVE  flash'[x] = Erased
    BY <2>2
  <2>3. x \in Flash /\ x \notin Span(a, Len(data))
    BY <1>6, <2>2 DEF Cells, Span
  <2>. QED
    BY <1>1, <1>6, <2>2, <2>3 DEF MarkInv
<1>. QED
  BY <1>3, <1>4, <1>5, <1>6

(* On the F1 and F3, which have no marks, it touches no cell below either. *)
LEMMA WriteHalfWordsEffect ==
  ASSUME TypeOK, NEW a \in Flash, NEW n \in 1 .. MaxLen, NEW data \in [1 .. n -> Datum],
         WriteHalfWords(a, data), UNCHANGED skips_erased, ~skips_erased
  PROVE  /\ flash' \in [Flash -> Datum \cup {Erased}]
         /\ sector_erased' \in [Page -> BOOLEAN]
         /\ \A x \in Flash : x < a => flash'[x] = flash[x]
         /\ MarkInv => MarkInv'
<1>. DEFINE words == HalfWords(a, data)
<1>0. words \in Seq(Datum \cup {Erased}) /\ Len(words) \in Nat
  BY HalfWordsTypes
<1>. HIDE DEF words
<1>1. PICK done : flash' = [x \in Flash |->
        IF x \in Span(a, Len(words)) /\ HalfWordOf(a, x) \in done THEN words[x - a + 1] ELSE flash[x]]
  BY DEF WriteHalfWords, words
<1>2. sector_erased' = sector_erased
  BY DEF WriteHalfWords
<1>3. \A x \in Span(a, Len(words)) : words[x - a + 1] \in Datum \cup {Erased}
  <2>. SUFFICES ASSUME NEW x \in Span(a, Len(words)) PROVE words[x - a + 1] \in Datum \cup {Erased}
    OBVIOUS
  <2>1. x - a + 1 \in 1 .. Len(words)
    BY <1>0, LayoutAssumption DEF Span, Flash
  <2>. QED
    BY <1>0, <2>1
<1>4. flash' \in [Flash -> Datum \cup {Erased}]
  BY <1>1, <1>3 DEF TypeOK
<1>5. \A x \in Flash : x < a => flash'[x] = flash[x]
  BY <1>1, LayoutAssumption DEF Flash, Span
<1>6. MarkInv => MarkInv'
  BY <1>2 DEF MarkInv
<1>. QED
  BY <1>2, <1>4, <1>5, <1>6 DEF TypeOK

(* The same of any writer, with the writes that InPage allows. *)
LEMMA PageWriteEffect ==
  ASSUME TypeOK, NEW a \in Flash, NEW data \in Writes(a), PageWrite(a, data), UNCHANGED skips_erased
  PROVE  /\ flash' \in [Flash -> Datum \cup {Erased}]
         /\ sector_erased' \in [Page -> BOOLEAN]
         /\ \A x \in Flash : x < a => flash'[x] = flash[x]
         /\ InPage /\ MarkInv => MarkInv'
<1>1. PICK n \in 1 .. MaxLen : data \in [1 .. n -> Datum]
  BY DEF Writes
<1>2. Len(data) \in Nat
  BY <1>1, LayoutAssumption
<1>3. CASE skips_erased
  <2>1. InPage => \A x \in a .. a + Len(data) - 1 : PageOf[x] = PageOf[a]
    BY <1>3 DEF Writes
  <2>. QED
    BY <1>2, <1>3, <2>1, WriteBytesEffect DEF PageWrite
<1>4. CASE ~skips_erased
  BY <1>1, <1>4, WriteHalfWordsEffect DEF PageWrite
<1>. QED
  BY <1>3, <1>4

(* The addresses that pass the check of the commands are cells. *)
LEMMA AppIsFlash == \A a \in Address : InApp(a) => a \in Flash
BY LayoutAssumption DEF Address, InApp, Flash

-----------------------------------------------------------------------------
(* Every variable stays in its type. *)
LEMMA TypeStep == TypeOK /\ [Next]_vars => TypeOK'
<1>. SUFFICES ASSUME TypeOK, [Next]_vars PROVE TypeOK'
  OBVIOUS
<1>1. ASSUME NEW a \in Address, NEW c \in Argument, EraseCommand(a, c)
      PROVE  TypeOK'
  <2>1. stack_class' \in Class \cup {Unreadable}
    BY <1>1 DEF EraseCommand, RememberClass, ClassSeen, Argument, TypeOK
  <2>2. CASE InApp(a) /\ ClassSeen(c) = device_class
    BY <1>1, <2>1, <2>2, AppIsFlash, PageEraseEffect DEF EraseCommand, TypeOK
  <2>3. CASE ~(InApp(a) /\ ClassSeen(c) = device_class)
    BY <1>1, <2>1, <2>3 DEF EraseCommand, TypeOK
  <2>. QED
    BY <2>2, <2>3
<1>2. ASSUME NEW a \in Address, NEW c \in Argument, NEW data \in Writes(a), WriteCommand(a, c, data)
      PROVE  TypeOK'
  <2>1. stack_class' \in Class \cup {Unreadable}
    BY <1>2 DEF WriteCommand, RememberClass, ClassSeen, Argument, TypeOK
  <2>2. CASE InApp(a) /\ ClassSeen(c) = device_class /\ c # Unreadable
    BY <1>2, <2>1, <2>2, AppIsFlash, PageWriteEffect DEF WriteCommand, TypeOK
  <2>3. CASE ~(InApp(a) /\ ClassSeen(c) = device_class /\ c # Unreadable)
    BY <1>2, <2>1, <2>3 DEF WriteCommand, TypeOK
  <2>. QED
    BY <2>2, <2>3
<1>3. ASSUME NEW size \in 0 .. MaxLen, ReadCommand(size)
      PROVE  TypeOK'
  BY <1>3 DEF ReadCommand, TypeOK
<1>4. CASE InvalidCommand \/ UnknownCommand \/ WrongVersion
  BY <1>4 DEF InvalidCommand, UnknownCommand, WrongVersion, BadCommand, TypeOK
<1>5. ASSUME NEW c \in Argument, UpdateClass(c)
      PROVE  TypeOK'
  BY <1>5 DEF UpdateClass, Argument, TypeOK
<1>6. CASE Restart
  BY <1>6 DEF Restart, TypeOK
<1>7. CASE UNCHANGED vars
  BY <1>7 DEF vars, TypeOK
<1>. QED
  BY <1>1, <1>2, <1>3, <1>4, <1>5, <1>6, <1>7 DEF Next

(* The contents of cells, the marks and the classes stay in their types,
   whatever arguments the commands come with. *)
THEOREM TypeCorrect == Spec => []TypeOK
<1>1. Init => TypeOK
  BY DEF Init, TypeOK
<1>. QED
  BY <1>1, TypeStep, PTL DEF Spec

(* The bootloader and its configuration are never changed by a command, for
   every address and length it can carry. *)
THEOREM NeverErasesItself == Spec => BootloaderIntact
<1>1. TypeOK /\ [Next]_vars => [KeepsBootloader]_vars
  <2>. SUFFICES ASSUME TypeOK, Next, NEW b \in Flash, b < APP
                PROVE  flash'[b] = flash[b]
    BY DEF KeepsBootloader
  <2>1. ASSUME NEW a \in Address, NEW c \in Argument, EraseCommand(a, c)
        PROVE  flash'[b] = flash[b]
    <3>1. CASE InApp(a) /\ ClassSeen(c) = device_class
      <4>1. a \in Flash /\ PageErase(PageOf[a]) /\ UNCHANGED skips_erased
        BY <2>1, <3>1, AppIsFlash DEF EraseCommand
      <4>2. PageOf[b] # PageOf[a]
        BY <3>1, <4>1, AlignmentAssumption DEF InApp
      <4>. QED
        BY <4>1, <4>2, PageEraseEffect
    <3>2. CASE ~(InApp(a) /\ ClassSeen(c) = device_class)
      BY <2>1, <3>2 DEF EraseCommand
    <3>. QED
      BY <3>1, <3>2
  <2>2. ASSUME NEW a \in Address, NEW c \in Argument, NEW data \in Writes(a),
               WriteCommand(a, c, data)
        PROVE  flash'[b] = flash[b]
    <3>1. CASE InApp(a) /\ ClassSeen(c) = device_class /\ c # Unreadable
      <4>1. a \in Flash /\ PageWrite(a, data) /\ UNCHANGED skips_erased
        BY <2>2, <3>1, AppIsFlash DEF WriteCommand
      <4>2. b < a
        BY <3>1, <4>1, LayoutAssumption DEF InApp, Flash
      <4>. QED
        BY <4>1, <4>2, PageWriteEffect
    <3>2. CASE ~(InApp(a) /\ ClassSeen(c) = device_class /\ c # Unreadable)
      BY <2>2, <3>2 DEF WriteCommand
    <3>. QED
      BY <3>1, <3>2
  <2>3. CASE \/ \E size \in 0 .. MaxLen : ReadCommand(size)
             \/ InvalidCommand \/ UnknownCommand \/ WrongVersion
             \/ \E c \in Argument : UpdateClass(c)
             \/ Restart
    BY <2>3 DEF ReadCommand, InvalidCommand, UnknownCommand, WrongVersion, BadCommand,
                UpdateClass, Restart
  <2>. QED
    BY <2>1, <2>2, <2>3 DEF Next
<1>. QED
  BY <1>1, TypeCorrect, PTL DEF Spec, BootloaderIntact

-----------------------------------------------------------------------------
(* While commands write within a sector of a F4, marks are true. *)
LEMMA MarkStep == InPage /\ FlashInv /\ [Next]_vars => FlashInv'
<1>. SUFFICES ASSUME InPage, FlashInv, [Next]_vars PROVE FlashInv'
  OBVIOUS
<1>. USE DEF FlashInv
<1>1. TypeOK'
  BY TypeStep
<1>2. ASSUME NEW a \in Address, NEW c \in Argument, EraseCommand(a, c)
      PROVE  MarkInv'
  <2>1. CASE InApp(a) /\ ClassSeen(c) = device_class
    BY <1>2, <2>1, AppIsFlash, PageEraseEffect DEF EraseCommand
  <2>2. CASE ~(InApp(a) /\ ClassSeen(c) = device_class)
    BY <1>2, <2>2 DEF EraseCommand, MarkInv
  <2>. QED
    BY <2>1, <2>2
<1>3. ASSUME NEW a \in Address, NEW c \in Argument, NEW data \in Writes(a), WriteCommand(a, c, data)
      PROVE  MarkInv'
  <2>1. CASE InApp(a) /\ ClassSeen(c) = device_class /\ c # Unreadable
    <3>1. a \in Flash /\ PageWrite(a, data) /\ UNCHANGED skips_erased
      BY <1>3, <2>1, AppIsFlash DEF WriteCommand
    <3>. QED
      BY <3>1, PageWriteEffect
  <2>2. CASE ~(InApp(a) /\ ClassSeen(c) = device_class /\ c # Unreadable)
    BY <1>3, <2>2 DEF WriteCommand, MarkInv
  <2>. QED
    BY <2>1, <2>2
<1>4. ASSUME \/ \E size \in 0 .. MaxLen : ReadCommand(size)
             \/ InvalidCommand \/ UnknownCommand \/ WrongVersion
             \/ \E c \in Argument : UpdateClass(c)
      PROVE  MarkInv'
  <2>1. UNCHANGED <<skips_erased, flash, sector_erased>>
    BY <1>4 DEF ReadCommand, InvalidCommand, UnknownCommand, WrongVersion, BadCommand,
                UpdateClass
  <2>. QED
    BY <2>1 DEF MarkInv
<1>5. ASSUME Restart
      PROVE  MarkInv'
  BY <1>5 DEF Restart, MarkInv
<1>6. ASSUME UNCHANGED vars
      PROVE  MarkInv'
  BY <1>6 DEF vars, MarkInv
<1>. QED
  BY <1>1, <1>2, <1>3, <1>4, <1>5, <1>6 DEF Next

(* With writes that stay in a page, as the client's do, or on the F1 and F3
   whatever the writes, an erase that answers true leaves its page erased even
   when the writer skipped it. *)
THEOREM EraseIsTrue ==
  ASSUME InPage
  PROVE  Spec => EraseMeansErased
<1>1. Init => FlashInv
  BY DEF Init, FlashInv, TypeOK, MarkInv
<1>2. FlashInv /\ [Next]_vars => FlashInv'
  BY InPage, MarkStep
<1>3. FlashInv /\ [Next]_vars => [TrueEraseErased]_vars
  <2>. SUFFICES ASSUME FlashInv, Next, asked'.op = "erase", answer'.what = "true"
                PROVE  \A x \in Cells(PageOf[asked'.address]) : flash'[x] = Erased
    BY DEF TrueEraseErased
  <2>1. PICK a \in Address, c \in Argument : EraseCommand(a, c)
    <3>1. ASSUME NEW a \in Address, NEW c \in Argument, NEW data \in Writes(a),
                 WriteCommand(a, c, data)
          PROVE  FALSE
      <4>1. asked' = [op |-> "write", address |-> a, class |-> c, data |-> data]
        BY <3>1 DEF WriteCommand
      <4>. QED
        BY <4>1
    <3>2. ASSUME NEW size \in 0 .. MaxLen, ReadCommand(size)
          PROVE  FALSE
      <4>1. asked' = [op |-> "read", len |-> size]
        BY <3>2 DEF ReadCommand
      <4>. QED
        BY <4>1
    <3>3. ~(InvalidCommand \/ UnknownCommand \/ WrongVersion \/ Restart)
      BY DEF InvalidCommand, UnknownCommand, WrongVersion, BadCommand, Restart
    <3>4. ASSUME NEW c \in Argument, UpdateClass(c)
          PROVE  FALSE
      BY <3>4 DEF UpdateClass
    <3>. QED
      BY <3>1, <3>2, <3>3, <3>4 DEF Next
  <2>2. asked'.address = a
    BY <2>1 DEF EraseCommand
  <2>3. InApp(a) /\ ClassSeen(c) = device_class
    BY <2>1 DEF EraseCommand, AnswerBool, Answer, NoAnswer
  <2>4. a \in Flash /\ PageErase(PageOf[a]) /\ UNCHANGED skips_erased
    BY <2>1, <2>3, AppIsFlash DEF EraseCommand
  <2>. QED
    BY <2>2, <2>4, PageEraseEffect DEF FlashInv
<1>. QED
  BY <1>1, <1>2, <1>3, PTL DEF Spec, EraseMeansErased

-----------------------------------------------------------------------------
(* A write to erased cells leaves its data and nothing else. *)
LEMMA BytesWritten ==
  ASSUME TypeOK, NEW a \in Flash, NEW n \in 1 .. MaxLen, NEW data \in [1 .. n -> Datum],
         WriteBytes(a, data), \A x \in Span(a, n + 1) : flash[x] = Erased
  PROVE  flash' = [x \in Flash |-> IF x \in Span(a, n) THEN data[x - a + 1] ELSE flash[x]]
<1>1. n \in Nat /\ Len(data) = n
  BY LayoutAssumption
<1>2. PICK new \in [Span(a, n) -> Datum] :
        flash' = [x \in Flash |-> IF x \in DOMAIN new THEN new[x] ELSE flash[x]]
  BY <1>1 DEF WriteBytes, Programmed
<1>3. ASSUME NEW x \in Span(a, n) PROVE flash'[x] = data[x - a + 1]
  <2>1. x \in Span(a, n + 1)
    BY <1>1, LayoutAssumption DEF Span, Flash
  <2>. QED
    BY <1>1, <2>1 DEF WriteBytes, Programmed
<1>. QED
  BY <1>2, <1>3 DEF Span

LEMMA HalfWordsWritten ==
  ASSUME TypeOK, NEW a \in Flash, NEW n \in 1 .. MaxLen, NEW data \in [1 .. n -> Datum],
         WriteHalfWords(a, data), a % 2 = 0, \A x \in Span(a, n + 1) : flash[x] = Erased
  PROVE  flash' = [x \in Flash |-> IF x \in Span(a, n) THEN data[x - a + 1] ELSE flash[x]]
<1>. DEFINE words == HalfWords(a, data)
<1>1. n \in Nat \ {0} /\ Len(data) = n /\ a \in Nat
  BY LayoutAssumption DEF Flash
<1>2. a + n - 1 \in Flash => flash[a + n - 1] = Erased
  BY <1>1 DEF Span
<1>3. /\ Len(words) \in {n, n + 1} /\ Len(words) % 2 = 0
      /\ \A i \in 1 .. n : words[i] = data[i]
      /\ Len(words) = n + 1 => words[n + 1] = Erased
  BY <1>2, HalfWordsTypes
<1>. HIDE DEF words
<1>4. PICK done :
        /\ Taken(a, words, done)
        /\ flash' = [x \in Flash |->
             IF x \in Span(a, Len(words)) /\ HalfWordOf(a, x) \in done THEN words[x - a + 1] ELSE flash[x]]
  BY DEF WriteHalfWords, words
<1>5. ASSUME NEW x \in Span(a, Len(words)) PROVE HalfWordOf(a, x) \in done
  <2>. DEFINE h == HalfWordOf(a, x)
  <2>1. x \in Flash /\ x \in Nat /\ a <= x /\ x <= a + Len(words) - 1
    BY <1>1, <1>3, <1>5, LayoutAssumption DEF Span, Flash
  <2>2. h \in Nat /\ a <= h /\ h <= x /\ x <= h + 1 /\ h + 1 <= a + Len(words) - 1
    BY <1>1, <1>3, <2>1 DEF HalfWordOf
  <2>a. h + 1 <= a + n
    BY <1>1, <1>3, <2>2
  <2>. HIDE DEF h
  <2>b. h .. h + 2 - 1 \subseteq a .. a + (n + 1) - 1
    BY ONLY <1>1, <2>2, <2>a
  <2>3. \A y \in Span(h, 2) : y \in Span(a, n + 1)
    BY <2>b DEF Span
  <2>4. Blank(h)
    BY <2>3 DEF Blank
  <2>. QED
    BY <1>4, <1>5, <2>4 DEF Taken, h
<1>6. ASSUME NEW x \in Flash
      PROVE  flash'[x] = IF x \in Span(a, n) THEN data[x - a + 1] ELSE flash[x]
  <2>0. x \in Nat
    BY LayoutAssumption DEF Flash
  <2>1. CASE x \in Span(a, n)
    <3>1. x \in Span(a, Len(words)) /\ x - a + 1 \in 1 .. n
      BY <1>1, <1>3, <2>0, <2>1 DEF Span
    <3>. QED
      BY <1>3, <1>4, <1>5, <2>1, <3>1
  <2>2. CASE x \in Span(a, Len(words)) \ Span(a, n)
    <3>1. Len(words) = n + 1 /\ x = a + n /\ x \in Span(a, n + 1)
      BY <1>1, <1>3, <2>0, <2>2 DEF Span
    <3>2. x - a + 1 = n + 1 /\ flash[x] = Erased
      BY <1>1, <3>1
    <3>. QED
      BY <1>3, <1>4, <1>5, <2>2, <3>1, <3>2
  <2>3. CASE x \notin Span(a, Len(words))
    <3>1. x \notin Span(a, n)
      BY <1>1, <1>3, <2>0, <2>3 DEF Span
    <3>. QED
      BY <1>4, <2>3, <3>1
  <2>. QED
    BY <2>1, <2>2, <2>3
<1>. QED
  BY <1>4, <1>6

(* A write that answers true to erased cells leaves its data there and every
   other cell as it was, whatever its length and the layout. *)
THEOREM WriteIsTrue == Spec => WriteMeansWritten
<1>1. TypeOK /\ [Next]_vars => [TrueWriteWritten]_vars
  <2>. SUFFICES ASSUME TypeOK, Next, asked'.op = "write", answer'.what = "true",
                       \A x \in Span(asked'.address, Len(asked'.data) + 1) : flash[x] = Erased,
                       skips_erased \/ asked'.address % 2 = 0
                PROVE  flash' = [x \in Flash |-> IF x \in Span(asked'.address, Len(asked'.data))
                                                 THEN asked'.data[x - asked'.address + 1] ELSE flash[x]]
    BY DEF TrueWriteWritten
  <2>1. PICK a \in Address, c \in Argument : \E d \in Writes(a) : WriteCommand(a, c, d)
    <3>1. ASSUME NEW a \in Address, NEW c \in Argument, EraseCommand(a, c)
          PROVE  FALSE
      <4>1. asked' = [op |-> "erase", address |-> a, class |-> c]
        BY <3>1 DEF EraseCommand
      <4>. QED
        BY <4>1
    <3>2. ASSUME NEW size \in 0 .. MaxLen, ReadCommand(size)
          PROVE  FALSE
      <4>1. asked' = [op |-> "read", len |-> size]
        BY <3>2 DEF ReadCommand
      <4>. QED
        BY <4>1
    <3>3. ~(InvalidCommand \/ UnknownCommand \/ WrongVersion \/ Restart)
      BY DEF InvalidCommand, UnknownCommand, WrongVersion, BadCommand, Restart
    <3>4. ASSUME NEW c \in Argument, UpdateClass(c)
          PROVE  FALSE
      BY <3>4 DEF UpdateClass
    <3>. QED
      BY <3>1, <3>2, <3>3, <3>4 DEF Next
  <2>2. PICK data \in Writes(a) : WriteCommand(a, c, data)
    BY <2>1
  <2>3. asked'.address = a /\ asked'.data = data /\ skips_erased' = skips_erased
    BY <2>2 DEF WriteCommand
  <2>4. InApp(a) /\ ClassSeen(c) = device_class /\ c # Unreadable
    BY <2>2 DEF WriteCommand, AnswerBool, Answer, NoAnswer
  <2>5. a \in Flash /\ PageWrite(a, data)
    BY <2>2, <2>4, AppIsFlash DEF WriteCommand
  <2>6. PICK n \in 1 .. MaxLen : data \in [1 .. n -> Datum]
    BY DEF Writes
  <2>7. Len(data) = n
    BY <2>6, LayoutAssumption
  <2>8. flash' = [x \in Flash |-> IF x \in Span(a, n) THEN data[x - a + 1] ELSE flash[x]]
    BY <2>3, <2>5, <2>6, <2>7, BytesWritten, HalfWordsWritten DEF PageWrite
  <2>. QED
    BY <2>3, <2>7, <2>8
<1>. QED
  BY <1>1, TypeCorrect, PTL DEF Spec, WriteMeansWritten
=============================================================================
