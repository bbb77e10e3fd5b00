---------------------------- MODULE FlashCommands ----------------------------
(***************************************************************************)
(* The commands that touch the flash of a board (command.c), on top of the *)
(* flash writers of the STM32 families (platform/mcu), with the answer the *)
(* loop of bootloader_main sends for each.                                 *)
(*                                                                         *)
(* An address is a cell.  The bootloader and its configuration are below   *)
(* APP, the application from APP to APP_END, and nothing above.            *)
(***************************************************************************)
EXTENDS Integers, Sequences

CONSTANTS
  APP,          (* memory_get_app_addr()                                       *)
  APP_END,      (* memory_get_app_addr() + memory_get_app_size()               *)
  TOP,          (* bound: commands name addresses below this                   *)
  PageOf,       (* the page (F1, F3) or sector (F4) of every cell              *)
  InPage,       (* on the F4, commands write within a sector, as the client's  *)
  Datum,        (* what a cell can hold                                        *)
  Erased,       (* an erased cell                                              *)
  Class,        (* device classes                                              *)
  Unreadable,   (* a class argument that cmp_read_str refuses                  *)
  MaxLen,       (* bound: cells written or read by a command                   *)
  BYTE,         (* one more than the largest length of an answer (256)         *)
  OUT_CAP,      (* sizeof(output_buf)                                          *)
  BIN_HEADER    (* bytes MessagePack puts before binary data                   *)

Flash == 0 .. APP_END - 1
InApp(a) == APP <= a /\ a < APP_END

ASSUME LayoutAssumption ==
  /\ {APP, APP_END, TOP, MaxLen, OUT_CAP, BIN_HEADER} \subseteq Nat
  /\ APP < APP_END /\ APP_END <= TOP
  /\ BYTE \in Nat \ {0}
  /\ InPage \in BOOLEAN
  /\ Erased \notin Datum /\ Unreadable \notin Class
  /\ DOMAIN PageOf = Flash

(* The linker scripts start the application on a page of its own. *)
ASSUME AlignmentAssumption ==
  \A a, b \in Flash : a < APP /\ APP <= b => PageOf[a] # PageOf[b]

Page == {PageOf[a] : a \in Flash}
Cells(p) == {a \in Flash : PageOf[a] = p}

VARIABLES
  skips_erased,   (* the board is a F4: it erases a sector once until written   *)
  flash,          (* the cells                                                  *)
  sector_erased,  (* of the F4 writer, by page                                  *)
  device_class,   (* of the configuration in RAM                                *)
  stack_class,    (* what the uninitialised device_class of a command holds     *)
  asked,          (* history: the last command                                  *)
  answer          (* history: its answer, and the length of that                *)

vars == <<skips_erased, flash, sector_erased, device_class, stack_class, asked, answer>>

NoAnswer == [what |-> "none", len |-> 0]

Init ==
  /\ skips_erased \in BOOLEAN
  /\ flash \in [Flash -> Datum \cup {Erased}]
  /\ \A a \in Flash : a < APP => flash[a] # Erased
  /\ sector_erased = [p \in Page |-> FALSE]
  /\ device_class \in Class
  /\ stack_class = Unreadable
  /\ asked = [op |-> "none"]
  /\ answer = NoAnswer

-----------------------------------------------------------------------------
(* uint8_t len = protocol_execute_command(...); an answer is sent if len > 0. *)
Answer(what, result) ==
  answer' = IF result % BYTE = 0 THEN NoAnswer ELSE [what |-> what, len |-> result % BYTE]

(* cmp_write_bool *)
AnswerBool(b) == Answer(IF b THEN "true" ELSE "false", 1)

(* The class a command compares: what it read, or what its stack holds. *)
ClassSeen(c) == IF c = Unreadable THEN stack_class ELSE c

(* What was read stays where the next command's array will be, unless the
   calls in between happen to overwrite it. *)
RememberClass(a, c) ==
  stack_class' \in {IF InApp(a) THEN ClassSeen(c) ELSE stack_class, Unreadable}

-----------------------------------------------------------------------------
Emptied(p) == [a \in Flash |-> IF a \in Cells(p) THEN Erased ELSE flash[a]]

(* flash_writer_page_erase of the F1 and F3 *)
EraseAlways(p) ==
  /\ flash' = Emptied(p)
  /\ UNCHANGED sector_erased

(* flash_writer_page_erase of the F4: a sector is erased once until written,
   since the client erases it once per chunk it will write there. *)
EraseUnlessMarked(p) ==
  /\ flash' = IF sector_erased[p] THEN flash ELSE Emptied(p)
  /\ sector_erased' = [sector_erased EXCEPT ![p] = TRUE]

PageErase(p) == IF skips_erased THEN EraseUnlessMarked(p) ELSE EraseAlways(p)

(* Mutant: the check against the start of the application is missing. *)
EraseNoLowerBound(a, c) ==
  /\ LET accepted == a < APP_END /\ ClassSeen(c) = device_class
     IN  /\ IF accepted THEN PageErase(PageOf[a]) ELSE UNCHANGED <<flash, sector_erased>>
         /\ AnswerBool(accepted)
  /\ asked' = [op |-> "erase", address |-> a, class |-> c]
  /\ RememberClass(a, c)
  /\ UNCHANGED <<skips_erased, device_class>>

(* command_erase_flash_page *)
EraseCommand(a, c) ==
  /\ LET accepted == InApp(a) /\ ClassSeen(c) = device_class
     IN  /\ IF accepted THEN PageErase(PageOf[a]) ELSE UNCHANGED <<flash, sector_erased>>
         /\ AnswerBool(accepted)
  /\ asked' = [op |-> "erase", address |-> a, class |-> c]
  /\ RememberClass(a, c)
  /\ UNCHANGED <<skips_erased, device_class>>

(* The cells of a write; there are none past the end. *)
Span(a, length) == Flash \cap (a .. a + length - 1)

(* flash_program of the F4, byte by byte: an erased cell takes the datum, and
   something is left in one that was not. *)
Programmed(a, data) ==
  /\ \E new \in [Span(a, Len(data)) -> Datum] :
       flash' = [x \in Flash |-> IF x \in DOMAIN new THEN new[x] ELSE flash[x]]
  /\ \A x \in Span(a, Len(data)) :
       flash[x] \in {Erased, data[x - a + 1]} => flash'[x] = data[x - a + 1]

(* Mutant: the sector keeps its mark. *)
WriteBytesKeepsMark(a, data) ==
  /\ Programmed(a, data)
  /\ UNCHANGED sector_erased

(* flash_writer_page_write of the F4: only the sector of the first cell is
   unmarked. *)
WriteBytes(a, data) ==
  /\ Programmed(a, data)
  /\ sector_erased' = [sector_erased EXCEPT ![PageOf[a]] = FALSE]

(* Mutant: the last half-word is filled up with the byte itself. *)
HalfWordsTwice(a, data) == IF Len(data) % 2 = 0 THEN data ELSE Append(data, data[Len(data)])

(* What the loop of the F1 and F3 programs: an odd write is filled up with the
   byte that its last one replaces, not with that byte's neighbour. *)
HalfWords(a, data) ==
  LET last == a + Len(data) - 1
  IN  IF Len(data) % 2 = 0 THEN data
      ELSE Append(data, IF last \in Flash THEN flash[last] ELSE Erased)

(* The hardware takes a half-word at an even address that is erased, and of
   others may take those that only clear bits. *)
Blank(x) == \A y \in Span(x, 2) : flash[y] = Erased
HalfWordOf(a, x) == x - ((x - a) % 2)
Taken(a, words, done) ==
  \A x \in Span(a, Len(words)) :
    LET h == HalfWordOf(a, x)
    IN  /\ a % 2 = 0 /\ Blank(h) => h \in done
        /\ h \in done => Blank(h) \/ words[x - a + 1] # Erased

(* flash_writer_page_write of the F1 and F3 *)
WriteHalfWords(a, data) ==
  LET words == HalfWords(a, data)
  IN  /\ \E done \in SUBSET {HalfWordOf(a, x) : x \in Span(a, Len(words))} :
           /\ Taken(a, words, done)
           /\ flash' = [x \in Flash |->
                IF x \in Span(a, Len(words)) /\ HalfWordOf(a, x) \in done THEN words[x - a + 1] ELSE flash[x]]
      /\ UNCHANGED sector_erased

PageWrite(a, data) == IF skips_erased THEN WriteBytes(a, data) ELSE WriteHalfWords(a, data)

(* command_write_flash: the data of a command whose class is unreadable
   cannot be found, and only the first address is checked. *)
WriteCommand(a, c, data) ==
  /\ LET accepted == InApp(a) /\ ClassSeen(c) = device_class /\ c # Unreadable
     IN  /\ IF accepted THEN PageWrite(a, data) ELSE UNCHANGED <<flash, sector_erased>>
         /\ AnswerBool(accepted)
  /\ asked' = [op |-> "write", address |-> a, class |-> c, data |-> data]
  /\ RememberClass(a, c)
  /\ UNCHANGED <<skips_erased, device_class>>

(* command_read_flash: cmp_write_bin writes its header, then the data if there
   is room. *)
ReadCommand(size) ==
  /\ Answer("bytes", IF BIN_HEADER + size <= OUT_CAP THEN BIN_HEADER + size ELSE BIN_HEADER)
  /\ asked' = [op |-> "read", len |-> size]
  /\ UNCHANGED <<skips_erased, flash, sector_erased, device_class, stack_class>>

(* protocol_execute_command returns a negative error, and what is sent is
   what the output buffer still holds. *)
BadCommand(op, error) ==
  /\ Answer("leftover", -error)
  /\ asked' = [op |-> op]
  /\ UNCHANGED <<skips_erased, flash, sector_erased, device_class, stack_class>>

InvalidCommand == BadCommand("invalid", 1)
UnknownCommand == BadCommand("unknown", 2)
WrongVersion == BadCommand("wrong_version", 3)

(* command_config_update of the class: what cannot be read is left alone, and
   the answer is true either way. *)
UpdateClass(c) ==
  /\ device_class' = IF c = Unreadable THEN device_class ELSE c
  /\ AnswerBool(TRUE)
  /\ asked' = [op |-> "update"]
  /\ UNCHANGED <<skips_erased, flash, sector_erased, stack_class>>

(* The board restarts: flash_init clears the marks, and the class comes from
   the configuration pages, which ConfigStore is about. *)
Restart ==
  /\ sector_erased' = [p \in Page |-> FALSE]
  /\ device_class' \in Class
  /\ stack_class' = Unreadable
  /\ asked' = [op |-> "none"]
  /\ answer' = NoAnswer
  /\ UNCHANGED <<skips_erased, flash>>

Address == 0 .. TOP - 1
Argument == Class \cup {Unreadable}
Writes(a) ==
  {data \in UNION {[1 .. n -> Datum] : n \in 1 .. MaxLen} :
     InPage /\ skips_erased => \A x \in a .. a + Len(data) - 1 : x \in Flash /\ PageOf[x] = PageOf[a]}

Next ==
  \/ \E a \in Address : \E c \in Argument : EraseCommand(a, c)
  \/ \E a \in Address : \E c \in Argument : \E data \in Writes(a) : WriteCommand(a, c, data)
  \/ \E size \in 0 .. MaxLen : ReadCommand(size)
  \/ InvalidCommand
  \/ UnknownCommand
  \/ WrongVersion
  \/ \E c \in Argument : UpdateClass(c)
  \/ Restart

Spec == Init /\ [][Next]_vars

-----------------------------------------------------------------------------
TypeOK ==
  /\ skips_erased \in BOOLEAN
  /\ flash \in [Flash -> Datum \cup {Erased}]
  /\ sector_erased \in [Page -> BOOLEAN]
  /\ device_class \in Class
  /\ stack_class \in Class \cup {Unreadable}

(* "The bootloader must never erase itself or its configuration page"
   (README.markdown:52): no sequence of these commands changes a cell below the
   application, whatever their addresses and lengths. *)
KeepsBootloader == \A a \in Flash : a < APP => flash'[a] = flash[a]
BootloaderIntact == [][KeepsBootloader]_vars

(* An erase that answers true leaves the page erased, also when the writer
   skipped it (PROTOCOL.markdown:62, "Returns: True if successful"). *)
TrueEraseErased ==
  asked'.op = "erase" /\ answer'.what = "true"
    => \A a \in Cells(PageOf[asked'.address]) : flash'[a] = Erased
EraseMeansErased == [][TrueEraseErased]_vars

(* A write that answers true to cells that were erased, on the F1 and F3 from an
   even address, leaves its data there and every other cell as it was: the
   neighbour of an odd last byte too, with which that is programmed
   (flash_writer_page_write: "preserve value of adjacent byte"). *)
TrueWriteWritten ==
  asked'.op = "write" /\ answer'.what = "true"
    /\ (\A x \in Span(asked'.address, Len(asked'.data) + 1) : flash[x] = Erased)
    /\ (skips_erased \/ asked'.address % 2 = 0)
    => flash' = [x \in Flash |-> IF x \in Span(asked'.address, Len(asked'.data))
                                 THEN asked'.data[x - asked'.address + 1] ELSE flash[x]]
WriteMeansWritten == [][TrueWriteWritten]_vars

(* README.markdown:53, "It should never write to flash if the device class does
   not match": what changes the flash is a command with the board's class. *)
OwnClassOnly == [][flash' # flash => asked'.class = device_class]_vars

(* PROTOCOL.markdown:52, "silently ignores commands with the wrong version". *)
WrongVersionIsSilent == asked.op = "wrong_version" => answer = NoAnswer
=============================================================================
