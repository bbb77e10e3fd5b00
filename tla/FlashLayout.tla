----------------------------- MODULE FlashLayout -----------------------------
(***************************************************************************)
(* One flashing session on one board, as its flash sees it: the client     *)
(* erases and writes in steps of its --page-size, the board erases pages   *)
(* or sectors of its own sizes and in the end saves its configuration.     *)
(* Flash is counted in blocks of 1 KB from its start.                      *)
(***************************************************************************)
EXTENDS SectorMap

CONSTANTS
  Layout,    (* the memories of the boards (Boards)         *)
  PageSize,  (* values of the option --page-size, in KB     *)
  Length     (* Length[memory]: sizes of binaries, in KB    *)

ASSUME PageSizeAssumption == PageSize \subseteq Nat \ {0}

(* Every memory is in the first bank. *)
ASSUME LayoutAssumption ==
  \A m \in Layout :
    /\ m.sectors \in BOOLEAN /\ m.page \in Nat \ {0} /\ m.app \in Nat /\ m.size \in Nat
    /\ m.app + m.size <= 1024
    /\ \A p \in {1, 2} : m.config[p] \in Nat /\ m.config[p] < 1024
    /\ Length[m] \subseteq Nat

(* The linker scripts and platform.mk cut the flash at the borders of what it
   erases; the configuration of a F4 is in sectors of 16 KB. *)
SectorBorder == {16 * n : n \in 0 .. 4} \cup {128 * n : n \in 1 .. 8}
ASSUME AlignedAssumption ==
  \A m \in Layout :
    IF m.sectors
      THEN /\ m.page = 16
           /\ m.app \in SectorBorder /\ m.app + m.size \in SectorBorder
           /\ \A p \in {1, 2} : m.config[p] \in {16 * n : n \in 0 .. 3}
      ELSE /\ m.app % m.page = 0 /\ m.size % m.page = 0
           /\ \A p \in {1, 2} : m.config[p] % m.page = 0

VARIABLES
  memory,     (* of the board, never changes                          *)
  page_size,  (* of the client                                        *)
  length,     (* of the binary                                        *)
  pc,         (* "erase", "write", "save", "done" or "refused"        *)
  offset,     (* of the client's loop                                 *)
  unsaved,    (* the configuration pages still to be erased           *)
  saved,      (* the one that was erased last                         *)
  clean,      (* blocks erased and not written since                  *)
  marked,     (* sector_erased                                        *)
  touched     (* history: the blocks the last operation erased or wrote *)

client == <<memory, page_size, length, unsaved, saved>>
vars == <<client, pc, offset, clean, marked, touched>>

Least(a, b) == IF a < b THEN a ELSE b
Blocks(first, size) == first .. first + size - 1
Address(block) == FLASH_BASE + block * KB

Init ==
  /\ memory \in Layout
  /\ page_size \in PageSize
  /\ length \in Length[memory]
  /\ pc = "erase"
  /\ offset = 0
  /\ unsaved = {1, 2}
  /\ saved = 1
  /\ clean = {}
  /\ marked = {}
  /\ touched = {}

-----------------------------------------------------------------------------
(* What the flash erases when it is given an address in this block. *)
EraseUnit(block) ==
  IF memory.sectors
    THEN LET s == flash_addr_to_sector(Address(block))
         IN  Blocks((SectorStart(s) - FLASH_BASE) \div KB, SectorSize(s) \div KB)
    ELSE Blocks(block - (block % memory.page), memory.page)

(* flash_writer_page_erase of the three writers *)
PageErase(block) ==
  LET s == flash_addr_to_sector(Address(block))
  IN  IF memory.sectors /\ s \in marked
        THEN UNCHANGED <<clean, marked>> /\ touched' = {}
        ELSE /\ marked' = IF memory.sectors THEN marked \cup {s} ELSE marked
             /\ clean' = clean \cup EraseUnit(block)
             /\ touched' = EraseUnit(block)

(* flash_writer_page_write *)
PageWrite(block, size) ==
  /\ marked' = IF memory.sectors THEN marked \ {flash_addr_to_sector(Address(block))} ELSE marked
  /\ clean' = clean \ Blocks(block, size)
  /\ touched' = Blocks(block, size)

(* Mutant: the first address after the region is taken for its last one. *)
AcceptedOneMore == offset <= memory.size

Accepted == offset < memory.size

(* The board answers false, the client gives up: sys.exit(2). *)
Refused ==
  /\ pc \in {"erase", "write"} /\ offset < length
  /\ ~Accepted
  /\ pc' = "refused"
  /\ touched' = {}
  /\ UNCHANGED <<client, offset, clean, marked>>

(* "First erase all pages" *)
Erase ==
  /\ pc = "erase" /\ offset < length
  /\ Accepted
  /\ PageErase(memory.app + offset)
  /\ offset' = offset + page_size
  /\ UNCHANGED <<client, pc>>

EraseDone ==
  /\ pc = "erase" /\ offset >= length
  /\ pc' = "write"
  /\ offset' = 0
  /\ touched' = {}
  /\ UNCHANGED <<client, clean, marked>>

(* Mutant: what is left is sent in one piece. *)
ChunkUncut == length - offset

(* slice_into_pages *)
Chunk == Least(page_size, length - offset)

(* "Then write all pages in chunks" *)
Write ==
  /\ pc = "write" /\ offset < length
  /\ Accepted
  /\ PageWrite(memory.app + offset, Chunk)
  /\ offset' = offset + page_size
  /\ UNCHANGED <<client, pc>>

WriteDone ==
  /\ pc = "write" /\ offset >= length
  /\ pc' = "save"
  /\ touched' = {}
  /\ UNCHANGED <<client, offset, clean, marked>>

(* flash_write_and_verify on one configuration page after the other, in either
   order (command_config_write_to_flash) *)
SaveErase(p) ==
  /\ pc = "save" /\ p \in unsaved
  /\ PageErase(memory.config[p])
  /\ pc' = "program"
  /\ unsaved' = unsaved \ {p}
  /\ saved' = p
  /\ UNCHANGED <<memory, page_size, length, offset>>

SaveWrite ==
  /\ pc = "program"
  /\ PageWrite(memory.config[saved], memory.page)
  /\ pc' = IF unsaved = {} THEN "done" ELSE "save"
  /\ UNCHANGED <<client, offset>>

(* The board restarts between two commands: flash_init. *)
Restart ==
  /\ pc \in {"erase", "write"} /\ marked # {}
  /\ marked' = {}
  /\ touched' = {}
  /\ UNCHANGED <<client, pc, offset, clean>>

Next ==
  \/ Refused
  \/ Erase
  \/ EraseDone
  \/ Write
  \/ WriteDone
  \/ \E p \in {1, 2} : SaveErase(p)
  \/ SaveWrite
  \/ Restart

Spec == Init /\ [][Next]_vars

-----------------------------------------------------------------------------
(* The client's option is the page size of the board or a divisor of it.  The
   default, 2 KB, is more than the page of the stm32f103rb; and of a binary of
   17 KB, in steps of 3 KB, the end is in a sector that no step erases.     *)
FittingOption == memory.page % page_size = 0

TypeOK ==
  /\ pc \in {"erase", "write", "save", "program", "done", "refused"}
  /\ offset \in 0 .. length + page_size
  /\ marked \subseteq 0 .. SECTOR_COUNT - 1
  /\ memory.sectors \/ marked = {}

(* With an option that fits, every block is erased when the client writes it,
   whatever sectors the writer skips or erases at once and wherever the board
   restarts; and a write stays within what one erase erases, as FlashCommands
   assumes of its writes (InPage): the mark of a F4 sector stands for the whole
   write (flash_binary, flash_writer_page_erase, flash_writer_page_write). *)
WritesOnErased ==
  [][pc = "write" /\ FittingOption =>
       /\ touched' \subseteq clean
       /\ touched' # {} => touched' \subseteq EraseUnit(memory.app + offset)]_vars

(* The session changes the application region only, and a save only its page:
   no erase unit and no last chunk reaches over the end of its region, for a
   binary that is too long neither, although a write is checked at its first
   address alone (command.c:67). *)
OwnRegionOnly ==
  [][FittingOption =>
       /\ pc \in {"erase", "write"} => touched' \subseteq Blocks(memory.app, memory.size)
       /\ pc = "save" => touched' \subseteq Blocks(memory.config[saved'], memory.page)
       /\ pc = "program" => touched' \subseteq Blocks(memory.config[saved], memory.page)]_vars

(* The sector erased and marked is the one the address is in. *)
SectorIsRight ==
  pc \in {"erase", "write"} /\ memory.sectors /\ Accepted =>
    LET a == Address(memory.app + offset) IN Within(a, flash_addr_to_sector(a))
=============================================================================
