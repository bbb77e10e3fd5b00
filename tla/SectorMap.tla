------------------------------ MODULE SectorMap ------------------------------
(***************************************************************************)
(* Which sector of a STM32F4 an address is in, as its flash writer         *)
(* computes it, and the memory map of the part: two banks of four sectors  *)
(* of 16K, one of 64K and seven of 128K each.                              *)
(***************************************************************************)
EXTENDS Integers

KB == 1024
FLASH_BASE == 134217728      (* 0x08000000 *)
BANK == 1048576
BANK2 == FLASH_BASE + BANK
SECTOR_COUNT == 24

(* Mutant: the 64K sector is counted from the wrong end. *)
BankSectorOffByOne(offset) ==
  IF offset < 64 * KB THEN offset \div (16 * KB)
  ELSE IF offset < 128 * KB THEN 4 + offset \div (64 * KB)
  ELSE 4 + offset \div (128 * KB)

BankSector(offset) ==
  IF offset < 64 * KB THEN offset \div (16 * KB)
  ELSE IF offset < 128 * KB THEN 3 + offset \div (64 * KB)
  ELSE 4 + offset \div (128 * KB)

(* The offset keeps the bit of the second bank. *)
flash_addr_to_sector(a) ==
  LET sector == BankSector(a % 16777216)
  IN  (IF a >= BANK2 THEN sector + 12 ELSE sector) % 256

(* The memory map. *)
InBank(s) == s % 12
SectorSize(s) ==
  IF InBank(s) < 4 THEN 16 * KB ELSE IF InBank(s) = 4 THEN 64 * KB ELSE 128 * KB
SectorStart(s) ==
  FLASH_BASE + (s \div 12) * BANK
    + (IF InBank(s) < 4 THEN InBank(s) * 16 * KB
       ELSE IF InBank(s) = 4 THEN 64 * KB
       ELSE (InBank(s) - 4) * 128 * KB)

Within(a, s) == SectorStart(s) <= a /\ a < SectorStart(s) + SectorSize(s)
=============================================================================
