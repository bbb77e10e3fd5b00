-------------------------- MODULE FlashLayoutProofs --------------------------
(***************************************************************************)
(* For every address of the first bank, the sector the F4 writer computes  *)
(* is the one the address is in: a session marks sectors that exist and    *)
(* erases the sector it was asked for.  And for every layout cut at the    *)
(* borders of its erase units: writes come after erases and nothing leaves *)
(* its region, by an invariant on what is clean (SessionInv).              *)
(***************************************************************************)
EXTENDS FlashLayout, TLAPS

InBank1(a) == a \in Nat /\ FLASH_BASE <= a /\ a < BANK2

LEMMA Addresses ==
  /\ KB = 1024 /\ FLASH_BASE = 134217728 /\ BANK = 1048576 /\ BANK2 = 135266304
  /\ SECTOR_COUNT = 24
BY SMT DEF KB, FLASH_BASE, BANK, BANK2, SECTOR_COUNT

(* The sector of an offset, in numbers. *)
LEMMA SectorOfOffset ==
  ASSUME NEW o \in Nat, o < 1048576
  PROVE  LET s == BankSector(o)
         IN  /\ s \in Nat /\ s < 12
             /\ o < 65536 => s = o \div 16384 /\ s < 4
             /\ 65536 <= o /\ o < 131072 => s = 4
             /\ 131072 <= o => s = 4 + (o \div 131072) /\ 4 < s
<1>1. CASE o < 65536
  BY SMT, <1>1 DEF BankSector, KB
<1>2. CASE 65536 <= o /\ o < 131072
  BY SMT, <1>2 DEF BankSector, KB
<1>3. CASE 131072 <= o
  BY SMT, <1>3 DEF BankSector, KB
<1>. QED
  BY SMT, <1>1, <1>2, <1>3

LEMMA SectorNumber ==
  ASSUME NEW o \in Nat, o < 1048576
  PROVE  flash_addr_to_sector(FLASH_BASE + o) = BankSector(o)
<1>1. (FLASH_BASE + o) % 16777216 = o /\ ~(FLASH_BASE + o >= BANK2)
  BY SMT, Addresses
<1>2. BankSector(o) % 256 = BankSector(o)
  BY SMT, SectorOfOffset
<1>. QED
  BY SMT, <1>1, <1>2 DEF flash_addr_to_sector

(* The sector of an address of the first bank is the one it is in, for all of
   its 1048576 addresses (stm32f4/flash_writer.c:15).                       *)
THEOREM SectorOfAddress ==
  ASSUME NEW a, InBank1(a)
  PROVE  /\ Within(a, flash_addr_to_sector(a))
         /\ flash_addr_to_sector(a) \in Nat /\ flash_addr_to_sector(a) < 12
<1>1. PICK o \in Nat : o < 1048576 /\ a = FLASH_BASE + o
  <2>1. a - FLASH_BASE \in Nat /\ a - FLASH_BASE < 1048576 /\ a = FLASH_BASE + (a - FLASH_BASE)
    BY SMT, Addresses DEF InBank1
  <2>. QED
    BY SMT, <2>1
<1>. DEFINE s == BankSector(o)
<1>2. s \in Nat /\ s < 12
  BY SMT, <1>1, SectorOfOffset
<1>3. flash_addr_to_sector(a) = s
  BY SMT, <1>1, SectorNumber
<1>4. InBank(s) = s /\ s \div 12 = 0
  BY SMT, <1>2 DEF InBank
<1>5. CASE o < 65536
  <2>1. s = o \div 16384 /\ s < 4
    BY SMT, <1>1, <1>5, SectorOfOffset
  <2>2. SectorStart(s) = FLASH_BASE + s * 16384 /\ SectorSize(s) = 16384
    BY SMT, <1>2, <1>4, <2>1, Addresses DEF SectorStart, SectorSize
  <2>. QED
    BY SMT, <1>1, <1>2, <1>3, <2>1, <2>2, Addresses DEF Within
<1>6. CASE 65536 <= o /\ o < 131072
  <2>1. s = 4
    BY SMT, <1>1, <1>6, SectorOfOffset
  <2>2. SectorStart(s) = FLASH_BASE + 65536 /\ SectorSize(s) = 65536
    BY SMT, <1>4, <2>1, Addresses DEF SectorStart, SectorSize
  <2>. QED
    BY SMT, <1>1, <1>2, <1>3, <1>6, <2>2, Addresses DEF Within
<1>7. CASE 131072 <= o
  <2>1. s = 4 + (o \div 131072) /\ 4 < s
    BY SMT, <1>1, <1>7, SectorOfOffset
  <2>2. SectorStart(s) = FLASH_BASE + (s - 4) * 131072 /\ SectorSize(s) = 131072
    BY SMT, <1>2, <1>4, <2>1, Addresses DEF SectorStart, SectorSize
  <2>. QED
    BY SMT, <1>1, <1>2, <1>3, <2>1, <2>2, Addresses DEF Within
<1>. QED
  BY SMT, <1>1, <1>2, <1>3, <1>5, <1>6, <1>7

-----------------------------------------------------------------------------
(* Multiples, as the page size of the client, of the board and the borders of
   the memory map are of one another.                                       *)
Aligned(n, d) == \E q \in Nat : n = q * d

LEMMA ModAligned ==
  ASSUME NEW n \in Nat, NEW d \in Nat \ {0}, n % d = 0
  PROVE  Aligned(n, d)
<1>1. n = (n \div d) * d /\ n \div d \in Nat
  BY SMT
<1>. QED
  BY <1>1 DEF Aligned

LEMMA FloorAligned ==
  ASSUME NEW n \in Nat, NEW d \in Nat \ {0}
  PROVE  /\ n - (n % d) \in Nat /\ Aligned(n - (n % d), d)
         /\ n % d \in Nat /\ n % d < d
<1>1. n - (n % d) = (n \div d) * d /\ n \div d \in Nat
  BY SMT
<1>2. n % d \in Nat /\ n % d < d
  BY SMT
<1>3. (n \div d) * d \in Nat
  BY <1>1, SMT
<1>. QED
  BY <1>1, <1>2, <1>3 DEF Aligned

LEMMA NextAligned ==
  ASSUME NEW n \in Nat, NEW m \in Nat, NEW d \in Nat, Aligned(n, d), Aligned(m, d), n < m
  PROVE  n + d <= m
<1>1. PICK i \in Nat : n = i * d
  BY DEF Aligned
<1>2. PICK j \in Nat : m = j * d
  BY DEF Aligned
<1>3. i < j
  <2>1. CASE j <= i
    <3>1. PICK h \in Nat : i = j + h
      <4>1. i - j \in Nat /\ i = j + (i - j)
        BY <2>1, SMT
      <4>. QED
        BY <4>1
    <3>2. n = m + h * d /\ h * d \in Nat
      BY <1>1, <1>2, <3>1, SMT
    <3>. QED
      BY <3>2, SMT
  <2>. QED
    BY <2>1, SMT
<1>4. PICK h \in Nat : j = i + 1 + h
  <2>1. j - i - 1 \in Nat /\ j = i + 1 + (j - i - 1)
    BY <1>3, SMT
  <2>. QED
    BY <2>1
<1>5. m = n + d + h * d /\ h * d \in Nat
  BY <1>1, <1>2, <1>4, SMT
<1>. QED
  BY <1>5, SMT

LEMMA SumAligned ==
  ASSUME NEW n \in Nat, NEW m \in Nat, NEW d \in Nat, Aligned(n, d), Aligned(m, d)
  PROVE  Aligned(n + m, d)
<1>1. PICK i \in Nat : n = i * d
  BY DEF Aligned
<1>2. PICK j \in Nat : m = j * d
  BY DEF Aligned
<1>3. i + j \in Nat /\ n + m = (i + j) * d
  BY <1>1, <1>2, SMT
<1>. QED
  BY <1>3 DEF Aligned

LEMMA FinerAligned ==
  ASSUME NEW n \in Nat, NEW d \in Nat, NEW e \in Nat, Aligned(n, d), Aligned(d, e)
  PROVE  Aligned(n, e)
<1>1. PICK i \in Nat : n = i * d
  BY DEF Aligned
<1>2. PICK j \in Nat : d = j * e
  BY DEF Aligned
<1>3. i * j \in Nat /\ n = (i * j) * e
  BY <1>1, <1>2, SMT
<1>. QED
  BY <1>3 DEF Aligned

-----------------------------------------------------------------------------
(* The session never leaves the memory and the option it started with, and
   does not count beyond the binary.                                        *)
LayoutInv ==
  /\ TypeOK
  /\ memory \in Layout
  /\ page_size \in Nat \ {0} /\ length \in Nat /\ offset \in Nat

LEMMA InitInv == Init => LayoutInv
<1>. SUFFICES ASSUME Init PROVE LayoutInv
  OBVIOUS
<1>1. memory \in Layout /\ page_size \in Nat \ {0} /\ length \in Nat
  BY LayoutAssumption, PageSizeAssumption DEF Init
<1>. QED
  BY <1>1 DEF Init, LayoutInv, TypeOK

(* A block below 1024 is in the first bank, and so is its sector. *)
LEMMA SectorOfBlock ==
  ASSUME NEW block \in Nat, block < 1024
  PROVE  LET a == Address(block)
         IN  Within(a, flash_addr_to_sector(a)) /\ flash_addr_to_sector(a) \in 0 .. SECTOR_COUNT - 1
<1>1. InBank1(Address(block))
  BY SMT, Addresses DEF InBank1, Address
<1>2. /\ Within(Address(block), flash_addr_to_sector(Address(block)))
      /\ flash_addr_to_sector(Address(block)) \in Nat
      /\ flash_addr_to_sector(Address(block)) < 12
  BY <1>1, SectorOfAddress, Zenon
<1>. QED
  BY SMT, <1>2, Addresses

(* An erase marks a sector that exists, and none on a board without sectors. *)
LEMMA EraseMarks ==
  ASSUME LayoutInv, NEW block \in Nat, block < 1024, PageErase(block)
  PROVE  marked' \subseteq 0 .. SECTOR_COUNT - 1 /\ (memory.sectors \/ marked' = {})
<1>1. flash_addr_to_sector(Address(block)) \in 0 .. SECTOR_COUNT - 1
  BY SectorOfBlock, Zenon
<1>. QED
  BY <1>1, Zenon DEF PageErase, LayoutInv, TypeOK

LEMMA WriteMarks ==
  ASSUME LayoutInv, NEW block, NEW size, PageWrite(block, size)
  PROVE  marked' \subseteq 0 .. SECTOR_COUNT - 1 /\ (memory.sectors \/ marked' = {})
BY Zenon DEF PageWrite, LayoutInv, TypeOK

(* The blocks of the application and of the configuration are below 1024. *)
LEMMA BlocksOfMemory ==
  ASSUME LayoutInv
  PROVE  /\ memory.app \in Nat /\ memory.size \in Nat
         /\ Accepted => memory.app + offset \in Nat /\ memory.app + offset < 1024
         /\ \A p \in {1, 2} : memory.config[p] \in Nat /\ memory.config[p] < 1024
<1>1. memory \in Layout /\ offset \in Nat
  BY DEF LayoutInv
<1>2. /\ memory.app \in Nat /\ memory.size \in Nat /\ memory.app + memory.size <= 1024
      /\ \A p \in {1, 2} : memory.config[p] \in Nat /\ memory.config[p] < 1024
  BY <1>1, LayoutAssumption
<1>. QED
  BY <1>1, <1>2 DEF Accepted

(* What the operations of a step leave as it was. *)
Kept == memory' = memory /\ page_size' = page_size /\ length' = length

LEMMA NextInv == LayoutInv /\ [Next]_vars => LayoutInv'
<1>. SUFFICES ASSUME LayoutInv, [Next]_vars PROVE LayoutInv'
  OBVIOUS
<1>. DEFINE Marks == marked' \subseteq 0 .. SECTOR_COUNT - 1 /\ (memory.sectors \/ marked' = {})
            Position == offset' \in 0 .. length + page_size
            Place == pc' \in {"erase", "write", "save", "program", "done", "refused"}
<1>1. ASSUME Kept, Marks, Position, Place PROVE LayoutInv'
  BY <1>1 DEF Kept, LayoutInv, TypeOK
<1>2. marked' = marked => Marks
  BY Zenon DEF LayoutInv, TypeOK
<1>3. offset' = offset => Position
  BY Zenon DEF LayoutInv, TypeOK
<1>4. offset' = 0 => Position
  BY DEF LayoutInv, TypeOK
<1>5. offset < length /\ offset' = offset + page_size => Position
  BY DEF LayoutInv, TypeOK
<1>6. pc' = pc => Place
  BY Zenon DEF LayoutInv, TypeOK
<1>. HIDE DEF Marks, Position, Place
<1>7. CASE Refused
  <2>1. Place
    BY <1>7 DEF Refused, Place
  <2>. QED
    BY <1>1, <1>2, <1>3, <1>7, <2>1, Zenon DEF Refused, client, Kept
<1>8. CASE Erase
  <2>1. memory.app + offset \in Nat /\ memory.app + offset < 1024
    BY <1>8, BlocksOfMemory, Zenon DEF Erase
  <2>2. Marks
    BY <1>8, <2>1, EraseMarks, Zenon DEF Erase, Marks
  <2>. QED
    BY <1>1, <1>5, <1>6, <1>8, <2>2, Zenon DEF Erase, client, Kept
<1>9. CASE EraseDone
  <2>1. Place
    BY <1>9 DEF EraseDone, Place
  <2>. QED
    BY <1>1, <1>2, <1>4, <1>9, <2>1, Zenon DEF EraseDone, client, Kept
<1>10. CASE Write
  <2>1. Marks
    BY <1>10, WriteMarks, Zenon DEF Write, Marks
  <2>. QED
    BY <1>1, <1>5, <1>6, <1>10, <2>1, Zenon DEF Write, client, Kept
<1>11. CASE WriteDone
  <2>1. Place
    BY <1>11 DEF WriteDone, Place
  <2>. QED
    BY <1>1, <1>2, <1>3, <1>11, <2>1, Zenon DEF WriteDone, client, Kept
<1>12. ASSUME NEW p \in {1, 2}, SaveErase(p) PROVE LayoutInv'
  <2>1. memory.config[p] \in Nat /\ memory.config[p] < 1024
    BY BlocksOfMemory, SMT
  <2>2. Marks
    BY <1>12, <2>1, EraseMarks, Zenon DEF SaveErase, Marks
  <2>3. Place
    BY <1>12 DEF SaveErase, Place
  <2>. QED
    BY <1>1, <1>3, <1>12, <2>2, <2>3, Zenon DEF SaveErase, Kept
<1>13. CASE SaveWrite
  <2>1. Marks
    BY <1>13, WriteMarks, Zenon DEF SaveWrite, Marks
  <2>2. Place
    BY <1>13 DEF SaveWrite, Place
  <2>. QED
    BY <1>1, <1>3, <1>13, <2>1, <2>2, Zenon DEF SaveWrite, client, Kept
<1>14. CASE Restart
  <2>1. Marks
    BY <1>14 DEF Restart, Marks
  <2>. QED
    BY <1>1, <1>3, <1>6, <1>14, <2>1, Zenon DEF Restart, client, Kept
<1>15. CASE UNCHANGED vars
  BY <1>1, <1>2, <1>3, <1>6, <1>15, Zenon DEF vars, client, Kept
<1>. QED
  BY <1>7, <1>8, <1>9, <1>10, <1>11, <1>12, <1>13, <1>14, <1>15, Zenon DEF Next

(* The layout of a session never changes, and its types hold throughout. *)
THEOREM Invariance == Spec => []LayoutInv
BY InitInv, NextInv, PTL DEF Spec

(* The marks of a session are of sectors that exist, on the boards that have
   sectors, and its loops end with the binary.                              *)
THEOREM TypeCorrect == Spec => []TypeOK
<1>1. LayoutInv => TypeOK
  BY DEF LayoutInv
<1>. QED
  BY <1>1, Invariance, PTL

(* Wherever an application in the first bank is and however it is cut into
   pages, the sector that is erased and marked is the one of the address.   *)
THEOREM RightSector == Spec => []SectorIsRight
<1>1. LayoutInv => SectorIsRight
  <2>. SUFFICES ASSUME LayoutInv, Accepted
                PROVE  LET a == Address(memory.app + offset) IN Within(a, flash_addr_to_sector(a))
    BY Zenon DEF SectorIsRight
  <2>1. memory.app + offset \in Nat /\ memory.app + offset < 1024
    BY BlocksOfMemory, Zenon
  <2>. QED
    BY <2>1, SectorOfBlock, Zenon
<1>. QED
  BY <1>1, Invariance, PTL

-----------------------------------------------------------------------------
(* What an erase erases lies between two borders of the memory map: on a F4
   between borders of its sectors, and every block of the sector has the same
   unit; on the other boards it is the page of the block.                   *)
UnitBounds(block, k, n) ==
  /\ EraseUnit(block) = Blocks(k, n)
  /\ k <= block /\ block < k + n

LEMMA SectorUnit ==
  ASSUME memory.sectors, NEW block \in Nat, block < 1024
  PROVE  \E k, n \in Nat :
           /\ UnitBounds(block, k, n)
           /\ Aligned(k, 16) /\ Aligned(k + n, 16)
           /\ \A e \in SectorBorder : (e <= block => e <= k) /\ (block < e => k + n <= e)
<1>. DEFINE o == block * 1024
            s == BankSector(o)
<1>1. o \in Nat /\ o < 1048576 /\ Address(block) = FLASH_BASE + o
  BY SMT, Addresses DEF Address
<1>2. flash_addr_to_sector(Address(block)) = s
  BY <1>1, SectorNumber, SMT
<1>3. /\ s \in Nat /\ s < 12
      /\ o < 65536 => s = o \div 16384 /\ s < 4
      /\ 65536 <= o /\ o < 131072 => s = 4
      /\ 131072 <= o => s = 4 + (o \div 131072) /\ 4 < s
  BY <1>1, SectorOfOffset, SMT
<1>. HIDE DEF s
<1>4. s \in Nat
  BY <1>3, SMT
<1>5. EraseUnit(block) = Blocks((SectorStart(s) - FLASH_BASE) \div KB, SectorSize(s) \div KB)
  BY <1>2 DEF EraseUnit
<1>6. InBank(s) = s /\ s \div 12 = 0
  BY SMT, <1>3 DEF InBank
<1>7. CASE block < 64
  <2>1. s = o \div 16384 /\ s < 4
    BY SMT, <1>3, <1>7
  <2>2. SectorStart(s) = FLASH_BASE + s * 16384 /\ SectorSize(s) = 16384
    BY SMT, <1>3, <1>6, <2>1, Addresses DEF SectorStart, SectorSize
  <2>3. (SectorStart(s) - FLASH_BASE) \div KB = s * 16 /\ SectorSize(s) \div KB = 16
    BY SMT, <1>3, <2>2, Addresses
  <2>4. s * 16 <= block /\ block < s * 16 + 16
    BY SMT, <1>1, <1>3, <2>1
  <2>5. Aligned(s * 16, 16) /\ Aligned(s * 16 + 16, 16)
    <3>1. s + 1 \in Nat /\ s * 16 + 16 = (s + 1) * 16
      BY SMT, <1>3
    <3>. QED
      BY <1>4, <3>1, Zenon DEF Aligned
  <2>6. \A e \in SectorBorder : (e <= block => e <= s * 16) /\ (block < e => s * 16 + 16 <= e)
    BY SMT, <1>3, <2>1, <2>4, <1>7 DEF SectorBorder
  <2>7. UnitBounds(block, s * 16, 16)
    BY <1>5, <2>3, <2>4, Zenon DEF UnitBounds
  <2>8. s * 16 \in Nat /\ 16 \in Nat
    BY SMT, <1>3
  <2>. QED
    BY <2>5, <2>6, <2>7, <2>8, Zenon
<1>8. CASE 64 <= block /\ block < 128
  <2>1. s = 4
    BY SMT, <1>3, <1>8
  <2>2. SectorStart(s) = FLASH_BASE + 65536 /\ SectorSize(s) = 65536
    BY SMT, <1>6, <2>1, Addresses DEF SectorStart, SectorSize
  <2>3. (SectorStart(s) - FLASH_BASE) \div KB = 64 /\ SectorSize(s) \div KB = 64
    BY SMT, <2>2, Addresses
  <2>4. Aligned(64, 16) /\ Aligned(64 + 64, 16)
    <3>1. 4 \in Nat /\ 8 \in Nat /\ 64 = 4 * 16 /\ 64 + 64 = 8 * 16
      BY SMT
    <3>. QED
      BY <3>1, Zenon DEF Aligned
  <2>5. \A e \in SectorBorder : (e <= block => e <= 64) /\ (block < e => 64 + 64 <= e)
    BY SMT, <1>8 DEF SectorBorder
  <2>6. UnitBounds(block, 64, 64)
    BY <1>5, <1>8, <2>3, SMT DEF UnitBounds
  <2>. QED
    BY <2>4, <2>5, <2>6, 64 \in Nat, Zenon
<1>9. CASE 128 <= block
  <2>. DEFINE k == (s - 4) * 128
  <2>1. s = 4 + (o \div 131072) /\ 4 < s
    BY SMT, <1>3, <1>9
  <2>2. SectorStart(s) = FLASH_BASE + (s - 4) * 131072 /\ SectorSize(s) = 131072
    BY SMT, <1>3, <1>6, <2>1, Addresses DEF SectorStart, SectorSize
  <2>3. (SectorStart(s) - FLASH_BASE) \div KB = k /\ SectorSize(s) \div KB = 128
    BY SMT, <1>3, <2>1, <2>2, Addresses
  <2>4. k <= block /\ block < k + 128
    BY SMT, <1>1, <1>3, <2>1
  <2>5. Aligned(k, 16) /\ Aligned(k + 128, 16)
    <3>1. 8 * (s - 4) \in Nat /\ k = (8 * (s - 4)) * 16
      BY SMT, <1>3, <2>1
    <3>2. 8 * (s - 4) + 8 \in Nat /\ k + 128 = (8 * (s - 4) + 8) * 16
      BY SMT, <1>3, <2>1
    <3>. QED
      BY <3>1, <3>2, Zenon DEF Aligned
  <2>6. \A e \in SectorBorder : (e <= block => e <= k) /\ (block < e => k + 128 <= e)
    <3>1. \A n \in 0 .. 4 : 16 * n <= k /\ 16 * n <= block
      BY SMT, <1>3, <2>1
    <3>2. \A n \in 1 .. 8 : (128 * n <= block => 128 * n <= k) /\ (block < 128 * n => k + 128 <= 128 * n)
      BY SMT, <1>3, <2>4
    <3>. QED
      BY SMT, <1>9, <3>1, <3>2 DEF SectorBorder
  <2>7. UnitBounds(block, k, 128)
    BY <1>5, <2>3, <2>4, Zenon DEF UnitBounds
  <2>8. k \in Nat /\ 128 \in Nat
    BY SMT, <1>3, <2>1
  <2>. QED
    BY <2>5, <2>6, <2>7, <2>8, Zenon
<1>. QED
  BY <1>7, <1>8, <1>9, SMT

LEMMA PageUnit ==
  ASSUME ~memory.sectors, memory.page \in Nat \ {0}, NEW block \in Nat
  PROVE  \E k \in Nat : UnitBounds(block, k, memory.page) /\ Aligned(k, memory.page)
<1>. DEFINE k == block - (block % memory.page)
<1>1. k \in Nat /\ Aligned(k, memory.page) /\ block % memory.page \in Nat /\ block % memory.page < memory.page
  BY FloorAligned, Zenon
<1>2. k <= block /\ block < k + memory.page
  BY <1>1, SMT
<1>3. EraseUnit(block) = Blocks(k, memory.page)
  BY Zenon DEF EraseUnit
<1>. QED
  BY <1>1, <1>2, <1>3, Zenon DEF UnitBounds

(* One run of blocks within another. *)
LEMMA BlocksWithin ==
  ASSUME NEW a \in Int, NEW n \in Int, NEW b \in Int, NEW m \in Int, b <= a, a + n <= b + m
  PROVE  Blocks(a, n) \subseteq Blocks(b, m)
BY SMT DEF Blocks

LEMMA BlocksMember ==
  ASSUME NEW a \in Int, NEW n \in Int, NEW c
  PROVE  c \in Blocks(a, n) <=> c \in Int /\ a <= c /\ c < a + n
BY SMT DEF Blocks

(* The numbers of the memory a session is on. *)
LEMMA MemoryFacts ==
  ASSUME LayoutInv
  PROVE  /\ memory.sectors \in BOOLEAN /\ memory.page \in Nat \ {0}
         /\ memory.app \in Nat /\ memory.size \in Nat /\ memory.app + memory.size <= 1024
         /\ memory.sectors => /\ memory.page = 16
                              /\ memory.app \in SectorBorder /\ memory.app + memory.size \in SectorBorder
                              /\ \A p \in {1, 2} : memory.config[p] \in {16 * n : n \in 0 .. 3}
         /\ ~memory.sectors => /\ memory.app % memory.page = 0 /\ memory.size % memory.page = 0
                               /\ \A p \in {1, 2} : memory.config[p] % memory.page = 0
<1>1. memory \in Layout
  BY DEF LayoutInv
<1>2. /\ memory.sectors \in BOOLEAN /\ memory.page \in Nat \ {0}
      /\ memory.app \in Nat /\ memory.size \in Nat /\ memory.app + memory.size <= 1024
  BY <1>1, LayoutAssumption
<1>. QED
  BY <1>1, <1>2, AlignedAssumption, Zenon

(* An erase in the application's region erases nothing outside of it. *)
LEMMA RegionUnit ==
  ASSUME LayoutInv, NEW block \in Nat, memory.app <= block, block < memory.app + memory.size
  PROVE  EraseUnit(block) \subseteq Blocks(memory.app, memory.size)
<1>. USE MemoryFacts
<1>1. CASE memory.sectors
  <2>1. block < 1024
    BY SMT
  <2>2. PICK k, n \in Nat :
          /\ UnitBounds(block, k, n)
          /\ \A e \in SectorBorder : (e <= block => e <= k) /\ (block < e => k + n <= e)
    BY <1>1, <2>1, SectorUnit
  <2>3. memory.app <= k /\ k + n <= memory.app + memory.size
    BY <1>1, <2>2, Zenon
  <2>4. Blocks(k, n) \subseteq Blocks(memory.app, memory.size)
    BY <2>3, BlocksWithin, SMT
  <2>. QED
    BY <2>2, <2>4, Zenon DEF UnitBounds
<1>2. CASE ~memory.sectors
  <2>. DEFINE page == memory.page
              app == memory.app
              end == memory.app + memory.size
  <2>1. PICK k \in Nat : UnitBounds(block, k, page) /\ Aligned(k, page)
    BY <1>2, PageUnit, Zenon
  <2>2. k <= block /\ block < k + page
    BY <2>1 DEF UnitBounds
  <2>3. Aligned(app, page) /\ Aligned(end, page)
    BY <1>2, ModAligned, SumAligned, Zenon
  <2>4. end \in Nat /\ page \in Nat
    BY SMT
  <2>5. app <= k
    <3>1. k < app => k + page <= app
      BY <2>1, <2>3, <2>4, NextAligned
    <3>. QED
      BY <2>2, <3>1, SMT
  <2>6. k + page <= end
    <3>1. k < end
      BY <2>2, SMT
    <3>. QED
      BY <2>1, <2>3, <2>4, <3>1, NextAligned, Zenon
  <2>7. Blocks(k, page) \subseteq Blocks(app, memory.size)
    BY <2>5, <2>6, BlocksWithin, SMT
  <2>. QED
    BY <2>1, <2>7, Zenon DEF UnitBounds
<1>. QED
  BY <1>1, <1>2, Zenon

(* An erase for a configuration page erases that page. *)
LEMMA ConfigUnit ==
  ASSUME LayoutInv, NEW p \in {1, 2}
  PROVE  EraseUnit(memory.config[p]) \subseteq Blocks(memory.config[p], memory.page)
<1>. USE MemoryFacts
<1>. DEFINE c == memory.config[p]
<1>1. c \in Nat /\ c < 1024
  BY BlocksOfMemory, SMT
<1>2. CASE memory.sectors
  <2>1. PICK k, n \in Nat :
          /\ UnitBounds(c, k, n)
          /\ \A e \in SectorBorder : (e <= c => e <= k) /\ (c < e => k + n <= e)
    BY <1>1, <1>2, SectorUnit
  <2>2. PICK i \in 0 .. 3 : c = 16 * i
    BY <1>2, Zenon
  <2>3. c \in SectorBorder /\ c + 16 \in SectorBorder
    <3>1. i \in 0 .. 4 /\ i + 1 \in 0 .. 4 /\ c + 16 = 16 * (i + 1)
      BY <2>2, SMT
    <3>. QED
      BY <2>2, <3>1, Zenon DEF SectorBorder
  <2>4. c <= k /\ k + n <= c + 16
    BY <1>1, <2>1, <2>3, SMT
  <2>5. Blocks(k, n) \subseteq Blocks(c, memory.page)
    BY <1>1, <1>2, <2>4, BlocksWithin, SMT
  <2>. QED
    BY <2>1, <2>5, Zenon DEF UnitBounds
<1>3. CASE ~memory.sectors
  <2>. DEFINE page == memory.page
  <2>1. PICK k \in Nat : UnitBounds(c, k, page) /\ Aligned(k, page)
    BY <1>1, <1>3, PageUnit, Zenon
  <2>2. Aligned(c, page) /\ page \in Nat
    BY <1>1, <1>3, ModAligned, Zenon
  <2>3. k < c => k + page <= c
    BY <1>1, <2>1, <2>2, NextAligned
  <2>4. k <= c /\ c < k + page
    BY <2>1 DEF UnitBounds
  <2>5. k = c
    BY <1>1, <2>2, <2>3, <2>4, SMT
  <2>. QED
    BY <2>1, <2>5, Zenon DEF UnitBounds
<1>. QED
  BY <1>2, <1>3, Zenon

(* A step of a fitting option from a multiple of itself stays in the unit. *)
LEMMA StepUnit ==
  ASSUME LayoutInv, FittingOption, Accepted, Aligned(offset, page_size)
  PROVE  Blocks(memory.app + offset, page_size) \subseteq EraseUnit(memory.app + offset)
<1>. USE MemoryFacts
<1>. DEFINE block == memory.app + offset
            page == memory.page
<1>1. /\ block \in Nat /\ block < 1024 /\ offset \in Nat
      /\ page_size \in Nat \ {0} /\ page_size \in Nat /\ page \in Nat /\ memory.app \in Nat
  BY BlocksOfMemory, Zenon DEF LayoutInv
<1>2. Aligned(page, page_size)
  <2>1. memory.page % page_size = 0
    BY Zenon DEF FittingOption
  <2>. QED
    BY <1>1, <2>1, ModAligned
<1>3. PICK k, n \in Nat : UnitBounds(block, k, n) /\ Aligned(k + n, page)
  <2>1. CASE memory.sectors
    BY <1>1, <2>1, SectorUnit
  <2>2. CASE ~memory.sectors
    <3>1. PICK k \in Nat : UnitBounds(block, k, page) /\ Aligned(k, page)
      BY <1>1, <2>2, PageUnit, Zenon
    <3>2. Aligned(page, page)
      BY <1>1, 1 \in Nat, page = 1 * page DEF Aligned
    <3>3. Aligned(k + page, page)
      BY <1>1, <3>1, <3>2, SumAligned, Zenon
    <3>. QED
      BY <1>1, <3>1, <3>3, Zenon
  <2>. QED
    BY <2>1, <2>2, Zenon
<1>4. Aligned(memory.app, page)
  <2>1. CASE memory.sectors
    <3>1. PICK q \in Nat : memory.app = 16 * q
      <4>1. ASSUME NEW i \in 0 .. 4, memory.app = 16 * i PROVE \E q \in Nat : memory.app = 16 * q
        BY <4>1, i \in Nat, Zenon
      <4>2. ASSUME NEW i \in 1 .. 8, memory.app = 128 * i PROVE \E q \in Nat : memory.app = 16 * q
        <5>1. 8 * i \in Nat /\ memory.app = 16 * (8 * i)
          BY <4>2, SMT
        <5>. QED
          BY <5>1, Zenon
      <4>. QED
        BY <2>1, <4>1, <4>2, Zenon DEF SectorBorder
    <3>2. memory.app = q * page
      BY <2>1, <3>1, SMT
    <3>. QED
      BY <3>2, Zenon DEF Aligned
  <2>2. CASE ~memory.sectors
    BY <1>1, <2>2, ModAligned, Zenon
  <2>. QED
    BY <2>1, <2>2, Zenon
<1>5. Aligned(block, page_size)
  <2>1. Aligned(memory.app, page_size)
    BY <1>1, <1>2, <1>4, FinerAligned, Zenon
  <2>. QED
    BY <1>1, <2>1, SumAligned, Zenon
<1>6. Aligned(k + n, page_size) /\ k + n \in Nat
  <2>1. k + n \in Nat
    BY SMT
  <2>. QED
    BY <1>1, <1>2, <1>3, <2>1, FinerAligned, Zenon
<1>7. k <= block /\ block < k + n
  BY <1>3 DEF UnitBounds
<1>8. block + page_size <= k + n
  BY <1>1, <1>5, <1>6, <1>7, NextAligned, Zenon
<1>9. Blocks(block, page_size) \subseteq Blocks(k, n)
  BY <1>1, <1>7, <1>8, BlocksWithin, SMT
<1>. QED
  BY <1>3, <1>9, Zenon DEF UnitBounds

-----------------------------------------------------------------------------
(* With an option that fits: what the loop of the erases has passed is clean,
   and so is the sector of every mark; what the loop of the writes has before
   it still is.                                                             *)
MarkedClean ==
  \A block \in Nat :
    block < 1024 /\ memory.sectors /\ flash_addr_to_sector(Address(block)) \in marked =>
      EraseUnit(block) \subseteq clean

ErasedInv ==
  pc = "erase" =>
    /\ Aligned(offset, page_size)
    /\ MarkedClean
    /\ Blocks(memory.app, offset) \subseteq clean

AheadInv ==
  pc = "write" =>
    /\ Aligned(offset, page_size)
    /\ Blocks(memory.app + offset, length - offset) \subseteq clean

SessionInv == LayoutInv /\ (FittingOption => ErasedInv /\ AheadInv)

LEMMA InitSession == Init => SessionInv
<1>. SUFFICES ASSUME Init PROVE SessionInv
  OBVIOUS
<1>1. LayoutInv
  BY InitInv
<1>2. Aligned(0, page_size)
  <2>1. page_size \in Nat
    BY <1>1 DEF LayoutInv
  <2>2. 0 \in Nat /\ 0 = 0 * page_size
    BY <2>1, SMT
  <2>. QED
    BY <2>2, Zenon DEF Aligned
<1>3. Blocks(memory.app, 0) = {}
  BY <1>1, MemoryFacts, SMT DEF Blocks
<1>. QED
  BY <1>1, <1>2, <1>3, Zenon DEF Init, SessionInv, ErasedInv, AheadInv, MarkedClean

(* Blocks of the same sector share their unit. *)
LEMMA SameUnit ==
  ASSUME memory.sectors, NEW b, NEW c, flash_addr_to_sector(Address(b)) = flash_addr_to_sector(Address(c))
  PROVE  EraseUnit(b) = EraseUnit(c)
BY Zenon DEF EraseUnit

LEMMA ErasePreserves ==
  ASSUME SessionInv, FittingOption, Erase
  PROVE  ErasedInv'
<1>. DEFINE block == memory.app + offset
<1>1. /\ Accepted /\ LayoutInv /\ Kept /\ pc = "erase" /\ offset' = offset + page_size
      /\ PageErase(block)
  BY Zenon DEF Erase, SessionInv, client, Kept
<1>2. Aligned(offset, page_size) /\ MarkedClean /\ Blocks(memory.app, offset) \subseteq clean
  BY <1>1, Zenon DEF SessionInv, ErasedInv
<1>3. block \in Nat /\ block < 1024 /\ memory.app \in Nat /\ offset \in Nat /\ page_size \in Nat
  BY <1>1, BlocksOfMemory DEF LayoutInv
<1>4. clean \subseteq clean' /\ EraseUnit(block) \subseteq clean'
  <2>1. CASE memory.sectors /\ flash_addr_to_sector(Address(block)) \in marked
    BY <1>1, <1>2, <1>3, <2>1 DEF PageErase, MarkedClean
  <2>2. CASE ~(memory.sectors /\ flash_addr_to_sector(Address(block)) \in marked)
    BY <1>1, <2>2, Zenon DEF PageErase
  <2>. QED
    BY <2>1, <2>2, Zenon
<1>5. Aligned(offset + page_size, page_size)
  <2>1. 1 \in Nat /\ page_size = 1 * page_size
    BY <1>3, SMT
  <2>2. Aligned(page_size, page_size)
    BY <2>1, Zenon DEF Aligned
  <2>. QED
    BY <1>2, <1>3, <2>2, SumAligned, Zenon
<1>6. Blocks(memory.app, offset + page_size) \subseteq clean'
  <2>1. Blocks(block, page_size) \subseteq clean'
    BY <1>1, <1>2, <1>4, StepUnit, Zenon
  <2>2. Blocks(memory.app, offset + page_size) \subseteq Blocks(memory.app, offset) \cup Blocks(block, page_size)
    BY <1>3, SMT DEF Blocks
  <2>. QED
    BY <1>2, <1>4, <2>1, <2>2, Zenon
<1>7. memory' = memory
  BY <1>1 DEF Kept
<1>8. \A b : EraseUnit(b)' = EraseUnit(b)
  BY <1>7, Zenon DEF EraseUnit
<1>9. ASSUME NEW b \in Nat, b < 1024, memory.sectors, flash_addr_to_sector(Address(b)) \in marked'
      PROVE  EraseUnit(b) \subseteq clean'
  <2>1. CASE flash_addr_to_sector(Address(b)) \in marked
    BY <1>2, <1>4, <1>9, <2>1 DEF MarkedClean
  <2>2. CASE flash_addr_to_sector(Address(b)) = flash_addr_to_sector(Address(block))
    BY <1>4, <1>9, <2>2, SameUnit, Zenon
  <2>. QED
    BY <1>1, <1>9, <2>1, <2>2, Zenon DEF PageErase
<1>10. MarkedClean'
  BY <1>7, <1>8, <1>9 DEF MarkedClean
<1>. QED
  BY <1>1, <1>5, <1>6, <1>7, <1>10 DEF ErasedInv, Kept

(* A write takes from the blocks ahead no more than the step it makes. *)
LEMMA WritePreserves ==
  ASSUME SessionInv, FittingOption, Write
  PROVE  AheadInv'
<1>. DEFINE block == memory.app + offset
<1>1. /\ LayoutInv /\ Kept /\ pc = "write" /\ offset' = offset + page_size
      /\ clean' = clean \ Blocks(block, Chunk)
  BY Zenon DEF Write, PageWrite, SessionInv, client, Kept
<1>2. Aligned(offset, page_size) /\ Blocks(block, length - offset) \subseteq clean
  BY <1>1, Zenon DEF SessionInv, AheadInv
<1>3. block \in Nat /\ memory.app \in Nat /\ offset \in Nat /\ page_size \in Nat /\ length \in Nat
  BY <1>1, BlocksOfMemory DEF LayoutInv
<1>4. Aligned(offset + page_size, page_size)
  <2>1. 1 \in Nat /\ page_size = 1 * page_size
    BY <1>3, SMT
  <2>2. Aligned(page_size, page_size)
    BY <2>1, Zenon DEF Aligned
  <2>. QED
    BY <1>2, <1>3, <2>2, SumAligned, Zenon
<1>5. Blocks(memory.app + (offset + page_size), length - (offset + page_size)) \subseteq Blocks(block, length - offset)
  BY <1>3, SMT DEF Blocks
<1>6. Blocks(memory.app + (offset + page_size), length - (offset + page_size)) \cap Blocks(block, Chunk) = {}
  <2>1. Chunk <= page_size /\ Chunk \in Int
    BY <1>3, SMT DEF Chunk, Least
  <2>. HIDE DEF Chunk
  <2>. QED
    BY <1>3, <2>1, SMT DEF Blocks
<1>. QED
  BY <1>1, <1>2, <1>4, <1>5, <1>6 DEF AheadInv, Kept

LEMMA EraseDonePreserves ==
  ASSUME SessionInv, FittingOption, EraseDone
  PROVE  AheadInv'
<1>1. /\ LayoutInv /\ Kept /\ pc = "erase" /\ offset' = 0 /\ clean' = clean /\ offset >= length
  BY Zenon DEF EraseDone, SessionInv, client, Kept
<1>2. Blocks(memory.app, offset) \subseteq clean
  BY <1>1, Zenon DEF SessionInv, ErasedInv
<1>3. memory.app \in Nat /\ offset \in Nat /\ page_size \in Nat /\ length \in Nat
  BY <1>1, BlocksOfMemory DEF LayoutInv
<1>4. Blocks(memory.app + 0, length - 0) \subseteq Blocks(memory.app, offset)
  BY <1>1, <1>3, SMT DEF Blocks
<1>5. Aligned(0, page_size)
  <2>1. 0 \in Nat /\ 0 = 0 * page_size
    BY <1>3, SMT
  <2>. QED
    BY <2>1, Zenon DEF Aligned
<1>. QED
  BY <1>1, <1>2, <1>4, <1>5 DEF AheadInv, Kept

LEMMA NextSession == SessionInv /\ [Next]_vars => SessionInv'
<1>. SUFFICES ASSUME SessionInv, [Next]_vars PROVE SessionInv'
  OBVIOUS
<1>1. LayoutInv'
  BY NextInv DEF SessionInv
<1>2. SUFFICES ASSUME FittingOption' PROVE ErasedInv' /\ AheadInv'
  BY <1>1 DEF SessionInv
<1>3. ASSUME Kept, pc' \notin {"erase", "write"} PROVE ErasedInv' /\ AheadInv'
  BY <1>3, Zenon DEF ErasedInv, AheadInv
<1>4. Kept => FittingOption
  BY <1>2, Zenon DEF Kept, FittingOption
<1>5. CASE Refused
  BY <1>3, <1>5 DEF Refused, client, Kept
<1>6. CASE Erase
  <2>1. Kept /\ pc' = "erase"
    BY <1>6, Zenon DEF Erase, client, Kept
  <2>2. AheadInv'
    BY <2>1 DEF AheadInv
  <2>. QED
    BY <1>4, <1>6, <2>1, <2>2, ErasePreserves, Zenon
<1>7. CASE EraseDone
  <2>1. Kept /\ pc' = "write"
    BY <1>7, Zenon DEF EraseDone, client, Kept
  <2>2. ErasedInv'
    BY <2>1 DEF ErasedInv
  <2>. QED
    BY <1>4, <1>7, <2>1, <2>2, EraseDonePreserves, Zenon
<1>8. CASE Write
  <2>1. Kept /\ pc' = "write"
    BY <1>8, Zenon DEF Write, client, Kept
  <2>2. ErasedInv'
    BY <2>1 DEF ErasedInv
  <2>. QED
    BY <1>4, <1>8, <2>1, <2>2, WritePreserves, Zenon
<1>9. CASE WriteDone
  BY <1>3, <1>9 DEF WriteDone, client, Kept
<1>10. ASSUME NEW p \in {1, 2}, SaveErase(p) PROVE ErasedInv' /\ AheadInv'
  BY <1>3, <1>10 DEF SaveErase, Kept
<1>11. CASE SaveWrite
  <2>1. pc' \notin {"erase", "write"}
    BY <1>11 DEF SaveWrite
  <2>. QED
    BY <1>3, <1>11, <2>1, Zenon DEF SaveWrite, client, Kept
<1>12. CASE Restart
  <2>1. Kept /\ pc' = pc /\ offset' = offset /\ clean' = clean /\ marked' = {}
    BY <1>12, Zenon DEF Restart, client, Kept
  <2>2. ErasedInv /\ AheadInv
    BY <1>4, <2>1, Zenon DEF SessionInv
  <2>3. MarkedClean'
    BY <2>1, Zenon DEF MarkedClean
  <2>. QED
    BY <2>1, <2>2, <2>3, Zenon DEF ErasedInv, AheadInv, Kept
<1>13. CASE UNCHANGED vars
  <2>1. Kept /\ pc' = pc /\ offset' = offset /\ clean' = clean /\ marked' = marked
    BY <1>13, Zenon DEF vars, client, Kept
  <2>2. ErasedInv /\ AheadInv
    BY <1>4, <2>1, Zenon DEF SessionInv
  <2>3. MarkedClean' <=> MarkedClean
    BY <2>1, Zenon DEF MarkedClean, EraseUnit, Kept
  <2>. QED
    BY <2>1, <2>2, <2>3, Zenon DEF ErasedInv, AheadInv, Kept
<1>. QED
  BY <1>5, <1>6, <1>7, <1>8, <1>9, <1>10, <1>11, <1>12, <1>13, Zenon DEF Next

(* What is erased ahead of the client, behind it and under a mark. *)
THEOREM SessionInvariance == Spec => []SessionInv
BY InitSession, NextSession, PTL DEF Spec

(* A chunk is no more than a step. *)
LEMMA ChunkStep ==
  ASSUME LayoutInv, FittingOption, Accepted, Aligned(offset, page_size), offset < length
  PROVE  /\ Blocks(memory.app + offset, Chunk) \subseteq EraseUnit(memory.app + offset)
         /\ Blocks(memory.app + offset, Chunk) \subseteq Blocks(memory.app + offset, length - offset)
<1>1. memory.app + offset \in Nat /\ offset \in Nat /\ page_size \in Nat /\ length \in Nat
  BY BlocksOfMemory DEF LayoutInv
<1>2. Chunk <= page_size /\ Chunk <= length - offset /\ Chunk \in Int
  BY <1>1, SMT DEF Chunk, Least
<1>. HIDE DEF Chunk
<1>3. Blocks(memory.app + offset, Chunk) \subseteq Blocks(memory.app + offset, page_size)
  BY <1>1, <1>2, SMT DEF Blocks
<1>4. Blocks(memory.app + offset, Chunk) \subseteq Blocks(memory.app + offset, length - offset)
  BY <1>1, <1>2, SMT DEF Blocks
<1>. QED
  BY <1>3, <1>4, StepUnit, Zenon

(* For every layout cut at the borders of its erase units and every option that
   divides its page: each block is erased when it is written, whatever sectors
   the writer skips and wherever the board restarts, and a write stays within
   one erase unit.                                                          *)
THEOREM WritesAfterErases == Spec => WritesOnErased
<1>. DEFINE Step == pc = "write" /\ FittingOption =>
                      /\ touched' \subseteq clean
                      /\ touched' # {} => touched' \subseteq EraseUnit(memory.app + offset)
<1>1. SessionInv /\ [Next]_vars => [Step]_vars
  <2>. SUFFICES ASSUME SessionInv, Next, pc = "write", FittingOption
                PROVE  /\ touched' \subseteq clean
                       /\ touched' # {} => touched' \subseteq EraseUnit(memory.app + offset)
    BY Zenon
  <2>1. CASE Write
    <3>1. /\ LayoutInv /\ Accepted /\ Aligned(offset, page_size) /\ offset < length
          /\ Blocks(memory.app + offset, length - offset) \subseteq clean
          /\ touched' = Blocks(memory.app + offset, Chunk)
      BY <2>1, Zenon DEF Write, PageWrite, SessionInv, AheadInv
    <3>. QED
      BY <3>1, ChunkStep, Zenon
  <2>2. CASE Refused \/ WriteDone \/ Restart
    BY <2>2, Zenon DEF Refused, WriteDone, Restart
  <2>3. ~Erase /\ ~EraseDone /\ ~SaveWrite /\ \A p \in {1, 2} : ~SaveErase(p)
    BY DEF Erase, EraseDone, SaveWrite, SaveErase
  <2>. QED
    BY <2>1, <2>2, <2>3, Zenon DEF Next
<1>. QED
  BY <1>1, SessionInvariance, PTL DEF Spec, WritesOnErased

(* And nothing outside of the region of the application, or of the page of
   the configuration that is saved, is erased or written.                   *)
THEOREM StaysInRegion == Spec => OwnRegionOnly
<1>. DEFINE Goal == /\ pc \in {"erase", "write"} => touched' \subseteq Blocks(memory.app, memory.size)
                    /\ pc = "save" => touched' \subseteq Blocks(memory.config[saved'], memory.page)
                    /\ pc = "program" => touched' \subseteq Blocks(memory.config[saved], memory.page)
<1>1. SessionInv /\ [Next]_vars => [FittingOption => Goal]_vars
  <2>. SUFFICES ASSUME SessionInv, Next, FittingOption PROVE Goal
    BY Zenon
  <2>1. LayoutInv /\ ErasedInv /\ AheadInv
    BY Zenon DEF SessionInv
  <2>2. Accepted => EraseUnit(memory.app + offset) \subseteq Blocks(memory.app, memory.size)
    <3>. SUFFICES ASSUME Accepted
                  PROVE  EraseUnit(memory.app + offset) \subseteq Blocks(memory.app, memory.size)
      OBVIOUS
    <3>1. memory.app + offset \in Nat /\ offset \in Nat /\ memory.app \in Nat /\ memory.size \in Nat
      BY <2>1, BlocksOfMemory DEF LayoutInv
    <3>2. memory.app <= memory.app + offset /\ memory.app + offset < memory.app + memory.size
      BY <3>1, SMT DEF Accepted
    <3>. QED
      BY <2>1, <3>1, <3>2, RegionUnit, Zenon
  <2>3. CASE Refused
    BY <2>3 DEF Refused
  <2>4. CASE Erase
    <3>1. pc = "erase" /\ Accepted /\ (touched' = {} \/ touched' = EraseUnit(memory.app + offset))
      BY <2>4, Zenon DEF Erase, PageErase
    <3>. QED
      BY <2>2, <3>1
  <2>5. CASE EraseDone
    BY <2>5 DEF EraseDone
  <2>6. CASE Write
    <3>1. /\ pc = "write" /\ Accepted /\ Aligned(offset, page_size) /\ offset < length
          /\ touched' = Blocks(memory.app + offset, Chunk)
      BY <2>1, <2>6, Zenon DEF Write, PageWrite, AheadInv
    <3>2. touched' \subseteq EraseUnit(memory.app + offset)
      BY <2>1, <3>1, ChunkStep, Zenon
    <3>. QED
      BY <2>2, <3>1, <3>2
  <2>7. CASE WriteDone
    BY <2>7 DEF WriteDone
  <2>8. ASSUME NEW p \in {1, 2}, SaveErase(p) PROVE Goal
    <3>1. /\ pc = "save" /\ saved' = p
          /\ touched' = {} \/ touched' = EraseUnit(memory.config[p])
      BY <2>8, Zenon DEF SaveErase, PageErase
    <3>2. EraseUnit(memory.config[p]) \subseteq Blocks(memory.config[p], memory.page)
      BY <2>1, ConfigUnit, Zenon
    <3>. QED
      BY <3>1, <3>2
  <2>9. CASE SaveWrite
    <3>1. pc = "program" /\ touched' = Blocks(memory.config[saved], memory.page)
      BY <2>9, Zenon DEF SaveWrite, PageWrite
    <3>. QED
      BY <3>1
  <2>10. CASE Restart
    BY <2>10 DEF Restart
  <2>. QED
    BY <2>3, <2>4, <2>5, <2>6, <2>7, <2>8, <2>9, <2>10, Zenon DEF Next
<1>. QED
  BY <1>1, SessionInvariance, PTL DEF Spec, OwnRegionOnly
=============================================================================
