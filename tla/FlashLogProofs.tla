--------------------------- MODULE FlashLogProofs ---------------------------
(***************************************************************************)
(* What is proved of the log file in FLASH, for every size of page, sector *)
(* and segment, every threshold, every number of restarts and every choice *)
(* of faults.                                                              *)
(***************************************************************************)
EXTENDS FlashLog, Wraparound, TLAPS

-----------------------------------------------------------------------------
(* The segment and its sectors.                                            *)

\* What the assumption says of the sizes in bytes.
LEMMA Sizes ==
  /\ SIZE \in Nat \ {0} /\ SECTOR \in Nat \ {0} /\ KB \in Nat \ {0}
  /\ PAGE \in Nat \ {0} /\ MAXPKT \in Nat \ {0}
  /\ MAXPKT <= PAGE /\ PAGE <= KB /\ KB <= SECTOR
  /\ SECTOR + SECTOR <= SIZE
  /\ SIZE % SECTOR = 0 /\ SECTOR % PAGE = 0
  /\ SIZE = FLASHKB * KB /\ SECTOR = SECTORKB * KB
  /\ (FLASHKB - SECTORKB) * KB = SIZE - SECTOR
  /\ NoErase = SIZE
  <1>0. /\ KB \in Nat \ {0} /\ PAGE \in Nat \ {0} /\ SECTORKB \in Nat \ {0}
        /\ FLASHKB \in Nat /\ MAXPKT \in Nat \ {0} /\ MAXPKT <= PAGE
        /\ FLASHKB % SECTORKB = 0 /\ FLASHKB >= 2 * SECTORKB /\ KB % PAGE = 0
    BY SizesAssumption
  <1>1. SIZE = FLASHKB * KB /\ SECTOR = SECTORKB * KB /\ NoErase = SIZE
    BY DEF SIZE, SECTOR, NoErase
  <1>2. SIZE \in Nat /\ SECTOR \in Nat \ {0} /\ KB <= SECTOR
    <2>1. PICK i \in Nat : SECTORKB = 1 + i
      BY <1>0, SECTORKB - 1 \in Nat
    <2>2. SECTOR = KB + i * KB /\ i * KB \in Nat
      BY <1>0, <1>1, <2>1
    <2> QED
      BY <1>0, <1>1, <2>2
  <1>3. PICK k \in Nat : FLASHKB = k * SECTORKB
    BY <1>0, Multiple
  <1>4. SIZE = k * SECTOR
    BY <1>0, <1>1, <1>3
  <1>5. SIZE % SECTOR = 0
    BY <1>2, <1>4, Multiple
  <1>6. SECTOR + SECTOR <= SIZE
    <2>1. PICK i \in Nat : FLASHKB = 2 * SECTORKB + i
      BY <1>0, FLASHKB - 2 * SECTORKB \in Nat
    <2>2. SIZE = SECTOR + SECTOR + i * KB /\ i * KB \in Nat
      BY <1>0, <1>1, <2>1
    <2> QED
      BY <1>2, <2>2
  <1>7. PICK j \in Nat : KB = j * PAGE
    BY <1>0, Multiple
  <1>8. PAGE <= KB
    <2>1. j # 0
      BY <1>0, <1>7
    <2>2. PICK i \in Nat : j = 1 + i
      BY <2>1, j - 1 \in Nat
    <2>3. KB = PAGE + i * PAGE /\ i * PAGE \in Nat
      BY <1>0, <1>7, <2>2
    <2> QED
      BY <1>0, <2>3
  <1>9. SECTOR % PAGE = 0
    <2>1. SECTOR = (SECTORKB * j) * PAGE /\ SECTORKB * j \in Nat
      BY <1>0, <1>1, <1>7
    <2> QED
      BY <1>0, <1>2, <2>1, Multiple
  <1>10. (FLASHKB - SECTORKB) * KB = SIZE - SECTOR
    BY <1>0, <1>1
  <1> QED
    BY <1>0, <1>1, <1>2, <1>5, <1>6, <1>8, <1>9, <1>10

\* The addresses of the segment.
LEMMA Addresses ==
  /\ \A a \in Addr : a \in Nat /\ a < SIZE
  /\ \A a \in Nat : a < SIZE => a \in Addr
  /\ \A a \in Sectors : a \in Addr
  BY Sizes DEF Addr, Sectors

\* The sectors of the segment: the first, the last, and how far apart any two
\* are.
LEMMA SectorStarts ==
  /\ 0 \in Sectors /\ SIZE - SECTOR \in Sectors
  /\ \A a \in Sectors : a \in Nat /\ a + SECTOR <= SIZE /\ a % SECTOR = 0
  /\ \A a \in Sectors : a # SIZE - SECTOR =>
        a + SECTOR \in Sectors /\ a + SECTOR + SECTOR <= SIZE
  /\ \A a, b \in Sectors : a < b => a + SECTOR <= b
  <1> USE Sizes
  <1>1. PICK k \in Nat : SIZE = k * SECTOR
    BY Multiple
  <1>2. ASSUME NEW a \in Sectors
        PROVE  a \in 0 .. SIZE - 1 /\ a % SECTOR = 0 /\ a + SECTOR <= SIZE
               /\ (a + SECTOR) % SECTOR = 0
    <2>1. a \in 0 .. SIZE - 1 /\ a % SECTOR = 0
      BY DEF Sectors, Addr
    <2> QED
      BY <2>1, NextMultiple
  <1>3. ASSUME NEW a \in Sectors, a # SIZE - SECTOR
        PROVE  a + SECTOR \in Sectors /\ a + SECTOR + SECTOR <= SIZE
    <2>1. a + SECTOR \in 0 .. SIZE - 1 /\ (a + SECTOR) % SECTOR = 0
      BY <1>2, <1>3
    <2>2. a + SECTOR \in Sectors
      BY <2>1 DEF Sectors, Addr
    <2> QED
      BY <2>1, <2>2, NextMultiple
  <1>4. ASSUME NEW a \in Sectors, NEW b \in Sectors, a < b
        PROVE  a + SECTOR <= b
    <2>1. a \in 0 .. b - 1 /\ b \in Nat /\ a % SECTOR = 0 /\ b % SECTOR = 0
      BY <1>2, <1>4
    <2> QED
      BY <2>1, NextMultiple
  <1>5. 0 \in Sectors
    <2>1. 0 % SECTOR = 0
      BY ModWithin
    <2> QED
      BY <2>1 DEF Sectors, Addr
  <1>6. SIZE - SECTOR \in Sectors
    <2>1. k # 0 /\ k - 1 \in Nat /\ SIZE - SECTOR = (k - 1) * SECTOR
      BY <1>1
    <2>2. SIZE - SECTOR \in 0 .. SIZE - 1
      BY Sizes
    <2>3. (SIZE - SECTOR) % SECTOR = 0
      <3> DEFINE e == SIZE - SECTOR
      <3>1. e \in Nat /\ \E j \in Nat : e = j * SECTOR
        BY <2>1, <2>2
      <3> HIDE DEF e
      <3>2. e % SECTOR = 0
        BY <3>1, Multiple
      <3> QED
        BY <3>2 DEF e
    <2> QED
      BY <2>2, <2>3 DEF Sectors, Addr
  <1> QED
    BY <1>2, <1>3, <1>4, <1>5, <1>6

\* LOGGER_DEF_FLASH_NEXT_SECTOR_ADDRESS: the next sector, and after the last
\* one the first; never the same.
LEMMA NextSectorIs ==
  ASSUME NEW a \in Sectors
  PROVE  /\ NextSector(a) = IF a = SIZE - SECTOR THEN 0 ELSE a + SECTOR
         /\ NextSector(a) \in Sectors /\ NextSector(a) # a
  <1> USE Sizes
  <1>1. a \in Nat /\ a + SECTOR <= SIZE
    BY SectorStarts
  <1> DEFINE t == FLASHKB - SECTORKB
  <1>2. t \in Nat /\ t * KB = SIZE - SECTOR
    BY SizesAssumption
  <1>3. NextSector(a) = IF a \div KB >= t THEN 0 ELSE a + SECTOR
    BY DEF NextSector
  <1> HIDE DEF t
  <1>4. a \div KB >= t <=> a >= SIZE - SECTOR
    BY <1>1, <1>2, DivAtLeast
  <1>5. NextSector(a) = IF a = SIZE - SECTOR THEN 0 ELSE a + SECTOR
    BY <1>1, <1>3, <1>4
  <1>6. CASE a = SIZE - SECTOR
    <2>1. NextSector(a) = 0 /\ 0 # a
      BY <1>1, <1>5, <1>6
    <2> QED
      BY <2>1, <1>5, SectorStarts
  <1>7. CASE a # SIZE - SECTOR
    <2>1. NextSector(a) = a + SECTOR /\ a + SECTOR # a
      BY <1>1, <1>5, <1>7
    <2> QED
      BY <2>1, <1>5, <1>7, SectorStarts
  <1> QED
    BY <1>6, <1>7

\* An address at a distance from its sector's start is in it.
LEMMA InSector ==
  ASSUME NEW s \in Sectors, NEW a \in Addr, NEW x \in Addr, a >= x,
         x >= s, x < s + SECTOR, a \div SECTOR = x \div SECTOR
  PROVE  a < s + SECTOR
  <1>1. s \in Nat /\ a \in Nat /\ x \in Nat /\ s % SECTOR = 0
    BY SectorStarts, Sizes DEF Addr
  <1>2. PICK j \in Nat : s = j * SECTOR
    BY <1>1, Sizes, Multiple
  <1>3. s + SECTOR = (j + 1) * SECTOR /\ j + 1 \in Nat
    BY <1>2, Sizes
  <1>4. x \div SECTOR >= j + 1 <=> x >= (j + 1) * SECTOR
    BY <1>1, <1>3, Sizes, DivAtLeast
  <1>5. a \div SECTOR >= j + 1 <=> a >= (j + 1) * SECTOR
    BY <1>1, <1>3, Sizes, DivAtLeast
  <1>6. (j + 1) * SECTOR \in Nat
    BY <1>3, Sizes
  <1> QED
    BY <1>1, <1>3, <1>4, <1>5, <1>6, Sizes

-----------------------------------------------------------------------------
(* How far the writer is from the start of its sector.                     *)

\* The distance from CurrSectorAddr to WriteAddr, around the end.
Off(m) == IF m.write >= m.curr THEN m.write - m.curr
                               ELSE m.write - m.curr + SIZE

\* FlashMng with its pointers in the segment.
InSegment(m) == m.curr \in Sectors /\ m.write \in Addr /\ m.read \in Addr

\* It is what the code calculates as a remainder.
LEMMA OffIs ==
  ASSUME NEW m, InSegment(m)
  PROVE  /\ Off(m) \in 0 .. SIZE - 1 /\ (m.write - m.curr) % SIZE = Off(m)
         /\ m.write = IF m.curr + Off(m) < SIZE THEN m.curr + Off(m)
                      ELSE m.curr + Off(m) - SIZE
  <1> DEFINE w == m.write
             c == m.curr
             d == w - c
             S == SIZE
  <1>1. S \in Nat \ {0} /\ w \in 0 .. S - 1 /\ c \in 0 .. S - 1
    BY Sizes, SectorStarts DEF InSegment, Addr, Sectors
  <1>2. Off(m) = IF w >= c THEN d ELSE d + S
    BY DEF Off
  <1> HIDE DEF w, c, S
  <1>3. d \in Int /\ (w >= c => d \in 0 .. S - 1) /\ (w < c => d \in -S .. -1)
    BY <1>1
  <1> HIDE DEF d
  <1>4. (d >= 0 => d % S = d) /\ (d < 0 => d % S = d + S)
    BY <1>1, <1>3, SMTT(30)
  <1>5. d % S = Off(m) /\ Off(m) \in 0 .. S - 1
    BY <1>1, <1>2, <1>3, <1>4
  <1>6. w = IF c + Off(m) < S THEN c + Off(m) ELSE c + Off(m) - S
    BY <1>1, <1>2 DEF d
  <1> QED
    BY <1>5, <1>6 DEF w, c, d, S

\* A writer past its sector by less than a sector is in the next one.
LEMMA OffWrapped ==
  ASSUME NEW m, InSegment(m),
         NEW c \in Int, c = m.curr, NEW w \in Int, w = m.write, w < c,
         NEW off \in Int, off = Off(m), off < SECTOR + SECTOR
  PROVE  c = SIZE - SECTOR /\ off = w + SECTOR
  <1>1. c \in Sectors /\ w \in Addr
    BY DEF InSegment
  <1>2. off = w - c + SIZE
    BY DEF Off
  <1>3. w >= 0
    BY <1>1, Addresses
  <1>4. c # SIZE - SECTOR => c + SECTOR + SECTOR <= SIZE
    BY <1>1, SectorStarts
  <1> QED
    BY <1>2, <1>3, <1>4, Sizes

\* CurrentSectorUsageKB tells how far the writer is: also when it has gone
\* around the end, where the difference of the addresses is negative and its
\* KBs, as a uint16, more than any segment has.
LEMMA UsageTells ==
  ASSUME NEW m, InSegment(m),
         NEW off \in Int, off = Off(m), off < SECTOR + SECTOR,
         NEW t \in Nat, t <= SECTORKB
  PROVE  UsageKB(m) >= t <=> off >= t * KB
  <1> DEFINE c == m.curr
             w == m.write
             d == w - c
             q == d \div KB
  <1>0. /\ SECTORKB \in Nat \ {0} /\ FLASHKB \in Nat /\ FLASHKB < 65536
        /\ FLASHKB >= SECTORKB
    BY SizesAssumption
  <1>1. t * KB \in Nat /\ t * KB <= SECTOR
    BY <1>0, Sizes, Products
  <1>2. c \in Sectors /\ w \in Addr
    BY DEF InSegment
  <1>3. UsageKB(m) = q % 65536
    BY DEF UsageKB
  <1>4. off = IF w >= c THEN d ELSE d + SIZE
    BY DEF Off
  <1>5. w < c => c = SIZE - SECTOR /\ off = w + SECTOR
    <2>1. c \in Int /\ w \in Int
      BY <1>2, Addresses
    <2> QED
      BY <2>1, OffWrapped
  <1> HIDE DEF c, w
  <1>6. w \in Nat /\ c \in Nat /\ w < SIZE
    BY <1>2, Addresses
  <1>7. CASE w >= c
    <2>1. d \in Nat /\ d < SIZE /\ off = d
      BY <1>4, <1>6, <1>7, Sizes
    <2> HIDE DEF d
    <2>2. q \in Nat
      BY <2>1, Sizes, DivMod
    <2>3. q >= t <=> d >= t * KB
      BY <2>1, Sizes, DivAtLeast
    <2>4. q >= FLASHKB <=> d >= FLASHKB * KB
      BY <1>0, <2>1, Sizes, DivAtLeast
    <2> HIDE DEF q
    <2>5. q < FLASHKB
      BY <1>0, <2>1, <2>2, <2>4, Sizes
    <2>6. q % 65536 = q
      BY <1>0, <2>2, <2>5, Uint16
    <2> QED
      BY <1>3, <2>1, <2>3, <2>6
  <1>8. CASE w < c
    <2> DEFINE n == FLASHKB - SECTORKB
    <2>1. n \in Nat /\ n * KB = SIZE - SECTOR
      BY <1>0, Sizes
    <2> HIDE DEF n
    <2>2. d \in Int /\ d < 0 /\ d >= -(n * KB)
      BY <1>5, <1>6, <1>8, <2>1
    <2> HIDE DEF d
    <2>3. q \in Int /\ q < 0 /\ q >= -n
      BY <2>1, <2>2, Sizes, DivBelowZero
    <2> HIDE DEF q
    <2>4. n + SECTORKB < 65536
      BY <1>0 DEF n
    <2>5. q % 65536 = q + 65536
      BY <1>0, <2>1, <2>3, <2>4, Uint16
    <2>6. q + 65536 >= t
      BY <1>0, <2>1, <2>3, <2>4
    <2>7. off >= t * KB
      BY <1>1, <1>5, <1>6, <1>8, Sizes
    <2> QED
      BY <1>1, <1>3, <2>3, <2>5, <2>6, <2>7
  <1> QED
    BY <1>6, <1>7, <1>8

\* How far the writer is after a packet of k: in the same sector, and from the
\* start of the next one.
LEMMA OffAdvances ==
  ASSUME NEW m, InSegment(m), NEW n, InSegment(n), NEW k \in Nat,
         n.write = IF m.write + k = SIZE THEN 0 ELSE m.write + k,
         m.write + k <= SIZE,
         NEW o \in Int, o = Off(m), NEW p \in Int, p = Off(n)
  PROVE  /\ n.curr = m.curr => p = o + k \/ p = o + k - SIZE
         /\ /\ n.curr = NextSector(m.curr)
            /\ o >= SECTOR /\ o + k < SECTOR + SIZE
            => p = o + k - SECTOR
  <1> DEFINE c == m.curr
             w == m.write
             d == n.curr
             v == n.write
             S == SIZE
             T == SECTOR
  <1>1. /\ c \in Nat /\ c < S /\ w \in Nat /\ w < S
        /\ d \in Nat /\ d < S /\ v \in Nat /\ v < S
        /\ S \in Nat /\ T \in Nat
    BY Addresses, Sizes DEF InSegment
  <1>2. v = (IF w + k = S THEN 0 ELSE w + k) /\ w + k <= S
    OBVIOUS
  <1>3. /\ o = IF w >= c THEN w - c ELSE w - c + S
        /\ p = IF v >= d THEN v - d ELSE v - d + S
    BY DEF Off
  <1>4. NextSector(c) = IF c = S - T THEN 0 ELSE c + T
    BY NextSectorIs DEF InSegment
  <1>5. (d = c => p = o + k \/ p = o + k - S)
        /\ (d = NextSector(c) /\ o >= T /\ o + k < T + S => p = o + k - T)
    <2> HIDE DEF c, w, d, v, S, T
    <2>1. ASSUME d = c PROVE p = o + k \/ p = o + k - S
      BY <1>1, <1>2, <1>3, <2>1
    <2>2. ASSUME d = NextSector(c), o >= T, o + k < T + S PROVE p = o + k - T
      <3>1. d = IF c = S - T THEN 0 ELSE c + T
        BY <1>4, <2>2
      <3> QED
        BY <1>1, <1>2, <1>3, <2>2, <3>1
    <2> QED
      BY <2>1, <2>2
  <1> QED
    BY <1>5

-----------------------------------------------------------------------------
(* The invariant of the pointers.                                          *)

\* RAM, and EEPROM if it was ever written, point into the segment, and the
\* packet being written ends in it.
PointersInv ==
  /\ InSegment(mem) /\ (nvr # Blank => InSegment(nvr))
  /\ mem.write + size <= SIZE

\* A packet is written while no erase is pending; an erase that is pending is
\* that of the next sector, and the flag says so.
StepInv ==
  /\ phase = "book" => size > 0 /\ erasing = NoErase
  /\ phase # "book" => size = 0
  /\ phase # "idle" => ready
  /\ erasing # NoErase => mem.erased /\ erasing = NextSector(mem.curr)

\* Unless the writer entered a sector before its erase was asked for: it is at
\* most a packet past the end of CurrSectorAddr's sector, not past it by the
\* packet it writes without the flag, and not past it while an erase is pending.
UsageInv ==
  "unprepared" \notin hazard =>
    /\ Off(mem) < SECTOR + MAXPKT
    /\ nvr # Blank => Off(nvr) < SECTOR + MAXPKT
    /\ phase = "book" /\ ~mem.erased => Off(mem) + size <= SECTOR
    /\ erasing # NoErase => Off(mem) <= SECTOR

\* The reader is at the start of a sector, and not of the one being prepared.
Home(m) == m.read \in Sectors /\ (m.erased => m.read # NextSector(m.curr))

ReaderInv == "switch" \notin hazard => Home(mem) /\ (nvr # Blank => Home(nvr))

PInv == TypeOK /\ PointersInv /\ StepInv /\ UsageInv /\ ReaderInv

CellMaps == [Addr -> {"blank", "live", "garbled"}]

\* What the packet takes is what is left of the segment at most.
LEMMA SizeToWriteIs ==
  ASSUME NEW write \in Addr, NEW n \in 1 .. MAXPKT, NEW u,
         NEW s, s = SizeToWrite(write, n, u)
  PROVE  s \in 0 .. n /\ write + s <= SIZE
  <1> DEFINE offset == write % PAGE
             left == PAGE - offset
             over == n - left
  <1>1. write \in Nat /\ write < SIZE /\ n \in Nat /\ n > 0 /\ SIZE \in Nat
        /\ PAGE \in Nat \ {0}
    BY Addresses, Sizes
  <1>2. offset \in 0 .. PAGE - 1
    BY <1>1, DivMod
  <1>3. n % PAGE \in 0 .. n
    BY <1>1, ModAtMost
  <1>4. /\ write + n > SIZE => s = SIZE - write
        /\ write + n <= SIZE =>
             \/ s = n \/ s = n - (n % PAGE) \/ s = 0
             \/ offset + n >= PAGE /\ s = n - (over % PAGE)
    BY <1>1 DEF SizeToWrite
  <1> HIDE DEF offset
  <1>5. left \in Nat /\ (offset + n >= PAGE => over \in Nat /\ over <= n)
    BY <1>1, <1>2
  <1> HIDE DEF over
  <1>6. over \in Nat => over % PAGE \in 0 .. over
    BY <1>1, ModAtMost
  <1> DEFINE f == n % PAGE
             g == over % PAGE
  <1>7. f \in 0 .. n /\ (offset + n >= PAGE => g \in 0 .. n)
    BY <1>1, <1>3, <1>5, <1>6
  <1>8. /\ write + n > SIZE => s = SIZE - write
        /\ write + n <= SIZE =>
             s = n \/ s = n - f \/ s = 0 \/ (offset + n >= PAGE /\ s = n - g)
    BY <1>4
  <1> HIDE DEF f, g
  <1> QED
    BY <1>1, <1>2, <1>7, <1>8

\* Programming keeps the FLASH a FLASH; it touches the cells it is given.
LEMMA ProgrammedIs ==
  ASSUME NEW c \in CellMaps, NEW a, NEW k
  PROVE  /\ Programmed(c, a, k) \in CellMaps
         /\ \A x \in Addr : x \notin a .. a + k - 1 => Programmed(c, a, k)[x] = c[x]
         /\ \A x \in Addr : x \in a .. a + k - 1 /\ c[x] = "blank"
                              => Programmed(c, a, k)[x] = "live"
  BY DEF Programmed, CellMaps

\* The pointers after the packet.
LEMMA AdvancedIs ==
  ASSUME NEW m \in Pointers, m.write \in Addr, size \in Nat, m.write + size <= SIZE
  PROVE  /\ Advanced(m) \in Pointers /\ Advanced(m).write \in Addr
         /\ Advanced(m).write = IF m.write + size = SIZE THEN 0 ELSE m.write + size
         /\ Advanced(m).curr = m.curr /\ Advanced(m).read = m.read
         /\ Advanced(m).erased = m.erased
  <1> DEFINE w == m.write
             v == IF w + size = SIZE THEN 0 ELSE w + size
  <1>1. w \in Nat /\ w < SIZE /\ SIZE \in Nat \ {0} /\ w + size <= SIZE
    BY Addresses, Sizes
  <1>2. Advanced(m) = [m EXCEPT !.write = v]
    BY DEF Advanced
  <1> HIDE DEF w
  <1>3. v \in Addr /\ v \in 0 .. SIZE
    BY <1>1, Addresses
  <1> HIDE DEF v
  <1>4. /\ Advanced(m) \in Pointers /\ Advanced(m).write = v
        /\ Advanced(m).curr = m.curr /\ Advanced(m).read = m.read
        /\ Advanced(m).erased = m.erased
    BY <1>2, <1>3 DEF Pointers
  <1> QED
    BY <1>3, <1>4 DEF v, w

\* The bookkeeping of a packet: the flag and the erase, the next sector, or
\* neither.
BookErases ==
  /\ ~mem.erased /\ UsageKB(mem) >= THRESHKB
  /\ mem'.curr = mem.curr /\ mem'.erased /\ erasing' = NextSector(mem.curr)
  /\ mem'.read = IF mem.read = NextSector(mem.curr) THEN NextSector(mem.read)
                                                    ELSE mem.read

BookEnters ==
  /\ mem.erased /\ erasing = NoErase /\ UsageKB(mem) >= SECTORKB
  /\ mem'.curr = NextSector(mem.curr) /\ ~mem'.erased /\ mem'.read = mem.read
  /\ erasing' = erasing

BookStays ==
  /\ mem.erased /\ erasing = NoErase => ~(UsageKB(mem) >= SECTORKB)
  /\ mem'.curr = mem.curr /\ mem'.erased = mem.erased /\ mem'.read = mem.read
  /\ erasing' = erasing

\* Every Book is one of the three, and advances the writer by the packet.
LEMMA BookIs ==
  ASSUME PInv, Book
  PROVE  /\ mem' \in Pointers /\ mem'.write \in Addr
         /\ mem'.write = IF mem.write + size = SIZE THEN 0 ELSE mem.write + size
         /\ erasing' \in Sectors \cup {NoErase}
         /\ BookErases \/ BookEnters \/ BookStays
  <1> DEFINE next == NextSector(mem.curr)
  <1>1. /\ mem \in Pointers /\ size \in Nat /\ mem.write + size <= SIZE
        /\ mem.curr \in Sectors /\ mem.write \in Addr /\ mem.erased \in BOOLEAN
        /\ erasing \in Sectors \cup {NoErase}
    BY Sizes DEF PInv, TypeOK, PointersInv, InSegment, Pointers
  <1>2. next \in Sectors /\ next \in 0 .. SIZE
    BY <1>1, NextSectorIs, Addresses, Sizes
  <1>3. ASSUME EraseNext
        PROVE  /\ mem' \in Pointers /\ mem'.write \in Addr
               /\ mem'.write = IF mem.write + size = SIZE THEN 0 ELSE mem.write + size
               /\ erasing' \in Sectors \cup {NoErase}
               /\ BookErases \/ BookStays
    <2> DEFINE p == Prepared(mem)
               r == IF mem.read = next THEN NextSector(mem.read) ELSE mem.read
    <2>1. p = [mem EXCEPT !.erased = TRUE, !.read = r]
      BY DEF Prepared
    <2>2. r \in 0 .. SIZE
      <3>1. mem.read \in 0 .. SIZE
        BY <1>1 DEF Pointers
      <3>2. NextSector(next) \in 0 .. SIZE
        BY <1>2, NextSectorIs, Addresses, Sizes
      <3> QED
        BY <3>1, <3>2
    <2> HIDE DEF r
    <2>3. /\ p \in Pointers /\ p.write = mem.write /\ p.curr = mem.curr
          /\ p.erased = TRUE /\ p.read = r
      BY <1>1, <2>1, <2>2 DEF Pointers
    <2>4. CASE mem' = Advanced(p) /\ erasing' = next
      <3> HIDE DEF p, next
      <3>1. /\ mem' \in Pointers /\ mem'.write \in Addr
            /\ mem'.write = IF mem.write + size = SIZE THEN 0 ELSE mem.write + size
            /\ mem'.curr = mem.curr /\ mem'.erased = TRUE /\ mem'.read = r
        BY <1>1, <2>3, <2>4, AdvancedIs
      <3> QED
        BY <1>2, <1>3, <2>4, <3>1 DEF EraseNext, BookErases, r, next
    <2>5. CASE mem' = Advanced(mem) /\ UNCHANGED erasing
      <3>1. /\ mem' \in Pointers /\ mem'.write \in Addr
            /\ mem'.write = IF mem.write + size = SIZE THEN 0 ELSE mem.write + size
            /\ mem'.curr = mem.curr /\ mem'.erased = mem.erased /\ mem'.read = mem.read
        BY <1>1, <2>5, AdvancedIs
      <3> QED
        BY <1>1, <1>3, <2>5, <3>1 DEF EraseNext, BookStays
    <2> QED
      BY <1>3, <2>4, <2>5 DEF EraseNext
  <1>4. ASSUME EnterNext
        PROVE  /\ mem' \in Pointers /\ mem'.write \in Addr
               /\ mem'.write = IF mem.write + size = SIZE THEN 0 ELSE mem.write + size
               /\ erasing' \in Sectors \cup {NoErase}
               /\ BookEnters
    <2> DEFINE p == [mem EXCEPT !.erased = FALSE, !.curr = next]
    <2>0. p = [mem EXCEPT !.erased = FALSE, !.curr = NextSector(@)]
      BY <1>1 DEF Pointers
    <2> HIDE DEF next
    <2>1. /\ p \in Pointers /\ p.write = mem.write /\ p.curr = next
          /\ p.erased = FALSE /\ p.read = mem.read
      BY <1>1, <1>2 DEF Pointers
    <2>2. mem' = Advanced(p) /\ erasing' = erasing
      BY <1>4, <2>0 DEF EnterNext
    <2> HIDE DEF p
    <2>3. /\ mem' \in Pointers /\ mem'.write \in Addr
          /\ mem'.write = IF mem.write + size = SIZE THEN 0 ELSE mem.write + size
          /\ mem'.curr = next /\ mem'.erased = FALSE /\ mem'.read = mem.read
      BY <1>1, <2>1, <2>2, AdvancedIs
    <2> QED
      BY <1>1, <1>4, <2>2, <2>3 DEF EnterNext, BookEnters, next
  <1>5. ASSUME StayInSector
        PROVE  /\ mem' \in Pointers /\ mem'.write \in Addr
               /\ mem'.write = IF mem.write + size = SIZE THEN 0 ELSE mem.write + size
               /\ erasing' \in Sectors \cup {NoErase}
               /\ BookStays
    <2>1. /\ mem' \in Pointers /\ mem'.write \in Addr
          /\ mem'.write = IF mem.write + size = SIZE THEN 0 ELSE mem.write + size
          /\ mem'.curr = mem.curr /\ mem'.erased = mem.erased /\ mem'.read = mem.read
      BY <1>1, <1>5, AdvancedIs DEF StayInSector
    <2>2. mem.erased /\ erasing = NoErase => ~(UsageKB(mem) >= SECTORKB)
      <3> SUFFICES ASSUME mem.erased, erasing = NoErase
                   PROVE  ~(UsageKB(mem) >= SECTORKB)
        OBVIOUS
      <3>1. UsageKB(mem) < SECTORKB
        BY <1>5 DEF StayInSector
      <3>2. UsageKB(mem) \in Int /\ SECTORKB \in Int
        <4>1. SECTORKB \in Int
          BY SizesAssumption
        <4> DEFINE q == (mem.write - mem.curr) \div KB
        <4>2. mem.write \in Int /\ mem.curr \in Int
          BY <1>1, Addresses
        <4>3. q \in Int
          BY <4>2, Sizes
        <4> HIDE DEF q
        <4>4. q % 65536 \in Int
          BY <4>3
        <4> QED
          BY <4>1, <4>4 DEF UsageKB, q
      <3> QED
        BY <3>1, <3>2
    <2> QED
      BY <1>1, <1>5, <2>1, <2>2 DEF StayInSector, BookStays
  <1> QED
    BY <1>3, <1>4, <1>5 DEF Book

\* What InitFlash leaves behind when the log is made new: the pointers at the
\* start, EEPROM as it was, and no cell programmed.
MadeNew(c, o) ==
  /\ o.mem = Origin /\ o.nvr = nvr
  /\ \A x \in Addr : c[x] = "blank" => o.cells[x] = "blank"

\* ... and when it is taken up again from EEPROM: the pointers saved, but for
\* a reader at the start of the sector being prepared; that sector erased,
\* unless its erase fails; and a log in use has it to prepare again.
TakenUp(c, o) ==
  LET next == NextSector(nvr.curr)
  IN  /\ o.mem.curr = nvr.curr /\ o.mem.write = nvr.write
      /\ \/ o.mem.read = nvr.read
         \/ nvr.erased /\ nvr.read = next /\ o.mem.read = NextSector(next)
      /\ o.mem.erased => nvr.erased
      /\ o.nvr = nvr \/ o.nvr = o.mem
      /\ o.ok => ~o.mem.erased
      /\ \/ o.cells = c /\ (~nvr.erased \/ ~o.ok)
         \/ nvr.erased /\ o.cells = Erased(c, next)

\* Logger_InitFlash makes the log new, or takes it up as the NVR describes it.
LEMMA InitFlashIs ==
  ASSUME PInv, NEW isReset \in BOOLEAN, NEW c \in CellMaps,
         NEW o \in InitFlash(isReset, c)
  PROVE  /\ o.mem \in Pointers /\ o.nvr \in Pointers
         /\ o.cells \in CellMaps /\ o.ok \in BOOLEAN
         /\ Afresh(isReset) => MadeNew(c, o)
         /\ ~Afresh(isReset) => nvr # Blank /\ TakenUp(c, o)
  <1>1. nvr \in Pointers /\ (nvr # Blank => nvr.curr \in Sectors)
    BY DEF PInv, TypeOK, PointersInv, InSegment
  <1>2. CASE Afresh(isReset)
    <2>1. PICK S \in SUBSET Sectors :
            o = Outcome(Origin, nvr, ErasedOf(c, S), SIZE - SECTOR \in S)
      BY <1>2 DEF InitFlash, InitDefault
    <2>2. ErasedOf(c, S) \in CellMaps
          /\ \A x \in Addr : c[x] = "blank" => ErasedOf(c, S)[x] = "blank"
      BY DEF ErasedOf, CellMaps
    <2>3. Origin \in Pointers
      BY Sizes DEF Origin, Pointers
    <2>4. /\ o.mem = Origin /\ o.nvr = nvr /\ o.cells = ErasedOf(c, S)
          /\ o.ok = (SIZE - SECTOR \in S)
      BY <2>1 DEF Outcome
    <2> QED
      BY <1>1, <1>2, <2>2, <2>3, <2>4 DEF MadeNew
  <1>3. CASE ~Afresh(isReset)
    <2> DEFINE next == NextSector(nvr.curr)
               r == IF nvr.read = next THEN NextSector(nvr.read) ELSE nvr.read
               m == [nvr EXCEPT !.erased = FALSE, !.read = r]
    <2>1. nvr # Blank
      BY <1>3 DEF Afresh
    <2>2. next \in Sectors /\ NextSector(next) \in Sectors /\ r \in 0 .. SIZE
      <3>1. next \in Sectors /\ NextSector(next) \in Sectors
        BY <1>1, <2>1, NextSectorIs
      <3>2. NextSector(next) \in 0 .. SIZE
        BY <3>1, Addresses, Sizes
      <3>3. nvr.read \in 0 .. SIZE
        BY <1>1 DEF Pointers
      <3> QED
        BY <3>1, <3>2, <3>3
    <2>3. \/ o = Outcome(nvr, nvr, c, TRUE) /\ ~nvr.erased
          \/ /\ nvr.erased
             /\ \/ o = Outcome(m, m, Erased(c, next), TRUE)
                \/ o = Outcome(m, nvr, Erased(c, next), TRUE)
                \/ o = Outcome(m, nvr, Erased(c, next), FALSE)
                \/ o = Outcome(nvr, nvr, c, FALSE)
      BY <1>3 DEF InitFlash, InitFromDB
    <2> HIDE DEF next, r
    <2>4. /\ m \in Pointers /\ m.curr = nvr.curr /\ m.write = nvr.write
          /\ m.read = r /\ m.erased = FALSE
      BY <1>1, <2>2 DEF Pointers
    <2> HIDE DEF m
    <2>5. Erased(c, next) \in CellMaps
      BY DEF Erased, CellMaps
    <2>6. m.read = nvr.read \/ (nvr.read = next /\ m.read = NextSector(next))
      BY <2>4 DEF r
    <2>7. nvr.erased \in BOOLEAN
      BY <1>1 DEF Pointers
    <2>8. CASE o = Outcome(nvr, nvr, c, TRUE) /\ ~nvr.erased
      <3>1. o.mem = nvr /\ o.nvr = nvr /\ o.cells = c /\ o.ok = TRUE
        BY <2>8 DEF Outcome
      <3> QED
        BY <1>1, <1>3, <2>1, <2>8, <3>1 DEF TakenUp
    <2>9. CASE /\ nvr.erased
               /\ \/ o = Outcome(m, m, Erased(c, next), TRUE)
                  \/ o = Outcome(m, nvr, Erased(c, next), TRUE)
                  \/ o = Outcome(m, nvr, Erased(c, next), FALSE)
      <3>1. /\ o.mem = m /\ (o.nvr = m \/ o.nvr = nvr)
            /\ o.cells = Erased(c, next) /\ o.ok \in BOOLEAN
        <4>1. CASE o = Outcome(m, m, Erased(c, next), TRUE)
          BY <4>1 DEF Outcome
        <4>2. CASE o = Outcome(m, nvr, Erased(c, next), TRUE)
          BY <4>2 DEF Outcome
        <4>3. CASE o = Outcome(m, nvr, Erased(c, next), FALSE)
          BY <4>3 DEF Outcome
        <4> QED
          BY <2>9, <4>1, <4>2, <4>3
      <3>2. TakenUp(c, o)
        BY <2>4, <2>6, <2>9, <3>1 DEF TakenUp, next
      <3> QED
        BY <1>1, <1>3, <2>1, <2>4, <2>5, <3>1, <3>2
    <2>10. CASE nvr.erased /\ o = Outcome(nvr, nvr, c, FALSE)
      <3>1. o.mem = nvr /\ o.nvr = nvr /\ o.cells = c /\ o.ok = FALSE
        BY <2>10 DEF Outcome
      <3>2. TakenUp(c, o)
        BY <2>7, <2>10, <3>1 DEF TakenUp
      <3> QED
        BY <1>1, <1>3, <2>1, <3>1, <3>2
    <2> QED
      BY <2>3, <2>8, <2>9, <2>10
  <1> QED
    BY <1>2, <1>3

\* What Program does, with s bytes to write of which w1 and then w2 are taken.
Writes(s, w1, w2) ==
  /\ mem.write + s <= SIZE
  /\ w1 + w2 > 0 => erasing = NoErase
  /\ cells' = Programmed(Programmed(cells, mem.write, w1), mem.write, w2)
  /\ \/ w1 + w2 = s /\ phase' = "book" /\ size' = s
     \/ w1 + w2 # s /\ phase' = "idle" /\ size' = size
  /\ w1 = s /\ w2 = 0 => (mem.write % PAGE) + s <= PAGE
  /\ w2 > 0 => "chunk" \in hazard'
  /\ w1 + w2 > 0 /\ w1 + w2 < s => "partial" \in hazard'
  /\ Unprepared(w1 + w2) => "unprepared" \in hazard'
  /\ hazard \subseteq hazard'
  /\ hazard' \subseteq hazard \cup {"chunk", "partial", "unprepared"}

\* What programming a packet changes, and what it does not.
LEMMA ProgramIs ==
  ASSUME PInv, Program
  PROVE  /\ phase = "idle" /\ ready
         /\ UNCHANGED <<mem, nvr, erasing, ready, restarts>>
         /\ \E s \in 1 .. MAXPKT, w1, w2 \in Nat :
              w1 <= s /\ w2 <= s /\ Writes(s, w1, w2)
  <1>1. phase = "idle" /\ ready /\ UNCHANGED <<mem, nvr, erasing, ready, restarts>>
    BY DEF Program
  <1>2. mem.write \in Addr
    BY DEF PInv, PointersInv, InSegment
  <1>3. PICK n \in 1 .. MAXPKT, u \in {FALSE, "urgent" \in Faults} :
          LET s     == SizeToWrite(mem.write, n, u)
              off   == mem.write % PAGE
              first == IF off # 0 /\ off + s > PAGE THEN PAGE - off ELSE s
          IN  /\ s > 0
              /\ \E w1 \in Accepted(first) :
                 \E w2 \in IF w1 = first /\ first < s THEN Accepted(s - first) ELSE {0} :
                   /\ cells' = Programmed(Programmed(cells, mem.write, w1), mem.write, w2)
                   /\ IF w1 + w2 = s
                      THEN phase' = "book" /\ size' = s
                      ELSE UNCHANGED <<phase, size>>
                   /\ hazard' = hazard
                        \cup (IF w2 > 0 THEN {"chunk"} ELSE {})
                        \cup (IF w1 + w2 \in 1 .. s - 1 THEN {"partial"} ELSE {})
                        \cup (IF Unprepared(w1 + w2) THEN {"unprepared"} ELSE {})
    BY DEF Program
  <1> DEFINE s == SizeToWrite(mem.write, n, u)
             off == mem.write % PAGE
             first == IF off # 0 /\ off + s > PAGE THEN PAGE - off ELSE s
  <1>4. s \in 1 .. MAXPKT /\ mem.write + s <= SIZE /\ s <= PAGE
    <2> HIDE DEF s
    <2>1. s \in 0 .. n /\ mem.write + s <= SIZE
      <3> DEFINE w == mem.write
      <3>1. w \in Addr /\ s = SizeToWrite(w, n, u)
        BY <1>2 DEF s
      <3> HIDE DEF w
      <3>2. s \in 0 .. n /\ w + s <= SIZE
        BY <3>1, SizeToWriteIs
      <3> QED
        BY <3>2 DEF w
    <2>2. s > 0
      BY <1>3 DEF s
    <2> QED
      BY <2>1, <2>2, Sizes
  <1>5. off \in Nat /\ off < PAGE /\ PAGE \in Nat
    <2> DEFINE w == mem.write
    <2>1. w \in Nat
      BY <1>2, Addresses
    <2> HIDE DEF w
    <2>2. w % PAGE \in 0 .. PAGE - 1
      BY <2>1, Sizes, DivMod
    <2> QED
      BY <2>2, Sizes DEF w
  <1> HIDE DEF s, off
  <1>6. first \in 1 .. s /\ (first = s => off + s <= PAGE)
    BY <1>4, <1>5
  <1>7. PICK w1 \in Accepted(first) :
        \E w2 \in IF w1 = first /\ first < s THEN Accepted(s - first) ELSE {0} :
                   /\ cells' = Programmed(Programmed(cells, mem.write, w1), mem.write, w2)
                   /\ IF w1 + w2 = s
                      THEN phase' = "book" /\ size' = s
                      ELSE UNCHANGED <<phase, size>>
                   /\ hazard' = hazard
                        \cup (IF w2 > 0 THEN {"chunk"} ELSE {})
                        \cup (IF w1 + w2 \in 1 .. s - 1 THEN {"partial"} ELSE {})
                        \cup (IF Unprepared(w1 + w2) THEN {"unprepared"} ELSE {})
    BY <1>3 DEF s, off
  <1>8. PICK w2 \in IF w1 = first /\ first < s THEN Accepted(s - first) ELSE {0} :
                   /\ cells' = Programmed(Programmed(cells, mem.write, w1), mem.write, w2)
                   /\ IF w1 + w2 = s
                      THEN phase' = "book" /\ size' = s
                      ELSE UNCHANGED <<phase, size>>
                   /\ hazard' = hazard
                        \cup (IF w2 > 0 THEN {"chunk"} ELSE {})
                        \cup (IF w1 + w2 \in 1 .. s - 1 THEN {"partial"} ELSE {})
                        \cup (IF Unprepared(w1 + w2) THEN {"unprepared"} ELSE {})
    BY <1>7
  <1> HIDE DEF first
  <1>9. \A k \in Nat : Accepted(k) \subseteq 0 .. k
                       /\ (erasing # NoErase => Accepted(k) = {0})
    BY DEF Accepted
  <1>10. w1 \in 0 .. first /\ (erasing # NoErase => w1 = 0)
    BY <1>6, <1>9
  <1>11. /\ w2 \in Nat /\ w2 <= s /\ (erasing # NoErase => w2 = 0)
         /\ w2 > 0 => w1 = first
    <2>1. CASE w1 = first /\ first < s
      <3>1. s - first \in Nat /\ s - first <= s
        BY <1>4, <1>6, <2>1
      <3> DEFINE k == s - first
      <3> HIDE DEF k
      <3>2. w2 \in Accepted(k) /\ k \in Nat /\ k <= s
        BY <2>1, <3>1 DEF k
      <3>3. w2 \in 0 .. k /\ (erasing # NoErase => w2 = 0)
        BY <1>9, <3>2
      <3> QED
        BY <1>4, <2>1, <3>2, <3>3
    <2>2. CASE ~(w1 = first /\ first < s)
      BY <1>4, <2>2
    <2> QED
      BY <2>1, <2>2
  <1>12. w1 \in Nat /\ w1 <= s
    BY <1>4, <1>6, <1>10
  <1>13. Writes(s, w1, w2)
    <2>1. w1 = s /\ w2 = 0 => (mem.write % PAGE) + s <= PAGE
      BY <1>4, <1>6, <1>10 DEF off
    <2>2. w1 + w2 > 0 => erasing = NoErase
      BY <1>10, <1>11, <1>12
    <2>3. /\ w2 > 0 => "chunk" \in hazard'
          /\ Unprepared(w1 + w2) => "unprepared" \in hazard'
          /\ hazard \subseteq hazard'
          /\ hazard' \subseteq hazard \cup {"chunk", "partial", "unprepared"}
      BY <1>8
    <2>4. w1 + w2 > 0 /\ w1 + w2 < s => "partial" \in hazard'
      <3> HAVE w1 + w2 > 0 /\ w1 + w2 < s
      <3>1. w1 + w2 \in 1 .. s - 1
        BY <1>4, <1>11, <1>12
      <3> QED
        BY <1>8, <3>1
    <2>5. \/ w1 + w2 = s /\ phase' = "book" /\ size' = s
          \/ w1 + w2 # s /\ phase' = "idle" /\ size' = size
      BY <1>1, <1>8
    <2> QED
      BY <1>4, <1>8, <2>1, <2>2, <2>3, <2>4, <2>5 DEF Writes
  <1> QED
    BY <1>1, <1>4, <1>11, <1>12, <1>13

\* PInv is inductive: one lemma for each action.
LEMMA ProgramPInv == PInv /\ Program => PInv'
  <1> SUFFICES ASSUME PInv, Program PROVE PInv'
    OBVIOUS
  <1>1. /\ phase = "idle" /\ ready
        /\ mem' = mem /\ nvr' = nvr /\ erasing' = erasing /\ ready' = ready
        /\ restarts' = restarts
    BY ProgramIs
  <1>2. PICK s \in 1 .. MAXPKT, w1, w2 \in Nat :
          w1 <= s /\ w2 <= s /\ Writes(s, w1, w2)
    BY ProgramIs
  <1>3. TypeOK /\ PointersInv /\ StepInv /\ UsageInv /\ ReaderInv
    BY DEF PInv
  <1>4. s \in Nat /\ s > 0 /\ s <= MAXPKT /\ MAXPKT \in Nat
    BY <1>2, Sizes
  <1>5. TypeOK'
    <2>1. cells' \in CellMaps
      <3>1. cells \in CellMaps
        BY <1>3 DEF TypeOK, CellMaps
      <3>2. cells' = Programmed(Programmed(cells, mem.write, w1), mem.write, w2)
        BY <1>2 DEF Writes
      <3>3. Programmed(cells, mem.write, w1) \in CellMaps
        BY <3>1, ProgrammedIs
      <3> QED
        BY <3>2, <3>3, ProgrammedIs
    <2>2. size' \in 0 .. MAXPKT /\ phase' \in {"idle", "book", "save"}
      BY <1>2, <1>3, <1>4 DEF Writes, TypeOK
    <2>3. hazard' \subseteq {"chunk", "partial", "unprepared", "stale", "noinit",
                               "unerased", "switch"}
      BY <1>2, <1>3 DEF Writes, TypeOK
    <2> QED
      BY <1>1, <1>3, <2>1, <2>2, <2>3 DEF TypeOK, CellMaps
  <1>6. PointersInv'
    <2>1. mem.write + size' <= SIZE
      BY <1>2, <1>3 DEF Writes, PointersInv
    <2> QED
      BY <1>1, <1>3, <2>1 DEF PointersInv, InSegment
  <1>7. StepInv'
    BY <1>1, <1>2, <1>3, <1>4 DEF StepInv, Writes
  <1>8. UsageInv'
    <2> SUFFICES ASSUME "unprepared" \notin hazard' PROVE UsageInv'
      BY DEF UsageInv
    <2>1. "unprepared" \notin hazard /\ ~Unprepared(w1 + w2)
      BY <1>2 DEF Writes
    <2>2. ASSUME phase' = "book", ~mem.erased PROVE Off(mem) + size' <= SECTOR
      <3>1. size' = s /\ w1 + w2 = s
        BY <1>2, <2>2 DEF Writes
      <3> DEFINE o == Off(mem)
      <3>2. o \in Nat /\ (mem.write - mem.curr) % SIZE = o
        BY <1>3, OffIs, Sizes DEF PointersInv
      <3> HIDE DEF o
      <3>3. ~(s > SECTOR - o)
        BY <2>1, <2>2, <3>1, <3>2 DEF Unprepared
      <3>4. o + s <= SECTOR
        BY <1>4, <3>2, <3>3, Sizes
      <3> QED
        BY <3>1, <3>4 DEF o
    <2> QED
      BY <1>1, <1>3, <2>1, <2>2 DEF UsageInv, Off
  <1>9. ReaderInv'
    BY <1>1, <1>2, <1>3 DEF ReaderInv, Writes, Home
  <1> QED
    BY <1>5, <1>6, <1>7, <1>8, <1>9 DEF PInv

\* The bookkeeping after a packet: erase ahead, move on, wrap.
LEMMA BookPInv == PInv /\ Book => PInv'
  <1> SUFFICES ASSUME PInv, Book PROVE PInv'
    OBVIOUS
  <1>1. TypeOK /\ PointersInv /\ StepInv /\ UsageInv /\ ReaderInv
    BY DEF PInv
  <1>2. /\ phase = "book" /\ phase' = "save" /\ size' = 0
        /\ nvr' = nvr /\ cells' = cells /\ ready' = ready
        /\ restarts' = restarts /\ hazard' = hazard
    BY DEF Book
  <1>3. /\ mem' \in Pointers /\ mem'.write \in Addr
        /\ mem'.write = IF mem.write + size = SIZE THEN 0 ELSE mem.write + size
        /\ erasing' \in Sectors \cup {NoErase}
        /\ BookErases \/ BookEnters \/ BookStays
    BY BookIs
  <1>4. /\ mem.curr \in Sectors /\ mem.write \in Addr /\ mem.read \in Addr
        /\ mem.write + size <= SIZE /\ InSegment(mem)
    BY <1>1 DEF PointersInv, InSegment
  <1>5. NextSector(mem.curr) \in Sectors /\ NextSector(mem.curr) # mem.curr
        /\ \A a \in Sectors : NextSector(a) \in Sectors /\ NextSector(a) # a
    BY <1>4, NextSectorIs
  <1>6. size \in Nat /\ size > 0 /\ size <= MAXPKT /\ erasing = NoErase
        /\ mem.erased \in BOOLEAN
    BY <1>1, <1>2, Sizes DEF TypeOK, StepInv, Pointers
  <1>7. TypeOK'
    BY <1>1, <1>2, <1>3, Sizes DEF TypeOK
  <1>8. mem'.curr \in Sectors /\ mem'.read \in Addr
    BY <1>3, <1>4, <1>5, Addresses DEF BookErases, BookEnters, BookStays
  <1>9. InSegment(mem')
    BY <1>3, <1>8 DEF InSegment
  <1>10. PointersInv'
    <2>1. mem'.write + size' <= SIZE
      BY <1>2, <1>3, Addresses, Sizes
    <2> QED
      BY <1>1, <1>2, <1>9, <2>1 DEF PointersInv
  <1>11. StepInv'
    <2>1. erasing' # NoErase => mem'.erased /\ erasing' = NextSector(mem'.curr)
      BY <1>3, <1>6 DEF BookErases, BookEnters, BookStays
    <2> QED
      BY <1>1, <1>2, <2>1 DEF StepInv
  <1>12. UsageInv'
    <2> SUFFICES ASSUME "unprepared" \notin hazard PROVE UsageInv'
      BY <1>2 DEF UsageInv
    <2> DEFINE o == Off(mem)
               p == Off(mem')
    <2>1. o \in Nat /\ p \in Nat /\ p < SIZE
      BY <1>4, <1>9, OffIs, Sizes
    <2>2. o < SECTOR + MAXPKT /\ (~mem.erased => o + size <= SECTOR)
      BY <1>1, <1>2 DEF UsageInv
    <2>3. /\ mem'.curr = mem.curr => p = o + size \/ p = o + size - SIZE
          /\ mem'.curr = NextSector(mem.curr) /\ o >= SECTOR
             /\ o + size < SECTOR + SIZE => p = o + size - SECTOR
      <3>1. o \in Int /\ p \in Int
        BY <2>1
      <3> QED
        BY <1>3, <1>4, <1>6, <1>9, <3>1, OffAdvances
    <2>4. UsageKB(mem) >= SECTORKB <=> o >= SECTOR
      <3>1. o \in Int /\ o < SECTOR + SECTOR /\ SECTORKB \in Nat
        BY <2>1, <2>2, Sizes, SizesAssumption
      <3> HIDE DEF o
      <3>2. UsageKB(mem) >= SECTORKB <=> o >= SECTORKB * KB
        BY <1>4, <3>1, UsageTells DEF o
      <3> QED
        BY <3>2, Sizes
    <2> HIDE DEF o, p
    <2>5. p < SECTOR + MAXPKT
      <3>1. CASE BookErases
        BY <1>6, <2>1, <2>2, <2>3, <3>1, Sizes DEF BookErases
      <3>2. CASE BookEnters
        BY <1>6, <2>1, <2>2, <2>3, <2>4, <3>2, Sizes DEF BookEnters
      <3>3. CASE BookStays
        BY <1>6, <2>1, <2>2, <2>3, <2>4, <3>3, Sizes DEF BookStays
      <3> QED
        BY <1>3, <3>1, <3>2, <3>3
    <2>6. erasing' # NoErase => p <= SECTOR
      <3> SUFFICES ASSUME erasing' # NoErase PROVE p <= SECTOR
        OBVIOUS
      <3>1. BookErases
        BY <1>3, <1>6 DEF BookEnters, BookStays
      <3> QED
        BY <1>6, <2>1, <2>2, <2>3, <3>1, Sizes DEF BookErases
    <2> QED
      BY <1>1, <1>2, <2>5, <2>6 DEF UsageInv, p
  <1>13. ReaderInv'
    <2> SUFFICES ASSUME "switch" \notin hazard PROVE ReaderInv'
      BY <1>2 DEF ReaderInv
    <2>1. Home(mem) /\ (nvr # Blank => Home(nvr))
      BY <1>1 DEF ReaderInv
    <2>2. Home(mem')
      BY <1>3, <1>5, <2>1 DEF Home, BookErases, BookEnters, BookStays
    <2> QED
      BY <1>2, <2>1, <2>2 DEF ReaderInv
  <1> QED
    BY <1>7, <1>10, <1>11, <1>12, <1>13 DEF PInv

\* The pointers go to the NVR, or are refused.
LEMMA SavePInv == PInv /\ SaveNVR => PInv'
  <1> SUFFICES ASSUME PInv, SaveNVR PROVE PInv'
    OBVIOUS
  <1>1. TypeOK /\ PointersInv /\ StepInv /\ UsageInv /\ ReaderInv
    BY DEF PInv
  <1>2. /\ phase = "save" /\ phase' = "idle" /\ (nvr' = mem \/ nvr' = nvr)
        /\ mem' = mem /\ erasing' = erasing /\ cells' = cells /\ size' = size
        /\ ready' = ready /\ restarts' = restarts /\ hazard' = hazard
    BY DEF SaveNVR
  <1>3. TypeOK'
    BY <1>1, <1>2 DEF TypeOK
  <1>4. PointersInv'
    BY <1>1, <1>2 DEF PointersInv
  <1>5. StepInv'
    BY <1>1, <1>2 DEF StepInv
  <1>6. UsageInv'
    BY <1>1, <1>2 DEF UsageInv
  <1>7. ReaderInv'
    BY <1>1, <1>2 DEF ReaderInv
  <1> QED
    BY <1>3, <1>4, <1>5, <1>6, <1>7 DEF PInv

\* The driver has finished the erase that was asked for.
LEMMA EraseDonePInv == PInv /\ EraseDone => PInv'
  <1> SUFFICES ASSUME PInv, EraseDone PROVE PInv'
    OBVIOUS
  <1>1. TypeOK /\ PointersInv /\ StepInv /\ UsageInv /\ ReaderInv
    BY DEF PInv
  <1>2. /\ erasing' = NoErase /\ cells' = Erased(cells, erasing)
        /\ mem' = mem /\ nvr' = nvr /\ phase' = phase /\ size' = size
        /\ ready' = ready /\ restarts' = restarts /\ hazard' = hazard
    BY DEF EraseDone
  <1>3. TypeOK'
    <2>1. cells' \in [Addr -> {"blank", "live", "garbled"}]
      BY <1>1, <1>2 DEF Erased, TypeOK
    <2> QED
      BY <1>1, <1>2, <2>1 DEF TypeOK
  <1>4. PointersInv'
    BY <1>1, <1>2 DEF PointersInv
  <1>5. StepInv'
    BY <1>1, <1>2 DEF StepInv
  <1>6. UsageInv'
    BY <1>1, <1>2 DEF UsageInv
  <1>7. ReaderInv'
    BY <1>1, <1>2 DEF ReaderInv
  <1> QED
    BY <1>3, <1>4, <1>5, <1>6, <1>7 DEF PInv

\* Switching on moves the reader to the writer; when no hazard comes of it that
\* is the start of a sector, and none is being prepared.
LEMMA SwitchedIs ==
  ASSUME NEW m \in Pointers, InSegment(m)
  PROVE  LET n == SwitchedOn(m)
         IN  /\ n \in Pointers /\ InSegment(n) /\ Off(n) = Off(m)
             /\ n.curr = m.curr /\ n.write = m.write /\ n.read = m.write
             /\ n.erased = m.erased
             /\ "switch" \notin NoteSwitch(m) => Home(n)
  <1> DEFINE n == SwitchedOn(m)
  <1>1. /\ n \in Pointers /\ n.curr = m.curr /\ n.write = m.write
        /\ n.read = m.write /\ n.erased = m.erased
    BY DEF SwitchedOn, Pointers
  <1> HIDE DEF n
  <1>2. InSegment(n) /\ Off(n) = Off(m)
    BY <1>1 DEF InSegment, Off
  <1>3. ASSUME "switch" \notin NoteSwitch(m) PROVE Home(n)
    <2>1. m.write % SECTOR = 0 /\ ~m.erased
      BY <1>3 DEF NoteSwitch
    <2>2. m.write \in Sectors
      BY <2>1 DEF InSegment, Sectors
    <2> QED
      BY <1>1, <2>1, <2>2 DEF Home
  <1> QED
    BY <1>1, <1>2, <1>3 DEF n

\* Switching on moves the reader to the writer.
LEMMA SwitchPInv == PInv /\ SwitchOn => PInv'
  <1> SUFFICES ASSUME PInv, SwitchOn PROVE PInv'
    OBVIOUS
  <1>1. TypeOK /\ PointersInv /\ StepInv /\ UsageInv /\ ReaderInv
    BY DEF PInv
  <1>2. /\ phase = "idle" /\ mem' = SwitchedOn(mem) /\ (nvr' = mem' \/ nvr' = nvr)
        /\ erasing' = erasing /\ cells' = cells /\ phase' = phase /\ size' = size
        /\ ready' = ready /\ restarts' = restarts
        /\ hazard' = hazard \cup NoteSwitch(mem) \cup (IF ready THEN {} ELSE {"noinit"})
    BY DEF SwitchOn
  <1>3. /\ mem' \in Pointers /\ InSegment(mem') /\ Off(mem') = Off(mem)
        /\ mem'.curr = mem.curr /\ mem'.write = mem.write /\ mem'.read = mem.write
        /\ mem'.erased = mem.erased
        /\ "switch" \notin NoteSwitch(mem) => Home(mem')
    BY <1>1, <1>2, SwitchedIs DEF TypeOK, PointersInv
  <1>4. TypeOK'
    BY <1>1, <1>2, <1>3 DEF TypeOK, NoteSwitch
  <1>5. PointersInv'
    BY <1>1, <1>2, <1>3 DEF PointersInv
  <1>6. StepInv'
    BY <1>1, <1>2, <1>3 DEF StepInv
  <1>7. UsageInv'
    <2> SUFFICES ASSUME "unprepared" \notin hazard' PROVE UsageInv'
      BY DEF UsageInv
    <2>1. "unprepared" \notin hazard
      BY <1>2
    <2> QED
      BY <1>1, <1>2, <1>3, <2>1 DEF UsageInv
  <1>8. ReaderInv'
    <2> SUFFICES ASSUME "switch" \notin hazard' PROVE ReaderInv'
      BY DEF ReaderInv
    <2>1. "switch" \notin hazard /\ "switch" \notin NoteSwitch(mem)
      BY <1>2
    <2> QED
      BY <1>1, <1>2, <1>3, <2>1 DEF ReaderInv
  <1> QED
    BY <1>4, <1>5, <1>6, <1>7, <1>8 DEF PInv

\* Whatever InitFlash leaves behind has its pointers in order.
LEMMA OutcomePInv ==
  ASSUME PInv, NEW isReset \in BOOLEAN, NEW c \in CellMaps,
         NEW o \in InitFlash(isReset, c)
  PROVE  /\ InSegment(o.mem) /\ (o.nvr # Blank => InSegment(o.nvr))
         /\ "unprepared" \notin hazard =>
              /\ Off(o.mem) < SECTOR + MAXPKT
              /\ o.nvr # Blank => Off(o.nvr) < SECTOR + MAXPKT
         /\ "switch" \notin hazard =>
              Home(o.mem) /\ (o.nvr # Blank => Home(o.nvr))
  <1>1. PointersInv /\ UsageInv /\ ReaderInv
    BY DEF PInv
  <1>2. o.nvr = nvr \/ o.nvr = o.mem
    BY InitFlashIs DEF MadeNew, TakenUp
  <1>3. CASE Afresh(isReset)
    <2>1. o.mem = Origin
      BY <1>3, InitFlashIs DEF MadeNew
    <2>2. o.mem.curr = 0 /\ o.mem.write = 0 /\ o.mem.read = 0 /\ o.mem.erased = FALSE
      BY <2>1 DEF Origin
    <2>3. InSegment(o.mem) /\ Home(o.mem)
      BY <2>2, SectorStarts, Addresses DEF InSegment, Home
    <2>4. Off(o.mem) = 0
      BY <2>2 DEF Off
    <2>5. Off(o.mem) < SECTOR + MAXPKT
      BY <2>4, Sizes
    <2> QED
      BY <1>1, <1>2, <2>3, <2>5 DEF PointersInv, UsageInv, ReaderInv
  <1>4. CASE ~Afresh(isReset)
    <2>1. nvr # Blank /\ TakenUp(c, o)
      BY <1>4, InitFlashIs
    <2>2. InSegment(nvr) /\ nvr.curr \in Sectors /\ nvr.write \in Addr /\ nvr.read \in Addr
      BY <1>1, <2>1 DEF PointersInv, InSegment
    <2>3. NextSector(NextSector(nvr.curr)) \in Sectors
      BY <2>2, NextSectorIs
    <2>4. o.mem.curr = nvr.curr /\ o.mem.write = nvr.write
          /\ (o.mem.erased => nvr.erased)
          /\ \/ o.mem.read = nvr.read
             \/ /\ nvr.erased /\ nvr.read = NextSector(nvr.curr)
                /\ o.mem.read = NextSector(NextSector(nvr.curr))
      BY <2>1 DEF TakenUp
    <2>5. InSegment(o.mem) /\ Off(o.mem) = Off(nvr)
      BY <2>2, <2>3, <2>4, Addresses DEF InSegment, Off
    <2>6. Home(nvr) => Home(o.mem)
      BY <2>3, <2>4 DEF Home
    <2> QED
      BY <1>1, <1>2, <2>1, <2>5, <2>6 DEF PointersInv, UsageInv, ReaderInv
  <1> QED
    BY <1>3, <1>4

\* What a loss of power leaves is FLASH still, and the sectors that were not
\* being erased are as they were.
LEMMA AfterLossIs ==
  ASSUME PInv, NEW c \in AfterLoss
  PROVE  /\ c \in CellMaps
         /\ erasing = NoErase => c = cells
         /\ \A x \in Addr : x \notin SectorCells(erasing) => c[x] = cells[x]
  <1>1. cells \in CellMaps
    BY DEF PInv, TypeOK, CellMaps
  <1> QED
    BY <1>1 DEF AfterLoss, Erased, CellMaps

\* A power cycle: the pointers come back as they were saved.
LEMMA RestartPInv == PInv /\ (\E r \in BOOLEAN : Restart(r)) => PInv'
  <1> SUFFICES ASSUME PInv, NEW isReset \in BOOLEAN, Restart(isReset) PROVE PInv'
    OBVIOUS
  <1>1. TypeOK /\ PointersInv /\ StepInv /\ UsageInv /\ ReaderInv
    BY DEF PInv
  <1>0. PICK c \in AfterLoss : \E o \in InitFlash(isReset, c) :
          /\ mem' = o.mem /\ nvr' = o.nvr /\ cells' = o.cells /\ ready' = o.ok
          /\ hazard' = Remember(isReset, o)
    BY DEF Restart
  <1>2. PICK o \in InitFlash(isReset, c) :
          /\ mem' = o.mem /\ nvr' = o.nvr /\ cells' = o.cells /\ ready' = o.ok
          /\ hazard' = Remember(isReset, o)
    BY <1>0
  <1>3. /\ erasing' = NoErase /\ phase' = "idle" /\ size' = 0
        /\ restarts' = restarts + 1 /\ restarts < MAXRESTARTS
    BY DEF Restart
  <1>4. c \in CellMaps
    BY AfterLossIs
  <1>5. /\ o.mem \in Pointers /\ o.nvr \in Pointers
        /\ o.cells \in CellMaps /\ o.ok \in BOOLEAN
    BY <1>4, InitFlashIs
  <1>6. hazard \subseteq hazard'
        /\ hazard' \subseteq hazard \cup {"unerased", "stale"}
    BY <1>2 DEF Remember
  <1>7. TypeOK'
    <2>1. restarts' \in 0 .. MAXRESTARTS
      <3>1. MAXRESTARTS \in Nat /\ restarts \in 0 .. MAXRESTARTS
        BY <1>1, SizesAssumption DEF TypeOK
      <3> QED
        BY <1>3, <3>1
    <2>2. hazard' \subseteq {"chunk", "partial", "unprepared", "stale", "noinit",
                              "unerased", "switch"}
      BY <1>1, <1>6 DEF TypeOK
    <2> QED
      BY <1>2, <1>3, <1>5, <2>1, <2>2, Sizes DEF TypeOK, CellMaps
  <1>8. PointersInv'
    <2>1. InSegment(mem') /\ (nvr' # Blank => InSegment(nvr'))
      BY <1>2, <1>4, OutcomePInv
    <2>2. mem'.write + size' <= SIZE
      BY <1>3, <2>1, Addresses, Sizes DEF InSegment
    <2> QED
      BY <2>1, <2>2 DEF PointersInv
  <1>9. StepInv'
    BY <1>3 DEF StepInv
  <1>10. UsageInv'
    <2> SUFFICES ASSUME "unprepared" \notin hazard PROVE UsageInv'
      BY <1>6 DEF UsageInv
    <2> QED
      BY <1>2, <1>3, <1>4, OutcomePInv DEF UsageInv
  <1>11. ReaderInv'
    <2> SUFFICES ASSUME "switch" \notin hazard PROVE ReaderInv'
      BY <1>6 DEF ReaderInv
    <2> QED
      BY <1>2, <1>4, OutcomePInv DEF ReaderInv
  <1> QED
    BY <1>7, <1>8, <1>9, <1>10, <1>11 DEF PInv

\* What a new configuration does, given the FLASH c it finds.
Configures(isReset, isOn, c, o) ==
  /\ cells' = o.cells
  /\ mem' = IF isOn THEN SwitchedOn(o.mem) ELSE o.mem
  /\ nvr' = o.nvr \/ (isOn /\ nvr' = mem')
  /\ hazard' = Remember(isReset, o)
                 \cup (IF o.ok THEN {} ELSE {"noinit"})
                 \cup (IF isOn THEN NoteSwitch(o.mem) ELSE {})
  /\ phase = "idle" /\ phase' = "idle" /\ size' = size
  /\ erasing' = NoErase /\ ready' = TRUE
  /\ restarts' = restarts + 1 /\ restarts < MAXRESTARTS

\* What a server configuration leaves, field by field.
LEMMA ConfigIs ==
  ASSUME PInv, NEW isReset \in BOOLEAN, NEW isOn \in BOOLEAN,
         ServerConfig(isReset, isOn)
  PROVE  \E c \in AfterLoss : \E o \in InitFlash(isReset, c) :
           /\ Configures(isReset, isOn, c, o)
           /\ erasing # NoErase => c = Erased(cells, erasing)
  <1> DEFINE c == IF erasing = NoErase THEN cells ELSE Erased(cells, erasing)
  <1>1. c \in AfterLoss /\ (erasing # NoErase => c = Erased(cells, erasing))
    BY DEF AfterLoss
  <1>2. PICK o \in InitFlash(isReset, c) :
          /\ cells' = o.cells
          /\ mem' = IF isOn THEN SwitchedOn(o.mem) ELSE o.mem
          /\ nvr' \in IF ~isOn THEN {o.nvr}
                      ELSE IF "nvr" \in Faults THEN {mem', o.nvr} ELSE {mem'}
          /\ hazard' = Remember(isReset, o)
                         \cup (IF o.ok THEN {} ELSE {"noinit"})
                         \cup (IF isOn THEN NoteSwitch(o.mem) ELSE {})
    BY DEF ServerConfig
  <1> HIDE DEF c
  <1>3. nvr' = o.nvr \/ (isOn /\ nvr' = mem')
    BY <1>2
  <1>4. Configures(isReset, isOn, c, o)
    BY <1>2, <1>3 DEF Configures, ServerConfig
  <1> QED
    BY <1>1, <1>4

\* A server configuration takes the log over or makes it new.
LEMMA ConfigPInv == PInv /\ (\E r, o \in BOOLEAN : ServerConfig(r, o)) => PInv'
  <1> SUFFICES ASSUME PInv, NEW isReset \in BOOLEAN, NEW isOn \in BOOLEAN,
                      ServerConfig(isReset, isOn)
               PROVE  PInv'
    OBVIOUS
  <1>1. TypeOK /\ PointersInv /\ StepInv /\ UsageInv /\ ReaderInv
    BY DEF PInv
  <1>0. PICK c \in AfterLoss :
          \E o \in InitFlash(isReset, c) : Configures(isReset, isOn, c, o)
    BY ConfigIs
  <1>2. PICK o \in InitFlash(isReset, c) : Configures(isReset, isOn, c, o)
    BY <1>0
  <1>3. /\ erasing' = NoErase /\ phase' = "idle" /\ size' = 0 /\ ready' = TRUE
        /\ restarts' = restarts + 1 /\ restarts < MAXRESTARTS
        /\ cells' = o.cells
    BY <1>1, <1>2 DEF Configures, StepInv
  <1>4. c \in CellMaps
    BY AfterLossIs
  <1>5. /\ o.mem \in Pointers /\ o.nvr \in Pointers
        /\ o.cells \in CellMaps /\ o.ok \in BOOLEAN
    BY <1>4, InitFlashIs
  <1>6. /\ InSegment(o.mem) /\ (o.nvr # Blank => InSegment(o.nvr))
        /\ "unprepared" \notin hazard =>
             /\ Off(o.mem) < SECTOR + MAXPKT
             /\ o.nvr # Blank => Off(o.nvr) < SECTOR + MAXPKT
        /\ "switch" \notin hazard =>
             Home(o.mem) /\ (o.nvr # Blank => Home(o.nvr))
    BY <1>4, OutcomePInv
  <1>7. /\ mem' \in Pointers /\ InSegment(mem') /\ Off(mem') = Off(o.mem)
        /\ "switch" \notin hazard' => Home(mem')
    <2>1. CASE isOn
      <3>1. mem' = SwitchedOn(o.mem)
        BY <1>2, <2>1 DEF Configures
      <3>2. "switch" \notin hazard' => "switch" \notin NoteSwitch(o.mem)
        BY <1>2, <2>1 DEF Configures
      <3> QED
        BY <1>5, <1>6, <3>1, <3>2, SwitchedIs
    <2>2. CASE ~isOn
      <3>1. mem' = o.mem
        BY <1>2, <2>2 DEF Configures
      <3>2. "switch" \notin hazard' => "switch" \notin hazard
        BY <1>2, <2>2 DEF Configures, Remember
      <3> QED
        BY <1>5, <1>6, <3>1, <3>2
    <2> QED
      BY <2>1, <2>2
  <1>8. nvr' = o.nvr \/ nvr' = mem'
    BY <1>2 DEF Configures
  <1>9. hazard \subseteq hazard'
        /\ hazard' \subseteq hazard \cup {"unerased", "stale", "noinit", "switch"}
    BY <1>2 DEF Configures, Remember, NoteSwitch
  <1>10. TypeOK'
    <2>1. restarts' \in 0 .. MAXRESTARTS
      <3>1. MAXRESTARTS \in Nat /\ restarts \in 0 .. MAXRESTARTS
        BY <1>1, SizesAssumption DEF TypeOK
      <3> QED
        BY <1>3, <3>1
    <2>2. nvr' \in Pointers
      BY <1>5, <1>7, <1>8
    <2>3. hazard' \subseteq {"chunk", "partial", "unprepared", "stale", "noinit",
                              "unerased", "switch"}
      BY <1>1, <1>9 DEF TypeOK
    <2> QED
      BY <1>3, <1>5, <1>7, <2>1, <2>2, <2>3, Sizes DEF TypeOK, CellMaps
  <1>11. PointersInv'
    <2>1. mem'.write + size' <= SIZE
      BY <1>3, <1>7, Addresses, Sizes DEF InSegment
    <2> QED
      BY <1>6, <1>7, <1>8, <2>1 DEF PointersInv
  <1>12. StepInv'
    BY <1>3 DEF StepInv
  <1>13. UsageInv'
    <2> SUFFICES ASSUME "unprepared" \notin hazard PROVE UsageInv'
      BY <1>9 DEF UsageInv
    <2> QED
      BY <1>3, <1>6, <1>7, <1>8 DEF UsageInv
  <1>14. ReaderInv'
    <2> SUFFICES ASSUME "switch" \notin hazard' PROVE ReaderInv'
      BY DEF ReaderInv
    <2>1. "switch" \notin hazard
      BY <1>9
    <2> QED
      BY <1>6, <1>7, <1>8, <2>1 DEF ReaderInv
  <1> QED
    BY <1>10, <1>11, <1>12, <1>13, <1>14 DEF PInv

\* The pointers at first.
LEMMA InitPInv == Init => PInv
  <1> SUFFICES ASSUME Init PROVE PInv
    OBVIOUS
  <1>1. /\ mem = Origin /\ nvr = Blank /\ erasing = NoErase /\ cells = AllBlank
        /\ phase = "idle" /\ size = 0 /\ ready = TRUE /\ restarts = 0 /\ hazard = {}
    BY DEF Init
  <1>2. /\ Origin \in Pointers /\ Blank \in Pointers
        /\ Origin.curr = 0 /\ Origin.write = 0 /\ Origin.read = 0
        /\ Origin.erased = FALSE
    BY Sizes DEF Origin, Blank, Pointers
  <1>3. TypeOK
    <2>1. restarts \in 0 .. MAXRESTARTS
      BY <1>1, SizesAssumption
    <2>2. size \in 0 .. MAXPKT
      BY <1>1, Sizes
    <2>3. cells \in [Addr -> {"blank", "live", "garbled"}]
      BY <1>1 DEF AllBlank
    <2> QED
      BY <1>1, <1>2, <2>1, <2>2, <2>3 DEF TypeOK
  <1>4. InSegment(mem) /\ Home(mem)
    BY <1>1, <1>2, SectorStarts, Addresses DEF InSegment, Home
  <1>5. mem.write + size <= SIZE
    BY <1>1, <1>2, Sizes
  <1>6. Off(mem) < SECTOR + MAXPKT
    <2>1. Off(mem) = 0
      BY <1>1, <1>2 DEF Off
    <2> QED
      BY <2>1, Sizes
  <1> QED
    BY <1>1, <1>3, <1>4, <1>5, <1>6
       DEF PInv, PointersInv, StepInv, UsageInv, ReaderInv

\* Every step keeps the pointers, whatever fault is in it.
LEMMA NextPInv == PInv /\ [Next]_vars => PInv'
  <1> SUFFICES ASSUME PInv, [Next]_vars PROVE PInv'
    OBVIOUS
  <1>1. CASE UNCHANGED vars
    BY <1>1 DEF vars, PInv, TypeOK, PointersInv, StepInv, UsageInv, ReaderInv
  <1> QED
    BY <1>1, ProgramPInv, BookPInv, SavePInv, EraseDonePInv, SwitchPInv,
       RestartPInv, ConfigPInv DEF Next

\* The pointers are sound in every behaviour, every hazard included
\* (Logger_SendPacketFlash, Logger_InitFlash).
THEOREM PointersHold == Spec => []PInv
  BY InitPInv, NextPInv, PTL DEF Spec

\* Every variable holds a value of its kind: in particular no restart, no
\* fault and no sequence of packets takes a pointer out of the segment's range.
THEOREM TypeCorrect == Spec => []TypeOK
  <1>1. PInv => TypeOK
    BY DEF PInv
  <1> QED
    BY <1>1, PointersHold, PTL

\* The write pointer stays in the segment, and the packet being written ends
\* in it, whatever happens.
THEOREM WritesInSegment == Spec => []WriteInSegment
  <1>1. PInv => WriteInSegment
    BY DEF PInv, PointersInv, InSegment, WriteInSegment
  <1> QED
    BY <1>1, PointersHold, PTL

\* CurrSectorAddr and WriteAddr stay together, whatever the packet sizes, the
\* threshold and the faults, but for an erase that never came.
THEOREM SectorsKept == Spec => []SectorBookkeeping
  <1>1. ASSUME PInv PROVE SectorBookkeeping
    <2>1. InSegment(mem) /\ UsageInv
      BY <1>1 DEF PInv, PointersInv
    <2>2. (mem.write - mem.curr) % SIZE = Off(mem)
      BY <2>1, OffIs
    <2> QED
      BY <2>1, <2>2 DEF SectorBookkeeping, UsageInv, InSegment
  <1> QED
    BY <1>1, PointersHold, PTL

-----------------------------------------------------------------------------
(* The log and the sector being prepared.                                  *)

\* While the writer is not past the end of its sector, a reader elsewhere than
\* at the start of the next sector has nothing of that sector before it.
LEMMA NextIsOutside ==
  ASSUME NEW m, InSegment(m), m.read \in Sectors,
         m.read # NextSector(m.curr), NEW o \in Int, o = Off(m), o <= SECTOR
  PROVE  \A a \in SectorCells(NextSector(m.curr)) : a \notin Window(m.read, m.write)
  <1> DEFINE c == m.curr
             w == m.write
             r == m.read
             next == NextSector(c)
             S == SIZE
             T == SECTOR
  <1>1. /\ c \in Nat /\ c + T <= S /\ w \in Nat /\ w < S /\ r \in Nat /\ r + T <= S
        /\ next \in Nat /\ next + T <= S
        /\ S \in Nat /\ T \in Nat /\ T > 0
    <2>1. c \in Sectors /\ w \in Addr /\ r \in Sectors /\ next \in Sectors
      BY NextSectorIs DEF InSegment
    <2> HIDE DEF c, w, r, next
    <2> QED
      BY <2>1, Addresses, Sizes, SectorStarts
  <1>2. next = IF c = S - T THEN 0 ELSE c + T
    BY NextSectorIs DEF InSegment
  <1>3. /\ r < next => r + T <= next
        /\ next < r => next + T <= r
        /\ c < r => c + T <= r
        /\ r < c => r + T <= c
    BY SectorStarts, NextSectorIs DEF InSegment
  <1>4. w = IF c + o < S THEN c + o ELSE c + o - S
    BY OffIs
  <1>5. o >= 0
    BY OffIs, Sizes
  <1>6. r # next
    OBVIOUS
  <1> SUFFICES ASSUME NEW a \in SectorCells(next), a \in Window(r, w)
               PROVE  FALSE
    OBVIOUS
  <1> HIDE DEF c, w, r, next, S, T
  <1>7. a \in Int /\ a >= next /\ a < next + T
    BY <1>1 DEF SectorCells, T
  <1>8. IF w >= r THEN a >= r /\ a < w ELSE (a >= r /\ a < S) \/ (a >= 0 /\ a < w)
    BY <1>1 DEF Window, S
  <1>9. o <= T
    BY DEF T
  <1>10. CASE c = S - T
    BY <1>1, <1>2, <1>3, <1>4, <1>5, <1>6, <1>7, <1>8, <1>9, <1>10
  <1>11. CASE c # S - T
    BY <1>1, <1>2, <1>3, <1>4, <1>5, <1>6, <1>7, <1>8, <1>9, <1>11
  <1> QED
    BY <1>10, <1>11

\* No reader is left in a sector whose erase is pending.
THEOREM ReaderLeaves == Spec => []ReaderLeavesErased
  <1>1. ASSUME PInv PROVE ReaderLeavesErased
    <2> SUFFICES ASSUME erasing # NoErase, "switch" \notin hazard,
                        "unprepared" \notin hazard
                 PROVE  \A a \in SectorCells(erasing) : a \notin Window(mem.read, mem.write)
      BY DEF ReaderLeavesErased
    <2>1. /\ InSegment(mem) /\ mem.read \in Sectors /\ mem.erased
          /\ mem.read # NextSector(mem.curr) /\ erasing = NextSector(mem.curr)
      BY <1>1 DEF PInv, PointersInv, StepInv, ReaderInv, Home
    <2>2. Off(mem) <= SECTOR
      BY <1>1 DEF PInv, UsageInv
    <2>3. Off(mem) \in Int
      BY <2>1, OffIs, Sizes
    <2> QED
      BY <2>1, <2>2, <2>3, NextIsOutside
  <1> QED
    BY <1>1, PointersHold, PTL

\* The cells of the sector at s from its k-th on.
BlankFrom(c, s, k) == \A a \in SectorCells(s) : a >= s + k => c[a] = "blank"

\* The pointers in use are those a restart would find, or the log is in use.
Described == ready \/ (nvr # Blank /\ ~Stale)

\* The packet being written is.
PacketStored ==
  phase = "book" => \A a \in mem.write .. mem.write + size - 1 : cells[a] = "live"

\* What is left of the writer's sector is erased, ...
RestBlank == Described => BlankFrom(cells, mem.curr, Off(mem) + size)

\* ... and so is the next sector once it is prepared, but for the packet that
\* is the first in it.
NextBlank ==
  ready /\ mem.erased /\ erasing = NoErase =>
    BlankFrom(cells, NextSector(mem.curr), Off(mem) + size - SECTOR)

\* A packet ends where its sector ends, at the latest.
WriterInv == Off(mem) <= SECTOR /\ (Off(mem) < SECTOR => Off(mem) + size <= SECTOR)

LogInv ==
  hazard = {} => WriterInv /\ LogStored /\ PacketStored /\ RestBlank /\ NextBlank

IInv == PInv /\ LogInv

\* A packet within its page is within its sector.
LEMMA PageInSector ==
  ASSUME NEW c \in Sectors, NEW w \in Nat, w < c + SECTOR, NEW s \in Nat,
         (w % PAGE) + s <= PAGE
  PROVE  w + s <= c + SECTOR
  <1>1. c \in Nat /\ c % SECTOR = 0
    BY SectorStarts
  <1>2. PICK i \in Nat : c = i * SECTOR
    BY <1>1, Sizes, Multiple
  <1>3. PICK j \in Nat : SECTOR = j * PAGE
    BY Sizes, Multiple
  <1> DEFINE k == (i + 1) * j
  <1>4. k \in Nat /\ c + SECTOR = k * PAGE
    BY <1>2, <1>3, Sizes
  <1> DEFINE q == w \div PAGE
             r == w % PAGE
  <1>5. q \in Nat /\ r \in Nat /\ w = q * PAGE + r
    <2> HIDE DEF k
    <2>1. PAGE \in Nat \ {0}
      BY Sizes
    <2>2. q \in Nat /\ r \in 0 .. PAGE - 1 /\ w = q * PAGE + r
      BY <2>1, DivMod
    <2> HIDE DEF q, r
    <2> QED
      BY <2>1, <2>2
  <1>6. r + s <= PAGE
    OBVIOUS
  <1> HIDE DEF k, q, r
  <1>7. q * PAGE \in Nat /\ k * PAGE \in Nat /\ PAGE \in Nat \ {0}
    BY <1>4, <1>5, Sizes, Products
  <1>8. q * PAGE < k * PAGE
    BY <1>4, <1>5, <1>7
  <1>9. q * PAGE + PAGE <= k * PAGE
    BY <1>4, <1>5, <1>8, Sizes, Products
  <1> QED
    BY <1>4, <1>5, <1>6, <1>7, <1>9

\* The window is in the segment.
LEMMA WindowIn ==
  ASSUME NEW r \in Addr, NEW w \in Addr
  PROVE  Window(r, w) \subseteq Addr
  BY Addresses, Sizes DEF Window

\* A packet adds itself to the window, or overtakes the reader and leaves less.
LEMMA WindowAdvances ==
  ASSUME NEW r \in Addr, NEW w \in Addr, NEW k \in Nat, w + k <= SIZE,
         NEW v, v = IF w + k = SIZE THEN 0 ELSE w + k
  PROVE  \A a \in Window(r, v) : a \in Window(r, w) \/ a \in w .. w + k - 1
  <1>1. r \in Nat /\ r < SIZE /\ w \in Nat /\ w < SIZE /\ SIZE \in Nat
    BY Addresses, Sizes
  <1>2. CASE w + k = SIZE
    BY <1>1, <1>2 DEF Window
  <1>3. CASE w + k # SIZE
    BY <1>1, <1>3 DEF Window
  <1> QED
    BY <1>2, <1>3

\* A reader that leaves the next sector takes nothing but cells from the
\* window, while the writer is in its own.
LEMMA WindowShrinks ==
  ASSUME NEW m, InSegment(m), m.read = NextSector(m.curr),
         NEW o \in Int, o = Off(m), o < SECTOR
  PROVE  \A a \in Window(NextSector(m.read), m.write) : a \in Window(m.read, m.write)
  <1> DEFINE c == m.curr
             w == m.write
             next == NextSector(c)
             after == NextSector(next)
             S == SIZE
             T == SECTOR
  <1>1. /\ c \in Nat /\ c + T <= S /\ w \in Nat /\ w < S
        /\ next \in Nat /\ next + T <= S
        /\ S \in Nat /\ T \in Nat /\ T > 0 /\ T + T <= S
    <2>1. c \in Sectors /\ w \in Addr /\ next \in Sectors
      BY NextSectorIs DEF InSegment
    <2> HIDE DEF c, w, next
    <2> QED
      BY <2>1, Addresses, Sizes, SectorStarts
  <1>2. /\ next = IF c = S - T THEN 0 ELSE c + T
        /\ after = IF next = S - T THEN 0 ELSE next + T
    BY NextSectorIs DEF InSegment
  <1>3. w = IF c + o < S THEN c + o ELSE c + o - S
    BY OffIs
  <1>4. o >= 0 /\ o < T
    BY OffIs, Sizes
  <1>5. m.read = next
    OBVIOUS
  <1>6. \A a \in Window(after, w) : a \in Window(next, w)
    <2> HIDE DEF c, w, next, after, S, T
    <2>1. SIZE = S
      BY DEF S
    <2>2. CASE c = S - T
      BY <1>1, <1>2, <1>3, <1>4, <2>1, <2>2 DEF Window
    <2>3. CASE c # S - T
      BY <1>1, <1>2, <1>3, <1>4, <2>1, <2>3 DEF Window
    <2> QED
      BY <2>2, <2>3
  <1> QED
    BY <1>5, <1>6

\* A writer a whole sector past CurrSectorAddr is at the start of the next; and
\* the next sector is another.
LEMMA AtNext ==
  ASSUME NEW m, InSegment(m)
  PROVE  /\ Off(m) = SECTOR => m.write = NextSector(m.curr)
         /\ Off(m) < SECTOR => m.write = m.curr + Off(m)
         /\ \A a \in SectorCells(m.curr) : a \notin SectorCells(NextSector(m.curr))
  <1> DEFINE c == m.curr
             w == m.write
             o == Off(m)
             next == NextSector(c)
  <1>1. /\ c \in Nat /\ c + SECTOR <= SIZE
        /\ next = IF c = SIZE - SECTOR THEN 0 ELSE c + SECTOR
    <2>1. c \in Sectors
      BY DEF InSegment
    <2> HIDE DEF c
    <2> QED
      BY <2>1, NextSectorIs, SectorStarts
  <1>2. w = IF c + o < SIZE THEN c + o ELSE c + o - SIZE
    BY OffIs
  <1>3. o \in Nat
    BY OffIs, Sizes
  <1> HIDE DEF c, w, o, next
  <1>4. (o = SECTOR => w = next) /\ (o < SECTOR => w = c + o)
    BY <1>1, <1>2, <1>3, Sizes
  <1>5. \A a \in SectorCells(c) : a \notin SectorCells(next)
    BY <1>1, Sizes DEF SectorCells
  <1> QED
    BY <1>4, <1>5 DEF c, w, o, next

\* What LogInv says when no hazard has bitten.
LEMMA LogInvIs ==
  ASSUME PInv, LogInv, hazard = {}
  PROVE  /\ WriterInv /\ LogStored /\ PacketStored /\ RestBlank /\ NextBlank
         /\ InSegment(mem) /\ Off(mem) \in Nat /\ Off(mem) <= SECTOR
         /\ mem.read \in Addr /\ mem.write \in Addr
         /\ Home(mem) /\ (nvr # Blank => Home(nvr))
  BY OffIs, Sizes DEF LogInv, WriterInv, PInv, PointersInv, InSegment, ReaderInv

\* LogInv is inductive together with PInv: one lemma for each action.
LEMMA ProgramLog == IInv /\ Program => LogInv'
  <1> SUFFICES ASSUME PInv, LogInv, Program, hazard' = {} PROVE LogInv'
    BY DEF IInv, LogInv
  <1>1. /\ phase = "idle" /\ ready
        /\ mem' = mem /\ nvr' = nvr /\ erasing' = erasing /\ ready' = ready
    BY ProgramIs
  <1>2. PICK s \in 1 .. MAXPKT, w1, w2 \in Nat :
          w1 <= s /\ w2 <= s /\ Writes(s, w1, w2)
    BY ProgramIs
  <1> DEFINE w == mem.write
             o == Off(mem)
             next == NextSector(mem.curr)
  <1>3. hazard = {} /\ w2 = 0 /\ ~(w1 > 0 /\ w1 < s) /\ ~Unprepared(w1)
    <2>1. hazard = {} /\ ~(w2 > 0) /\ ~(w1 + w2 > 0 /\ w1 + w2 < s)
          /\ ~Unprepared(w1 + w2)
      BY <1>2 DEF Writes
    <2>2. w2 = 0 /\ w1 + w2 = w1
      BY <1>2, <2>1
    <2> QED
      BY <2>1, <2>2
  <1>4. /\ WriterInv /\ LogStored /\ PacketStored /\ RestBlank /\ NextBlank
        /\ InSegment(mem) /\ o \in Nat /\ o <= SECTOR
        /\ mem.read \in Addr /\ w \in Addr
    BY <1>3, LogInvIs
  <1>5. /\ s \in Nat /\ s > 0 /\ s <= PAGE /\ PAGE <= SECTOR /\ w + s <= SIZE
        /\ size = 0 /\ cells \in CellMaps
    BY <1>1, <1>2, Sizes DEF Writes, PInv, StepInv, TypeOK, CellMaps
  <1>6. /\ cells' = Programmed(Programmed(cells, w, w1), w, 0)
        /\ w1 = s => phase' = "book" /\ size' = s
        /\ w1 # s => phase' = "idle" /\ size' = size
    BY <1>2, <1>3 DEF Writes
  <1>7. /\ cells' \in CellMaps
        /\ \A x \in Addr : x \notin w .. w + w1 - 1 => cells'[x] = cells[x]
        /\ \A x \in Addr : x \in w .. w + w1 - 1 /\ cells[x] = "blank"
                             => cells'[x] = "live"
    <2> DEFINE c == Programmed(cells, w, w1)
    <2>1. /\ c \in CellMaps
          /\ \A x \in Addr : x \notin w .. w + w1 - 1 => c[x] = cells[x]
          /\ \A x \in Addr : x \in w .. w + w1 - 1 /\ cells[x] = "blank"
                               => c[x] = "live"
      BY <1>5, ProgrammedIs
    <2> HIDE DEF c
    <2>2. w \in Nat /\ (\A x : x \notin w .. w + 0 - 1)
      BY <1>4, Addresses
    <2>3. cells' \in CellMaps /\ \A x \in Addr : cells'[x] = c[x]
      BY <1>6, <2>1, <2>2, ProgrammedIs DEF c
    <2> QED
      BY <2>1, <2>3
  <1>8. w \in Nat /\ w < SIZE /\ next \in Sectors /\ mem.curr \in Sectors
    BY <1>4, Addresses, NextSectorIs DEF InSegment
  <1>9. /\ o = SECTOR => w = next
        /\ o < SECTOR => w = mem.curr + o
        /\ \A a \in SectorCells(mem.curr) : a \notin SectorCells(next)
    BY <1>4, AtNext
  <1>10. /\ BlankFrom(cells, mem.curr, o)
         /\ mem.erased /\ erasing = NoErase => BlankFrom(cells, next, o - SECTOR)
    <2>1. o + size = o /\ o + size - SECTOR = o - SECTOR
      BY <1>4, <1>5, Sizes
    <2>2. /\ BlankFrom(cells, mem.curr, o + size)
          /\ mem.erased /\ erasing = NoErase
               => BlankFrom(cells, next, o + size - SECTOR)
      BY <1>1, <1>4 DEF RestBlank, NextBlank, Described
    <2> QED
      BY <2>1, <2>2
  <1>11. \A a \in Window(mem.read, w) : a \in Addr /\ cells[a] = "live"
    BY <1>4, WindowIn DEF LogStored
  <1>12. /\ mem.curr \in Nat /\ mem.curr + SECTOR <= SIZE
         /\ next \in Nat /\ next + SECTOR <= SIZE
    BY <1>8, SectorStarts
  <1>13. CASE w1 # s
    <2>1. w1 = 0 /\ phase' = "idle" /\ size' = 0
      BY <1>2, <1>3, <1>5, <1>6, <1>13
    <2>2. \A x \in Addr : cells'[x] = cells[x]
      BY <1>7, <1>8, <2>1
    <2>3. WriterInv' /\ PacketStored'
      BY <1>1, <1>4, <1>5, <2>1 DEF WriterInv, PacketStored, Off
    <2>4. LogStored'
      BY <1>1, <1>11, <2>2 DEF LogStored
    <2>5. RestBlank'
      <3>1. BlankFrom(cells', mem.curr, o)
        BY <1>10, <1>12, <2>2, Addresses, Sizes DEF BlankFrom, SectorCells
      <3>2. BlankFrom(cells', mem.curr, o + 0)
        BY <1>4, <3>1
      <3> QED
        BY <1>1, <2>1, <3>2 DEF RestBlank
    <2>6. NextBlank'
      <3> SUFFICES ASSUME mem.erased, erasing = NoErase
                   PROVE  BlankFrom(cells', next, o + 0 - SECTOR)
        BY <1>1, <2>1 DEF NextBlank
      <3>1. BlankFrom(cells', next, o - SECTOR)
        BY <1>10, <1>12, <2>2, Addresses, Sizes DEF BlankFrom, SectorCells
      <3>2. o + 0 - SECTOR = o - SECTOR
        BY <1>4, Sizes
      <3> QED
        BY <3>1, <3>2
    <2> QED
      BY <2>3, <2>4, <2>5, <2>6 DEF LogInv
  <1>14. CASE w1 = s
    <2>1. phase' = "book" /\ size' = s
      BY <1>6, <1>14
    <2>2. o < SECTOR => o + s <= SECTOR
      <3> SUFFICES ASSUME o < SECTOR PROVE o + s <= SECTOR
        OBVIOUS
      <3>1. (w % PAGE) + s <= PAGE
        BY <1>2, <1>3, <1>14 DEF Writes
      <3>2. w < mem.curr + SECTOR
        BY <1>4, <1>9, <1>12, Sizes
      <3> DEFINE c == mem.curr
      <3> HIDE DEF w, c
      <3>3. w + s <= c + SECTOR
        BY <1>5, <1>8, <3>1, <3>2, PageInSector DEF c
      <3> QED
        BY <1>4, <1>5, <1>9, <1>12, <3>3, Sizes DEF w, c
    <2>3. erasing = NoErase /\ (o = SECTOR => mem.erased)
      <3>1. erasing = NoErase
        BY <1>2, <1>3, <1>5, <1>14 DEF Writes
      <3>2. ASSUME o = SECTOR, ~mem.erased PROVE FALSE
        <4>1. (mem.write - mem.curr) % SIZE = SECTOR
          BY <1>4, <3>2, OffIs
        <4>2. ~(s > SECTOR - SECTOR)
          BY <1>3, <1>14, <3>2, <4>1 DEF Unprepared
        <4> QED
          BY <1>5, <4>2, Sizes
      <3> QED
        BY <3>1, <3>2
    <2>4. \A a \in w .. w + s - 1 :
             a \in Addr /\ cells[a] = "blank"
             /\ a \in SectorCells(IF o < SECTOR THEN mem.curr ELSE next)
      <3> SUFFICES ASSUME NEW a \in w .. w + s - 1
                   PROVE  a \in Addr /\ cells[a] = "blank"
                          /\ a \in SectorCells(IF o < SECTOR THEN mem.curr ELSE next)
        OBVIOUS
      <3>0. a \in Nat /\ a >= w /\ a < w + s
        BY <1>5, <1>8
      <3>1. a \in Addr
        BY <1>5, <1>8, <3>0, Addresses, Sizes
      <3>2. CASE o < SECTOR
        <4>1. a \in SectorCells(mem.curr) /\ a >= mem.curr + o
          BY <1>4, <1>5, <1>9, <1>12, <2>2, <3>0, <3>2, Sizes DEF SectorCells
        <4> QED
          BY <1>10, <3>1, <3>2, <4>1 DEF BlankFrom
      <3>3. CASE ~(o < SECTOR)
        <4>1. o = SECTOR
          BY <1>4, <3>3, Sizes
        <4>2. a \in SectorCells(next) /\ a >= next + (o - SECTOR)
          BY <1>5, <1>9, <1>12, <3>0, <4>1, Sizes DEF SectorCells
        <4> QED
          BY <1>10, <2>3, <3>1, <3>3, <4>1, <4>2 DEF BlankFrom
      <3> QED
        BY <3>2, <3>3
    <2>5. WriterInv'
      BY <1>1, <1>4, <2>1, <2>2 DEF WriterInv, Off
    <2>6. LogStored'
      <3> SUFFICES ASSUME NEW a \in Window(mem.read, w) PROVE cells'[a] = "live"
        BY <1>1 DEF LogStored
      <3>1. a \in Addr /\ cells[a] = "live"
        BY <1>11
      <3>2. a \notin w .. w + s - 1
        BY <2>4, <3>1
      <3> QED
        BY <1>7, <1>14, <3>1, <3>2
    <2>7. PacketStored'
      BY <1>1, <1>7, <1>14, <2>1, <2>4 DEF PacketStored
    <2>8. RestBlank'
      <3> SUFFICES ASSUME NEW a \in SectorCells(mem.curr), a >= mem.curr + (o + s)
                   PROVE  cells'[a] = "blank"
        BY <1>1, <2>1 DEF RestBlank, BlankFrom
      <3>1. a \in Nat /\ a < mem.curr + SECTOR /\ a < SIZE
        BY <1>12, Sizes DEF SectorCells
      <3>2. a \in Addr
        BY <3>1, Addresses
      <3>3. a >= mem.curr + o /\ o + s < SECTOR
        BY <1>4, <1>5, <1>12, <3>1, Sizes
      <3>4. cells[a] = "blank"
        BY <1>10, <3>3 DEF BlankFrom
      <3>5. a \notin w .. w + s - 1
        BY <1>4, <1>5, <1>9, <1>12, <3>1, <3>3, Sizes
      <3> QED
        BY <1>7, <1>14, <3>2, <3>4, <3>5
    <2>9. NextBlank'
      <3> SUFFICES ASSUME mem.erased, NEW a \in SectorCells(next),
                          a >= next + (o + s - SECTOR)
                   PROVE  cells'[a] = "blank"
        BY <1>1, <2>1 DEF NextBlank, BlankFrom
      <3>1. a \in Nat /\ a < SIZE
        BY <1>12, Sizes DEF SectorCells
      <3>2. a \in Addr
        BY <3>1, Addresses
      <3>3. a >= next + (o - SECTOR)
        BY <1>4, <1>5, <1>12, <3>1, Sizes
      <3>4. cells[a] = "blank"
        BY <1>10, <2>3, <3>3 DEF BlankFrom
      <3>5. a \notin w .. w + s - 1
        <4>1. CASE o < SECTOR
          BY <1>9, <2>4, <4>1
        <4>2. CASE ~(o < SECTOR)
          BY <1>4, <1>5, <1>9, <1>12, <3>1, <4>2, Sizes
        <4> QED
          BY <4>1, <4>2
      <3> QED
        BY <1>7, <1>14, <3>2, <3>4, <3>5
    <2> QED
      BY <2>5, <2>6, <2>7, <2>8, <2>9 DEF LogInv
  <1> QED
    BY <1>13, <1>14

\* The bookkeeping touches no cell of the log.
LEMMA BookLog == IInv /\ Book => LogInv'
  <1> SUFFICES ASSUME PInv, LogInv, Book, hazard = {} PROVE LogInv'
    BY DEF IInv, LogInv, Book
  <1> DEFINE w == mem.write
             o == Off(mem)
             p == Off(mem')
             next == NextSector(mem.curr)
  <1>1. /\ phase = "book" /\ phase' = "save" /\ size' = 0
        /\ cells' = cells /\ ready' = ready /\ ready
    BY DEF Book, PInv, StepInv
  <1>2. /\ WriterInv /\ LogStored /\ PacketStored /\ RestBlank /\ NextBlank
        /\ InSegment(mem) /\ o \in Nat /\ o <= SECTOR
        /\ mem.read \in Addr /\ w \in Addr
    BY LogInvIs
  <1>3. /\ mem'.write \in Addr
        /\ mem'.write = IF w + size = SIZE THEN 0 ELSE w + size
        /\ BookErases \/ BookEnters \/ BookStays
    BY BookIs
  <1>4. /\ size \in Nat /\ size > 0 /\ size <= SECTOR /\ w + size <= SIZE
        /\ erasing = NoErase /\ mem.erased \in BOOLEAN
    BY <1>1, Sizes DEF PInv, TypeOK, StepInv, PointersInv, Pointers
  <1>5. InSegment(mem') /\ p \in Nat /\ p < SIZE
    <2>1. PInv'
      BY BookPInv
    <2>2. InSegment(mem')
      BY <2>1 DEF PInv, PointersInv
    <2> QED
      BY <2>2, OffIs, Sizes
  <1>6. ~mem.erased => o + size <= SECTOR
    BY <1>1 DEF PInv, UsageInv
  <1>7. /\ mem'.curr = mem.curr => p = o + size \/ p = o + size - SIZE
        /\ mem'.curr = next /\ o >= SECTOR
           /\ o + size < SECTOR + SIZE => p = o + size - SECTOR
    <2>1. o \in Int /\ p \in Int
      BY <1>2, <1>5
    <2> QED
      BY <1>2, <1>3, <1>4, <1>5, <2>1, OffAdvances
  <1>8. UsageKB(mem) >= SECTORKB <=> o >= SECTOR
    <2>0. SECTORKB \in Nat
      BY SizesAssumption
    <2>1. o \in Int /\ o < SECTOR + SECTOR /\ SECTORKB \in Nat
      BY <1>2, <2>0, Sizes
    <2> HIDE DEF o
    <2>2. UsageKB(mem) >= SECTORKB <=> o >= SECTORKB * KB
      BY <1>2, <2>1, UsageTells DEF o
    <2> QED
      BY <2>2, Sizes
  <1>9. BlankFrom(cells, mem.curr, o + size)
        /\ (mem.erased => BlankFrom(cells, next, o + size - SECTOR))
    BY <1>1, <1>2, <1>4 DEF RestBlank, NextBlank, Described
  <1>10. o < SECTOR => o + size <= SECTOR
    BY <1>2 DEF WriterInv
  <1>11. \A a \in Window(mem.read, mem'.write) : cells[a] = "live"
    <2>1. \A a \in Window(mem.read, w) : cells[a] = "live"
      BY <1>2 DEF LogStored
    <2>2. \A a \in w .. w + size - 1 : cells[a] = "live"
      BY <1>1, <1>2 DEF PacketStored
    <2>3. \A a \in Window(mem.read, mem'.write) :
             a \in Window(mem.read, w) \/ a \in w .. w + size - 1
      BY <1>2, <1>3, <1>4, WindowAdvances
    <2> QED
      BY <2>1, <2>2, <2>3
  <1>12. /\ (BookErases \/ BookStays) => o + size <= SECTOR /\ p = o + size
         /\ BookEnters => o = SECTOR /\ p = o + size - SECTOR
    <2> HIDE DEF o, p, w
    <2>1. ASSUME BookErases \/ BookStays
          PROVE  o + size <= SECTOR /\ p = o + size
      <3>1. mem'.curr = mem.curr
        BY <2>1 DEF BookErases, BookStays
      <3>2. o + size <= SECTOR
        <4>1. CASE ~mem.erased
          BY <1>6, <4>1
        <4>2. CASE mem.erased
          <5>1. BookStays
            BY <2>1, <4>2 DEF BookErases
          <5>2. ~(o >= SECTOR)
            BY <1>4, <1>8, <4>2, <5>1 DEF BookStays
          <5> QED
            BY <1>2, <1>10, <5>2, Sizes
        <4> QED
          BY <4>1, <4>2
      <3> QED
        BY <1>2, <1>4, <1>5, <1>7, <3>1, <3>2, Sizes
    <2>2. ASSUME BookEnters PROVE o = SECTOR /\ p = o + size - SECTOR
      <3>1. mem'.curr = next /\ o >= SECTOR
        BY <1>8, <2>2 DEF BookEnters
      <3> QED
        BY <1>2, <1>4, <1>5, <1>7, <3>1, Sizes
    <2> QED
      BY <2>1, <2>2
  <1>13. WriterInv'
    <2>1. p <= SECTOR /\ p + 0 = p
      BY <1>2, <1>3, <1>4, <1>5, <1>12, Sizes
    <2> QED
      BY <1>1, <2>1 DEF WriterInv
  <1>14. LogStored'
    <2>1. CASE mem'.read = mem.read
      BY <1>1, <1>11, <2>1 DEF LogStored
    <2>2. CASE mem'.read # mem.read
      <3>1. BookErases /\ mem.read = next /\ mem'.read = NextSector(mem.read)
        BY <1>3, <2>2 DEF BookErases, BookEnters, BookStays
      <3>2. o < SECTOR
        BY <1>2, <1>4, <1>12, <3>1, Sizes
      <3>3. \A a \in Window(mem'.read, w) : a \in Window(mem.read, w)
        <4>1. o \in Int
          BY <1>2
        <4> QED
          BY <1>2, <3>1, <3>2, <4>1, WindowShrinks
      <3>4. mem'.read \in Addr
        BY <1>5 DEF InSegment
      <3>5. \A a \in Window(mem'.read, mem'.write) :
               a \in Window(mem'.read, w) \/ a \in w .. w + size - 1
        BY <1>2, <1>3, <1>4, <3>4, WindowAdvances
      <3>6. \A a \in Window(mem.read, w) : cells[a] = "live"
        BY <1>2 DEF LogStored
      <3>7. \A a \in w .. w + size - 1 : cells[a] = "live"
        BY <1>1, <1>2 DEF PacketStored
      <3> QED
        BY <1>1, <3>3, <3>5, <3>6, <3>7 DEF LogStored
    <2> QED
      BY <2>1, <2>2
  <1>15. PacketStored'
    BY <1>1 DEF PacketStored
  <1>16. RestBlank'
    <2>1. p + 0 = p
      BY <1>5
    <2>2. BlankFrom(cells, mem'.curr, p)
      <3>1. CASE BookErases \/ BookStays
        <4>1. mem'.curr = mem.curr
          BY <3>1 DEF BookErases, BookStays
        <4> QED
          BY <1>9, <1>12, <3>1, <4>1
      <3>2. CASE BookEnters
        <4>1. mem'.curr = next /\ mem.erased
          BY <3>2 DEF BookEnters
        <4> QED
          BY <1>9, <1>12, <3>2, <4>1
      <3> QED
        BY <1>3, <3>1, <3>2
    <2> QED
      BY <1>1, <2>1, <2>2 DEF RestBlank
  <1>17. NextBlank'
    <2> SUFFICES ASSUME mem'.erased, erasing' = NoErase
                 PROVE  BlankFrom(cells, NextSector(mem'.curr), p + 0 - SECTOR)
      BY <1>1 DEF NextBlank
    <2>1. BookStays
      <3>1. next # NoErase
        <4>1. next \in Addr
          BY <1>2, NextSectorIs, Addresses DEF InSegment
        <4> QED
          BY <4>1, Addresses, Sizes
      <3> QED
        BY <1>3, <3>1 DEF BookErases, BookEnters
    <2>2. mem'.curr = mem.curr /\ mem.erased
      BY <2>1 DEF BookStays
    <2>3. p + 0 - SECTOR = o + size - SECTOR
      <3>1. p = o + size
        BY <1>12, <2>1
      <3> QED
        BY <1>2, <1>4, <1>5, <3>1, Sizes
    <2> QED
      BY <1>9, <2>2, <2>3
  <1> QED
    BY <1>13, <1>14, <1>15, <1>16, <1>17 DEF LogInv

\* Nor does the saving of the pointers.
LEMMA SaveLog == IInv /\ SaveNVR => LogInv'
  <1> SUFFICES ASSUME PInv, LogInv, SaveNVR, hazard = {} PROVE LogInv'
    BY DEF IInv, LogInv, SaveNVR
  <1>1. /\ phase = "save" /\ phase' = "idle"
        /\ mem' = mem /\ erasing' = erasing /\ cells' = cells /\ size' = size
        /\ ready' = ready /\ ready
    BY DEF SaveNVR, PInv, StepInv
  <1>2. WriterInv /\ LogStored /\ PacketStored /\ RestBlank /\ NextBlank
    BY LogInvIs
  <1>3. WriterInv' /\ LogStored' /\ PacketStored'
    BY <1>1, <1>2 DEF WriterInv, LogStored, PacketStored
  <1>4. RestBlank'
    BY <1>1, <1>2 DEF RestBlank, Described
  <1>5. NextBlank'
    BY <1>1, <1>2 DEF NextBlank
  <1> QED
    BY <1>3, <1>4, <1>5 DEF LogInv

\* An erase that ends clears the sector that the log has left.
LEMMA EraseDoneLog == IInv /\ EraseDone => LogInv'
  <1> SUFFICES ASSUME PInv, LogInv, EraseDone, hazard = {} PROVE LogInv'
    BY DEF IInv, LogInv, EraseDone
  <1>1. /\ erasing # NoErase /\ erasing' = NoErase
        /\ cells' = Erased(cells, erasing)
        /\ mem' = mem /\ nvr' = nvr /\ phase' = phase /\ size' = size
        /\ ready' = ready
    BY DEF EraseDone
  <1>2. /\ WriterInv /\ LogStored /\ PacketStored /\ RestBlank /\ NextBlank
        /\ InSegment(mem) /\ Off(mem) \in Nat /\ Off(mem) <= SECTOR
        /\ mem.read \in Addr /\ mem.write \in Addr /\ Home(mem)
    BY LogInvIs
  <1>3. /\ phase # "book" /\ mem.erased /\ erasing = NextSector(mem.curr)
    BY <1>1 DEF PInv, StepInv
  <1>4. \A a \in SectorCells(erasing) : a \notin Window(mem.read, mem.write)
    <2>1. Off(mem) \in Int
      BY <1>2
    <2> QED
      BY <1>2, <1>3, <2>1, NextIsOutside DEF Home
  <1>5. \A a \in Addr : cells'[a] = IF a \in SectorCells(erasing) THEN "blank"
                                                                 ELSE cells[a]
    BY <1>1 DEF Erased
  <1>6. /\ \A a \in SectorCells(mem.curr) : a \in Addr
        /\ \A a \in SectorCells(NextSector(mem.curr)) : a \in Addr
    <2>1. mem.curr \in Sectors /\ NextSector(mem.curr) \in Sectors
      BY <1>2, NextSectorIs DEF InSegment
    <2>2. ASSUME NEW s \in Sectors, NEW a \in SectorCells(s) PROVE a \in Addr
      <3>1. s \in Nat /\ s + SECTOR <= SIZE
        BY SectorStarts
      <3>2. a \in Nat /\ a < SIZE
        BY <3>1, Sizes DEF SectorCells
      <3> QED
        BY <3>2, Addresses
    <2> QED
      BY <2>1, <2>2
  <1>7. WriterInv' /\ PacketStored'
    BY <1>1, <1>2, <1>3 DEF WriterInv, PacketStored
  <1>8. LogStored'
    <2>1. Window(mem.read, mem.write) \subseteq Addr
      BY <1>2, WindowIn
    <2> QED
      BY <1>1, <1>2, <1>4, <1>5, <2>1 DEF LogStored
  <1>9. RestBlank'
    <2>1. BlankFrom(cells, mem.curr, Off(mem) + size)
          => BlankFrom(cells', mem.curr, Off(mem) + size)
      BY <1>5, <1>6 DEF BlankFrom
    <2> QED
      BY <1>1, <1>2, <2>1 DEF RestBlank, Described, Stale
  <1>10. NextBlank'
    <2>1. BlankFrom(cells', NextSector(mem.curr), Off(mem) + size - SECTOR)
      BY <1>3, <1>5, <1>6 DEF BlankFrom
    <2> QED
      BY <1>1, <2>1 DEF NextBlank
  <1> QED
    BY <1>7, <1>8, <1>9, <1>10 DEF LogInv

\* Nothing is between a reader and a writer at the same place.
LEMMA EmptyWindow ==
  ASSUME NEW w \in Addr
  PROVE  \A a : a \notin Window(w, w)
  BY Addresses DEF Window

\* Switching on empties the log: the reader is where the writer is.
LEMMA SwitchLog == IInv /\ SwitchOn => LogInv'
  <1> SUFFICES ASSUME PInv, LogInv, SwitchOn, hazard' = {} PROVE LogInv'
    BY DEF IInv, LogInv
  <1>1. /\ phase = "idle" /\ mem' = SwitchedOn(mem) /\ (nvr' = mem' \/ nvr' = nvr)
        /\ erasing' = erasing /\ cells' = cells /\ phase' = phase /\ size' = size
        /\ ready' = ready /\ hazard = {} /\ ready
    BY DEF SwitchOn
  <1>2. /\ WriterInv /\ LogStored /\ PacketStored /\ RestBlank /\ NextBlank
        /\ InSegment(mem) /\ mem.write \in Addr
    BY <1>1, LogInvIs
  <1>3. /\ Off(mem') = Off(mem) /\ mem'.curr = mem.curr /\ mem'.write = mem.write
        /\ mem'.read = mem.write /\ mem'.erased = mem.erased
    <2>1. mem \in Pointers
      BY DEF PInv, TypeOK
    <2> QED
      BY <1>1, <1>2, <2>1, SwitchedIs
  <1>4. WriterInv' /\ PacketStored'
    BY <1>1, <1>2, <1>3 DEF WriterInv, PacketStored
  <1>5. LogStored'
    BY <1>2, <1>3, EmptyWindow DEF LogStored
  <1>6. RestBlank'
    BY <1>1, <1>2, <1>3 DEF RestBlank, Described
  <1>7. NextBlank'
    BY <1>1, <1>2, <1>3 DEF NextBlank
  <1> QED
    BY <1>4, <1>5, <1>6, <1>7 DEF LogInv

\* With nothing stale in EEPROM a log is taken up where it was, and all of the
\* FLASH is as it was but for the sector being prepared, if any.
LEMMA KeptIs ==
  ASSUME PInv, LogInv, hazard = {}, nvr # Blank, ~Stale,
         NEW c \in AfterLoss, NEW o, TakenUp(c, o)
  PROVE  /\ phase # "book" /\ size = 0
         /\ o.mem.curr = mem.curr /\ o.mem.write = mem.write
         /\ o.mem.read = mem.read
         /\ \A a \in Addr : a \notin SectorCells(NextSector(mem.curr))
                              => o.cells[a] = cells[a]
         /\ nvr.erased \/ o.cells = cells
         /\ nvr.erased => mem.read # NextSector(mem.curr)
  <1>1. /\ phase # "book" /\ (mem.erased => nvr.erased)
        /\ nvr.curr = mem.curr /\ nvr.write = mem.write /\ nvr.read = mem.read
    BY DEF Stale
  <1>2. size = 0
    BY <1>1 DEF PInv, StepInv
  <1>3. nvr.erased => nvr.read # NextSector(nvr.curr)
    BY LogInvIs DEF Home
  <1>4. erasing # NoErase => mem.erased /\ erasing = NextSector(mem.curr)
    BY DEF PInv, StepInv
  <1>5. /\ c \in CellMaps /\ (erasing = NoErase => c = cells)
        /\ \A x \in Addr : x \notin SectorCells(erasing) => c[x] = cells[x]
    BY AfterLossIs
  <1>6. /\ o.mem.curr = nvr.curr /\ o.mem.write = nvr.write
        /\ o.mem.read = nvr.read
      BY <1>3 DEF TakenUp
  <1>7. \/ o.cells = c
        \/ nvr.erased /\ o.cells = Erased(c, NextSector(mem.curr))
    BY <1>1 DEF TakenUp
  <1>8. \A a \in Addr : a \notin SectorCells(NextSector(mem.curr))
                          => o.cells[a] = cells[a]
    <2> SUFFICES ASSUME NEW a \in Addr,
                        a \notin SectorCells(NextSector(mem.curr))
                 PROVE  o.cells[a] = cells[a]
      OBVIOUS
    <2>1. c[a] = cells[a]
      BY <1>4, <1>5
    <2>2. o.cells[a] = c[a]
      BY <1>7 DEF Erased
    <2> QED
      BY <2>1, <2>2
  <1>9. nvr.erased \/ o.cells = cells
    <2> SUFFICES ASSUME ~nvr.erased PROVE o.cells = cells
      OBVIOUS
    <2>1. erasing = NoErase
      BY <1>1, <1>4
    <2> QED
      BY <1>5, <1>7, <2>1
  <1> QED
    BY <1>1, <1>2, <1>3, <1>6, <1>8, <1>9

\* What InitFlash leaves behind when the ghost has nothing to remember: a log
\* as it was sent, and a sector to write to, if the log may be used or may be
\* taken up again.
LEMMA OutcomeLog ==
  ASSUME PInv, LogInv, hazard = {}, NEW isReset \in BOOLEAN,
         NEW c \in AfterLoss, NEW o \in InitFlash(isReset, c),
         Remember(isReset, o) = {}
  PROVE  /\ InSegment(o.mem) /\ Off(o.mem) \in Nat /\ Off(o.mem) <= SECTOR
         /\ \A a \in Window(o.mem.read, o.mem.write) : o.cells[a] = "live"
         /\ \/ o.ok
            \/ o.nvr # Blank /\ o.nvr.curr = o.mem.curr
               /\ o.nvr.write = o.mem.write /\ o.nvr.read = o.mem.read
            => BlankFrom(o.cells, o.mem.curr, Off(o.mem))
         /\ o.ok => ~o.mem.erased
  <1>1. c \in CellMaps /\ (erasing = NoErase => c = cells)
        /\ \A x \in Addr : x \notin SectorCells(erasing) => c[x] = cells[x]
    BY AfterLossIs
  <1>2. /\ Afresh(isReset) => MadeNew(c, o)
        /\ ~Afresh(isReset) => nvr # Blank /\ TakenUp(c, o)
    BY <1>1, InitFlashIs
  <1>3. InSegment(o.mem) /\ Off(o.mem) \in Nat
    <2>1. InSegment(o.mem)
      BY <1>1, OutcomePInv
    <2> QED
      BY <2>1, OffIs, Sizes
  <1>4. /\ WriterInv /\ LogStored /\ RestBlank
        /\ InSegment(mem) /\ Off(mem) \in Nat /\ Off(mem) <= SECTOR
        /\ mem.read \in Addr /\ mem.write \in Addr /\ Home(mem)
    BY LogInvIs
  <1>5. \A s \in Sectors : \A a \in SectorCells(s) : a \in Addr
    <2> SUFFICES ASSUME NEW s \in Sectors, NEW a \in SectorCells(s) PROVE a \in Addr
      OBVIOUS
    <2>1. s \in Nat /\ s + SECTOR <= SIZE
      BY SectorStarts
    <2>2. a \in Nat /\ a < SIZE
      BY <2>1, Sizes DEF SectorCells
    <2> QED
      BY <2>2, Addresses
  <1>6. mem.curr \in Sectors
    BY <1>4 DEF InSegment
  <1>7. \A a \in SectorCells(mem.curr) : a \notin SectorCells(NextSector(mem.curr))
    BY <1>4, AtNext
  <1>8. Described => BlankFrom(cells, mem.curr, Off(mem) + size)
    BY <1>4 DEF RestBlank
  <1>9. erasing # NoErase => erasing = NextSector(mem.curr)
    BY DEF PInv, StepInv
  <1>10. CASE Afresh(isReset)
    <2>1. /\ o.mem.curr = 0 /\ o.mem.write = 0 /\ o.mem.read = 0
          /\ o.mem.erased = FALSE /\ o.nvr = nvr
          /\ \A x \in Addr : c[x] = "blank" => o.cells[x] = "blank"
      BY <1>2, <1>10 DEF MadeNew, Origin
    <2>2. Off(o.mem) = 0
      BY <2>1 DEF Off
    <2>3. \A a : a \notin Window(0, 0)
      BY EmptyWindow, Addresses, SectorStarts
    <2>4. CASE o.ok
      <3>1. o.cells = AllBlank
        BY <1>10, <2>4 DEF Remember
      <3>2. BlankFrom(o.cells, o.mem.curr, Off(o.mem))
        BY <1>3, <1>5, <3>1 DEF BlankFrom, AllBlank, InSegment
      <3> QED
        BY <1>3, <2>1, <2>2, <2>3, <3>2, Sizes
    <2>5. CASE ~o.ok
      <3>1. ~Stale
        BY <2>5 DEF Remember
      <3>2. ASSUME o.nvr # Blank, o.nvr.curr = o.mem.curr,
                   o.nvr.write = o.mem.write, o.nvr.read = o.mem.read
            PROVE  BlankFrom(o.cells, o.mem.curr, Off(o.mem))
        <4>1. /\ nvr # Blank /\ phase # "book"
              /\ mem.curr = 0 /\ mem.write = 0
          BY <2>1, <3>1, <3>2 DEF Stale
        <4>2. size = 0 /\ Off(mem) = 0
          BY <4>1 DEF PInv, StepInv, Off
        <4>3. BlankFrom(cells, 0, 0)
          BY <1>8, <3>1, <4>1, <4>2 DEF Described
        <4>4. \A a \in SectorCells(0) : o.cells[a] = "blank"
          <5> SUFFICES ASSUME NEW a \in SectorCells(0) PROVE o.cells[a] = "blank"
            OBVIOUS
          <5>1. a \in Addr /\ a \notin SectorCells(NextSector(mem.curr))
            BY <1>5, <1>6, <1>7, <4>1
          <5>2. a >= 0 + 0
            BY <5>1, Addresses
          <5>3. c[a] = cells[a] /\ cells[a] = "blank"
            BY <1>1, <1>9, <4>3, <5>1, <5>2 DEF BlankFrom
          <5> QED
            BY <2>1, <5>1, <5>3
        <4> QED
          BY <2>1, <4>4 DEF BlankFrom
      <3> QED
        BY <1>3, <2>1, <2>2, <2>3, <2>5, <3>2, Sizes
    <2> QED
      BY <2>4, <2>5
  <1>11. CASE ~Afresh(isReset)
    <2>1. nvr # Blank /\ TakenUp(c, o) /\ ~Stale
      BY <1>2, <1>11 DEF Remember
    <2>2. /\ phase # "book" /\ size = 0
          /\ o.mem.curr = mem.curr /\ o.mem.write = mem.write
          /\ o.mem.read = mem.read
          /\ \A a \in Addr : a \notin SectorCells(NextSector(mem.curr))
                               => o.cells[a] = cells[a]
          /\ nvr.erased \/ o.cells = cells
          /\ nvr.erased => mem.read # NextSector(mem.curr)
      BY <2>1, KeptIs
    <2>3. Off(o.mem) = Off(mem)
      BY <2>2 DEF Off
    <2>4. \A a \in Window(mem.read, mem.write) : o.cells[a] = "live"
      <3>1. \A a \in Window(mem.read, mem.write) : a \in Addr /\ cells[a] = "live"
        BY <1>4, WindowIn DEF LogStored
      <3>2. CASE nvr.erased
        <4>1. Off(mem) \in Int
          BY <1>4
        <4>2. \A a \in SectorCells(NextSector(mem.curr)) :
                 a \notin Window(mem.read, mem.write)
          BY <1>4, <2>2, <3>2, <4>1, NextIsOutside DEF Home
        <4> QED
          BY <2>2, <3>1, <4>2
      <3>3. CASE o.cells = cells
        BY <3>1, <3>3
      <3> QED
        BY <2>2, <3>2, <3>3
    <2>5. BlankFrom(o.cells, o.mem.curr, Off(o.mem))
      <3>1. Off(mem) + size = Off(mem)
        BY <1>4, <2>2
      <3>2. BlankFrom(cells, mem.curr, Off(mem))
        BY <1>8, <2>1, <3>1 DEF Described
      <3> QED
        BY <1>5, <1>6, <1>7, <2>2, <2>3, <3>2 DEF BlankFrom
    <2>6. o.ok => ~o.mem.erased
      BY <2>1 DEF TakenUp
    <2> QED
      BY <1>3, <1>4, <2>2, <2>3, <2>4, <2>5, <2>6
  <1> QED
    BY <1>10, <1>11

\* A restart finds the log where its pointers were saved.
LEMMA RestartLog == IInv /\ (\E r \in BOOLEAN : Restart(r)) => LogInv'
  <1> SUFFICES ASSUME PInv, LogInv, NEW isReset \in BOOLEAN, Restart(isReset),
                      hazard' = {}
               PROVE  LogInv'
    BY DEF IInv, LogInv
  <1>1. PICK c \in AfterLoss : \E o \in InitFlash(isReset, c) :
          /\ mem' = o.mem /\ nvr' = o.nvr /\ cells' = o.cells /\ ready' = o.ok
          /\ hazard' = Remember(isReset, o)
    BY DEF Restart
  <1>2. PICK o \in InitFlash(isReset, c) :
          /\ mem' = o.mem /\ nvr' = o.nvr /\ cells' = o.cells /\ ready' = o.ok
          /\ hazard' = Remember(isReset, o)
    BY <1>1
  <1>3. erasing' = NoErase /\ phase' = "idle" /\ size' = 0
    BY DEF Restart
  <1>4. hazard = {} /\ Remember(isReset, o) = {}
    BY <1>2 DEF Remember
  <1>5. /\ Off(mem') \in Nat /\ Off(mem') <= SECTOR
        /\ \A a \in Window(mem'.read, mem'.write) : cells'[a] = "live"
        /\ \/ ready'
           \/ nvr' # Blank /\ nvr'.curr = mem'.curr
              /\ nvr'.write = mem'.write /\ nvr'.read = mem'.read
           => BlankFrom(cells', mem'.curr, Off(mem'))
        /\ ready' => ~mem'.erased
    BY <1>2, <1>4, OutcomeLog
  <1>6. Off(mem') + 0 = Off(mem')
    BY <1>5
  <1>7. WriterInv' /\ LogStored' /\ PacketStored' /\ NextBlank'
    BY <1>3, <1>5, <1>6 DEF WriterInv, LogStored, PacketStored, NextBlank
  <1>8. RestBlank'
    <2> SUFFICES ASSUME Described' PROVE BlankFrom(cells', mem'.curr, Off(mem') + 0)
      BY <1>3 DEF RestBlank
    <2>1. \/ ready'
          \/ nvr' # Blank /\ nvr'.curr = mem'.curr
             /\ nvr'.write = mem'.write /\ nvr'.read = mem'.read
      BY DEF Described, Stale, Blank
    <2> QED
      BY <1>5, <1>6, <2>1
  <1> QED
    BY <1>7, <1>8 DEF LogInv

\* A server configuration keeps the log, or blanks all of it.
LEMMA ConfigLog == IInv /\ (\E r, o \in BOOLEAN : ServerConfig(r, o)) => LogInv'
  <1> SUFFICES ASSUME PInv, LogInv, NEW isReset \in BOOLEAN, NEW isOn \in BOOLEAN,
                      ServerConfig(isReset, isOn), hazard' = {}
               PROVE  LogInv'
    BY DEF IInv, LogInv
  <1>1. PICK c \in AfterLoss :
          \E o \in InitFlash(isReset, c) : Configures(isReset, isOn, c, o)
    BY ConfigIs
  <1>2. PICK o \in InitFlash(isReset, c) : Configures(isReset, isOn, c, o)
    BY <1>1
  <1>3. /\ erasing' = NoErase /\ phase' = "idle" /\ size' = 0 /\ ready' = TRUE
        /\ cells' = o.cells
        /\ mem' = IF isOn THEN SwitchedOn(o.mem) ELSE o.mem
    BY <1>2 DEF Configures, PInv, StepInv
  <1>4. hazard = {} /\ Remember(isReset, o) = {} /\ o.ok
    BY <1>2 DEF Configures, Remember
  <1>5. /\ InSegment(o.mem) /\ Off(o.mem) \in Nat /\ Off(o.mem) <= SECTOR
        /\ \A a \in Window(o.mem.read, o.mem.write) : o.cells[a] = "live"
        /\ BlankFrom(o.cells, o.mem.curr, Off(o.mem))
        /\ ~o.mem.erased
    BY <1>4, OutcomeLog
  <1>6. /\ Off(mem') = Off(o.mem) /\ mem'.curr = o.mem.curr
        /\ mem'.erased = o.mem.erased
        /\ \A a \in Window(mem'.read, mem'.write) : o.cells[a] = "live"
    <2>1. CASE isOn
      <3>1. o.mem \in Pointers
        BY AfterLossIs, InitFlashIs
      <3>2. mem' = SwitchedOn(o.mem) /\ o.mem.write \in Addr
        BY <1>3, <1>5, <2>1 DEF InSegment
      <3>3. /\ Off(mem') = Off(o.mem) /\ mem'.curr = o.mem.curr
            /\ mem'.erased = o.mem.erased
            /\ mem'.read = o.mem.write /\ mem'.write = o.mem.write
        BY <1>5, <3>1, <3>2, SwitchedIs
      <3> QED
        BY <3>2, <3>3, EmptyWindow
    <2>2. CASE ~isOn
      BY <1>3, <1>5, <2>2
    <2> QED
      BY <2>1, <2>2
  <1>7. Off(mem') + 0 = Off(mem')
    BY <1>5, <1>6
  <1>8. WriterInv' /\ LogStored' /\ PacketStored' /\ RestBlank' /\ NextBlank'
    BY <1>3, <1>5, <1>6, <1>7
       DEF WriterInv, LogStored, PacketStored, RestBlank, NextBlank
  <1> QED
    BY <1>8 DEF LogInv

\* The log at first is blank.
LEMMA InitLog == Init => LogInv
  <1> SUFFICES ASSUME Init PROVE LogInv
    OBVIOUS
  <1>1. /\ mem = Origin /\ cells = AllBlank /\ phase = "idle" /\ size = 0
        /\ Origin.curr = 0 /\ Origin.write = 0 /\ Origin.read = 0
        /\ Origin.erased = FALSE
    BY DEF Init, Origin
  <1>2. Off(mem) = 0 /\ Off(mem) + 0 = 0
    BY <1>1 DEF Off
  <1>3. WriterInv /\ PacketStored /\ NextBlank
    BY <1>1, <1>2, Sizes DEF WriterInv, PacketStored, NextBlank
  <1>4. LogStored
    BY <1>1, EmptyWindow, Addresses, SectorStarts DEF LogStored
  <1>5. RestBlank
    <2>1. \A a \in SectorCells(0) : a \in Addr
      BY Sizes DEF SectorCells, Addr
    <2> QED
      BY <1>1, <1>2, <2>1 DEF RestBlank, BlankFrom, AllBlank
  <1> QED
    BY <1>3, <1>4, <1>5 DEF LogInv

\* Every step keeps the log, or is a hazard.
LEMMA NextLog == IInv /\ [Next]_vars => LogInv'
  <1> SUFFICES ASSUME IInv, [Next]_vars PROVE LogInv'
    OBVIOUS
  <1>1. CASE UNCHANGED vars
    BY <1>1 DEF vars, IInv, LogInv, WriterInv, LogStored, PacketStored,
                RestBlank, NextBlank, Described, Stale
  <1> QED
    BY <1>1, ProgramLog, BookLog, SaveLog, EraseDoneLog, SwitchLog,
       RestartLog, ConfigLog DEF Next

\* The inductive invariant holds.
THEOREM LogHolds == Spec => []IInv
  <1>1. Init => IInv
    BY InitPInv, InitLog DEF IInv
  <1>2. IInv /\ [Next]_vars => IInv'
    BY NextPInv, NextLog DEF IInv
  <1> QED
    BY <1>1, <1>2, PTL DEF Spec

\* What a dump would read is what was sent, byte for byte, as long as no fault
\* has bitten: through any number of wraps, erases in advance and restarts.
THEOREM LogStaysIntact == Spec => []LogIntact
  <1>1. IInv => LogIntact
    BY DEF IInv, LogInv, LogIntact
  <1> QED
    BY <1>1, LogHolds, PTL

\* The writer finds erased FLASH in front of it.
THEOREM ErasedAhead == Spec => []EraseAhead
  <1>1. ASSUME IInv PROVE EraseAhead
    <2> SUFFICES ASSUME hazard = {}, phase = "idle", ready, ~Unprepared(1),
                        NEW a \in Addr, a >= mem.write,
                        a \div SECTOR = mem.write \div SECTOR,
                        erasing = NoErase \/ a \notin SectorCells(erasing)
                 PROVE  cells[a] = "blank"
      BY DEF EraseAhead
    <2> DEFINE o == Off(mem)
               next == NextSector(mem.curr)
    <2>1. /\ RestBlank /\ NextBlank /\ InSegment(mem) /\ o \in Nat /\ o <= SECTOR
          /\ mem.write \in Addr /\ size = 0
      BY <1>1, LogInvIs DEF IInv, PInv, StepInv
    <2>2. o + size = o
      BY <2>1
    <2>3. /\ BlankFrom(cells, mem.curr, o)
          /\ mem.erased /\ erasing = NoErase => BlankFrom(cells, next, o - SECTOR)
      <3>1. o + size - SECTOR = o - SECTOR
        BY <2>1, Sizes
      <3> QED
        BY <2>1, <2>2, <3>1 DEF RestBlank, NextBlank, Described
    <2>4. /\ o = SECTOR => mem.write = next
          /\ o < SECTOR => mem.write = mem.curr + o
      BY <2>1, AtNext
    <2>5. mem.curr \in Sectors /\ next \in Sectors
      BY <2>1, NextSectorIs DEF InSegment
    <2> DEFINE w == mem.write
    <2>6. a \in Nat /\ w \in Nat /\ a >= w /\ w \in Addr
      BY <2>1, Addresses
    <2>7. CASE o < SECTOR
      <3> DEFINE s == mem.curr
      <3>1. s \in Nat
        BY <2>5, Addresses
      <3> HIDE DEF o, s
      <3>2. w = s + o
        BY <2>4, <2>7 DEF s
      <3> HIDE DEF w
      <3>3. w >= s /\ w < s + SECTOR
        BY <2>1, <2>7, <3>1, <3>2, Sizes
      <3>4. a < s + SECTOR
        <4>1. a \div SECTOR = w \div SECTOR
          BY DEF w
        <4> QED
          BY <2>5, <2>6, <3>3, <4>1, InSector DEF s
      <3>5. a \in SectorCells(s) /\ a >= s + o
        BY <2>6, <3>1, <3>2, <3>3, <3>4, Sizes DEF SectorCells
      <3> QED
        BY <2>3, <3>5 DEF BlankFrom, s
    <2>8. CASE ~(o < SECTOR)
      <3>1. o = SECTOR
        BY <2>1, <2>8, Sizes
      <3>2. mem.erased
        <4>1. (mem.write - mem.curr) % SIZE = SECTOR
          BY <2>1, <3>1, OffIs
        <4>2. 1 > SECTOR - SECTOR
          BY Sizes
        <4> QED
          BY <4>1, <4>2 DEF Unprepared
      <3>3. w = next
        BY <2>4, <3>1
      <3>4. next \in Nat
        BY <2>5, Addresses
      <3>5. a < next + SECTOR
        <4>1. next < next + SECTOR /\ next >= next
          BY <3>4, Sizes
        <4>2. a >= next /\ a \div SECTOR = next \div SECTOR /\ next \in Addr
          BY <2>5, <2>6, <3>3, Addresses
        <4> HIDE DEF next
        <4> QED
          BY <2>5, <4>1, <4>2, InSector
      <3>6. a \in SectorCells(next) /\ a >= next + (o - SECTOR)
        BY <2>1, <2>6, <3>1, <3>3, <3>4, <3>5, Sizes DEF SectorCells
      <3>7. erasing = NoErase
        BY <1>1, <3>6 DEF IInv, PInv, StepInv
      <3> QED
        BY <2>3, <3>2, <3>6, <3>7 DEF BlankFrom
    <2> QED
      BY <2>7, <2>8
  <1> QED
    BY <1>1, LogHolds, PTL

\* A restart with the pointers saved takes up the very same log.
THEOREM RestartKeeps == Spec => RestartKeepsLog
  <1>1. ASSUME IInv, Restart(FALSE), ~Stale, nvr # Blank, hazard = {}
        PROVE  mem'.write = mem.write /\ mem'.read = mem.read
    <2>1. PICK c \in AfterLoss : \E o \in InitFlash(FALSE, c) : mem' = o.mem
      BY <1>1 DEF Restart
    <2>2. PICK o \in InitFlash(FALSE, c) : mem' = o.mem
      BY <2>1
    <2>3. PInv /\ LogInv
      BY <1>1 DEF IInv
    <2>4. ~Afresh(FALSE)
      <3>1. nvr \in Pointers
        BY <2>3 DEF PInv, TypeOK
      <3>2. ValidNVR
        BY <3>1, Sizes DEF ValidNVR, Pointers
      <3> QED
        BY <1>1, <3>2 DEF Afresh
    <2>5. TakenUp(c, o)
      BY <2>3, <2>4, AfterLossIs, InitFlashIs
    <2> QED
      BY <1>1, <2>2, <2>3, <2>5, KeptIs
  <1>2. IInv /\ [Next]_vars =>
          [Restart(FALSE) /\ ~Stale /\ nvr # Blank /\ hazard = {} =>
             mem'.write = mem.write /\ mem'.read = mem.read]_vars
    BY <1>1
  <1> QED
    BY <1>2, LogHolds, PTL DEF Spec, RestartKeepsLog
=============================================================================
