------------------------------ MODULE FlashLog ------------------------------
(***************************************************************************)
(* The log file in FLASH (pull mode): a wrap-around segment of sectors that*)
(* the interrupt programs packet by packet (Logger_SendPacketFlash), with  *)
(* the next sector erased in advance, its pointers saved in EEPROM after   *)
(* every packet, and the restart that takes the log up again from there    *)
(* (Logger_InitFlash).                                                     *)
(*                                                                         *)
(* Addresses are offsets from LOGGER_CONFIG_FLASH_START_ADDRESS.  A cell of*)
(* FLASH is blank, holds the one byte programmed since its erase, or is    *)
(* garbled: programmed twice, or caught in an interrupted erase.           *)
(*                                                                         *)
(* External, modelled from how the code uses it: FLASH_WriteFromInt        *)
(* programs a prefix of what it is given and nothing while an erase is     *)
(* going on; FLASH_SectorErase from the interrupt only queues the erase,   *)
(* and CmdStatus is 0 again when it is done; EEPROM_WriteFromInt writes the*)
(* sixteen bytes or none.  Faults says which of the unpleasant things they *)
(* and the environment may do; hazard notes which of them have bitten.     *)
(***************************************************************************)
EXTENDS Integers

CONSTANTS
  PAGE,         \* FLASH_WRITE_CHUNK_SIZE
  KB,           \* bytes in what the code counts as a KB
  SECTORKB,     \* LOGGER_CONFIG_FLASH_SECTOR_SIZE_KB
  THRESHKB,     \* FLASH_CONFIG_SECTOR_SIZE_THERSHOLD_KB
  FLASHKB,      \* Config.General.FlashSize
  MAXPKT,       \* LOGGER_CONFIG_MAX_TX_MESSAGE_SIZE_BYTES
  MAXRESTARTS,  \* bound on restarts and reconfigurations
  Faults        \* what the environment may do

AllFaults == {"urgent", "partial", "erase", "nvr", "restart", "config", "switch"}

ASSUME SizesAssumption ==
  /\ PAGE \in Nat \ {0} /\ KB \in Nat \ {0} /\ SECTORKB \in Nat \ {0}
  /\ THRESHKB \in Nat /\ THRESHKB < SECTORKB
  /\ FLASHKB \in Nat /\ FLASHKB < 65536 \* a uint16
  /\ FLASHKB % SECTORKB = 0 /\ FLASHKB >= 2 * SECTORKB
  /\ KB % PAGE = 0 /\ MAXPKT \in 1 .. PAGE
  /\ MAXRESTARTS \in Nat

ASSUME FaultsAssumption == Faults \subseteq AllFaults

SIZE   == FLASHKB * KB
SECTOR == SECTORKB * KB
Addr   == 0 .. SIZE - 1
Sectors == {a \in Addr : a % SECTOR = 0}

\* CmdStatus = 0.
NoErase == SIZE

VARIABLES
  mem,       \* FlashMng in RAM, without CmdStatus
  nvr,       \* its copy in EEPROM
  erasing,   \* CmdStatus: the sector whose erase is pending, or NoErase
  cells,     \* the FLASH itself
  phase,     \* how far the current packet has come
  size,      \* SizeToWrite of the current packet
  ready,     \* State = e_LOGGER_STATE_READY
  restarts,  \* restarts and reconfigurations so far (bounded)
  hazard     \* ghost: the faults that have bitten

vars == <<mem, nvr, erasing, cells, phase, size, ready, restarts, hazard>>

Pointers == [curr : 0 .. SIZE, write : 0 .. SIZE, read : 0 .. SIZE, erased : BOOLEAN]

\* CurrSectorAddr = WriteAddr = ReadAddr = start of the segment.
Origin == [curr |-> 0, write |-> 0, read |-> 0, erased |-> FALSE]

\* EEPROM that was never written: LOGGER_DEF_BLANK_NVR_PARAM_32.
Blank == [curr |-> SIZE, write |-> SIZE, read |-> SIZE, erased |-> TRUE]

-----------------------------------------------------------------------------
(* Macros and pure functions.                                              *)

\* Mutant: the last sector is not followed by the first.
MutantNextSector(a) == a + SECTOR

\* LOGGER_DEF_FLASH_NEXT_SECTOR_ADDRESS.
NextSector(a) == IF a \div KB >= FLASHKB - SECTORKB THEN 0 ELSE a + SECTOR

\* CurrentSectorUsageKB: the uint32 difference, shifted, as a uint16.  When
\* the writer has wrapped and curr is still the last sector it is huge.
UsageKB(m) == ((m.write - m.curr) \div KB) % 65536

SectorCells(s) == s .. s + SECTOR - 1

\* The addresses from r up to, and without, w, around the end of the segment.
Window(r, w) == IF w >= r THEN r .. w - 1 ELSE (r .. SIZE - 1) \cup (0 .. w - 1)

\* Logger_FlashGetSizeToWrite: whole pages, unless urgent or at the end.
SizeToWrite(write, needed, isUrgent) ==
  LET offset == write % PAGE
      left   == PAGE - offset
  IN  IF write + needed > SIZE THEN SIZE - write
      ELSE IF isUrgent THEN needed
      ELSE IF offset = 0 THEN needed - (needed % PAGE)
      ELSE IF offset + needed >= PAGE THEN needed - ((needed - left) % PAGE)
      ELSE 0

\* Programming k bytes at a; the cells programmed before are garbled.
Programmed(c, a, k) ==
  [x \in Addr |-> IF x \notin a .. a + k - 1 THEN c[x]
                  ELSE IF c[x] = "blank" THEN "live" ELSE "garbled"]

Erased(c, s) == [x \in Addr |-> IF x \in SectorCells(s) THEN "blank" ELSE c[x]]

AllBlank == [x \in Addr |-> "blank"]

-----------------------------------------------------------------------------
\* A new device: nothing in EEPROM, the segment erased by the first start.
Init ==
  /\ mem = Origin /\ nvr = Blank
  /\ erasing = NoErase /\ cells = AllBlank
  /\ phase = "idle" /\ size = 0 /\ ready = TRUE
  /\ restarts = 0 /\ hazard = {}

-----------------------------------------------------------------------------
(* Logger_SendPacketFlash, in the three parts a loss of power can separate:*)
(* programming, bookkeeping, saving.                                       *)

\* FLASH_WriteFromInt: how many of k bytes it may program.
Accepted(k) ==
  IF erasing # NoErase THEN {0}
  ELSE IF "partial" \in Faults THEN 0 .. k ELSE {0, k}

\* k more bytes reach cells whose erase has not even been asked for.
Unprepared(k) == ~mem.erased /\ k > SECTOR - ((mem.write - mem.curr) % SIZE)

\* WeRLogger_SendFlashDataCb.  The second chunk goes to the address of the
\* first.  When less was taken than asked for the answer is BUSY, the bytes
\* taken are reported as sent, and the pointers stay.
Program ==
  /\ phase = "idle" /\ ready
  /\ \E n \in 1 .. MAXPKT, u \in {FALSE, "urgent" \in Faults} :
       LET s     == SizeToWrite(mem.write, n, u)
           off   == mem.write % PAGE
           first == IF off # 0 /\ off + s > PAGE THEN PAGE - off ELSE s
       IN  /\ s > 0
           /\ \E w1 \in Accepted(first) :
              \E w2 \in IF w1 = first /\ first < s THEN Accepted(s - first) ELSE {0} :
                /\ cells' = Programmed(Programmed(cells, mem.write, w1), mem.write, w2)
                /\ IF w1 + w2 = s
                   THEN phase' = "book" /\ size' = s
                   ELSE UNCHANGED <<phase, size>>
                /\ hazard' = hazard
                     \cup (IF w2 > 0 THEN {"chunk"} ELSE {})
                     \cup (IF w1 + w2 \in 1 .. s - 1 THEN {"partial"} ELSE {})
                     \cup (IF Unprepared(w1 + w2) THEN {"unprepared"} ELSE {})
  /\ UNCHANGED <<mem, nvr, erasing, ready, restarts>>

\* Mutant: off by one at the end of the segment.
MutantAdvanced(m) == [m EXCEPT !.write = IF @ + size > SIZE THEN 0 ELSE @ + size]

\* WriteAddr after the packet, back at the start when it reaches the end.
Advanced(m) == [m EXCEPT !.write = IF @ + size = SIZE THEN 0 ELSE @ + size]

\* Mutant: the reader stays in the sector being erased.
MutantPrepared(m) == [m EXCEPT !.erased = TRUE]

\* Logger_EraseSector succeeded: the reader leaves the sector if it was at
\* its start.
Prepared(m) ==
  LET next == NextSector(m.curr)
  IN  [m EXCEPT !.erased = TRUE,
                !.read = IF @ = next THEN NextSector(@) ELSE @]

EraseNext ==
  /\ ~mem.erased /\ UsageKB(mem) >= THRESHKB
  /\ \/ mem' = Advanced(Prepared(mem)) /\ erasing' = NextSector(mem.curr)
     \/ /\ "erase" \in Faults
        /\ mem' = Advanced(mem) /\ UNCHANGED erasing

\* Mutants: the flag is not taken back; CurrSectorAddr is left behind.
MutantEnterNext ==
  /\ mem.erased /\ erasing = NoErase /\ UsageKB(mem) >= SECTORKB
  /\ mem' = Advanced([mem EXCEPT !.curr = NextSector(@)])
  /\ UNCHANGED erasing

MutantEnterSame ==
  /\ mem.erased /\ erasing = NoErase /\ UsageKB(mem) >= SECTORKB
  /\ mem' = Advanced([mem EXCEPT !.erased = FALSE])
  /\ UNCHANGED erasing

EnterNext ==
  /\ mem.erased /\ erasing = NoErase /\ UsageKB(mem) >= SECTORKB
  /\ mem' = Advanced([mem EXCEPT !.erased = FALSE, !.curr = NextSector(@)])
  /\ UNCHANGED erasing

StayInSector ==
  /\ IF mem.erased THEN erasing # NoErase \/ UsageKB(mem) < SECTORKB
                   ELSE UsageKB(mem) < THRESHKB
  /\ mem' = Advanced(mem)
  /\ UNCHANGED erasing

Book ==
  /\ phase = "book"
  /\ EraseNext \/ EnterNext \/ StayInSector
  /\ phase' = "save" /\ size' = 0
  /\ UNCHANGED <<nvr, cells, ready, restarts, hazard>>

\* SaveNVRParamsCb, whose answer nobody looks at.
SaveNVR ==
  /\ phase = "save"
  /\ nvr' = mem \/ ("nvr" \in Faults /\ nvr' = nvr)
  /\ phase' = "idle"
  /\ UNCHANGED <<mem, erasing, cells, size, ready, restarts, hazard>>

\* The driver finishes the pending erase and clears CmdStatus.
EraseDone ==
  /\ erasing # NoErase
  /\ cells' = Erased(cells, erasing)
  /\ erasing' = NoErase
  /\ UNCHANGED <<mem, nvr, phase, size, ready, restarts, hazard>>

-----------------------------------------------------------------------------
(* Logger_InitFlash: what it may leave behind, given the FLASH it finds.   *)

Outcome(m, n, c, ok) == [mem |-> m, nvr |-> n, cells |-> c, ok |-> ok]

\* With the erases of the sectors in S done, out of those asked for.
ErasedOf(c, S) ==
  [x \in Addr |-> IF x - (x % SECTOR) \in S THEN "blank" ELSE c[x]]

\* Logger_ValidateNVRParameters.
ValidNVR == nvr.curr <= SIZE /\ nvr.write <= SIZE /\ nvr.read <= SIZE

\* Logger_FlashMngInitDefault: pointers at the start, every sector erased;
\* EEPROM keeps what it has.  WeRLogger_EraseFlashSectorCb answers for the last
\* erase only, whatever became of those before.
InitDefault(c) ==
  {Outcome(Origin, nvr, ErasedOf(c, S), SIZE - SECTOR \in S) :
     S \in IF "erase" \in Faults THEN SUBSET Sectors ELSE {Sectors}}

\* Mutant: the reader is moved wherever it was.
MutantInitFromDB(c) ==
  LET next == NextSector(nvr.curr)
      m    == [nvr EXCEPT !.erased = FALSE, !.read = NextSector(next)]
  IN  IF ~nvr.erased THEN {Outcome(nvr, nvr, c, TRUE)}
      ELSE {Outcome(m, m, Erased(c, next), TRUE)}

\* Logger_FlashMngInitFromDB: the sector whose erase may not have finished is
\* erased again, and forgotten to be.
InitFromDB(c) ==
  LET next == NextSector(nvr.curr)
      m    == [nvr EXCEPT !.erased = FALSE,
                          !.read = IF @ = next THEN NextSector(@) ELSE @]
  IN  IF ~nvr.erased THEN {Outcome(nvr, nvr, c, TRUE)}
      ELSE {Outcome(m, IF m.read # nvr.read THEN m ELSE nvr, Erased(c, next), TRUE)}
           \cup (IF "nvr" \in Faults /\ m.read # nvr.read
                 THEN {Outcome(m, nvr, Erased(c, next), FALSE)} ELSE {})
           \cup (IF "erase" \in Faults THEN {Outcome(nvr, nvr, c, FALSE)} ELSE {})

\* The log is made new: on request, or when EEPROM has no usable pointers.
Afresh(isReset) == isReset \/ nvr = Blank \/ ~ValidNVR

InitFlash(isReset, c) ==
  IF Afresh(isReset) THEN InitDefault(c) ELSE InitFromDB(c)

\* What an erase cut short by a loss of power leaves of its sector.
AfterLoss ==
  IF erasing = NoErase THEN {cells}
  ELSE {[x \in Addr |-> IF x \in SectorCells(erasing) THEN "garbled" ELSE cells[x]],
        Erased(cells, erasing), cells}

\* EEPROM does not have the pointers that describe the FLASH.
Stale ==
  /\ nvr # Blank
  /\ \/ phase = "book"
     \/ mem.erased /\ ~nvr.erased
     \/ <<nvr.curr, nvr.write, nvr.read>> # <<mem.curr, mem.write, mem.read>>

\* The ghost after InitFlash: a log made new has nothing stale about it, but
\* may have kept a sector that was to be erased.
Remember(isReset, o) ==
  hazard \cup
    IF Afresh(isReset) /\ o.ok
    THEN IF o.cells # AllBlank THEN {"unerased"} ELSE {}
    ELSE IF Stale THEN {"stale"} ELSE {}

\* Power is lost, whenever, and Logger_Init takes the log up again.
Restart(isReset) ==
  /\ "restart" \in Faults /\ restarts < MAXRESTARTS
  /\ \E c \in AfterLoss : \E o \in InitFlash(isReset, c) :
       /\ mem' = o.mem /\ nvr' = o.nvr /\ cells' = o.cells /\ ready' = o.ok
       /\ hazard' = Remember(isReset, o)
  /\ erasing' = NoErase /\ phase' = "idle" /\ size' = 0
  /\ restarts' = restarts + 1

\* Logger_SwitchOnOff(TRUE): the log starts again where the writer is.
SwitchedOn(m) == [m EXCEPT !.read = m.write]

\* The reader then is inside a sector, or at the start of one whose erase has
\* been asked for already.
NoteSwitch(m) == IF m.write % SECTOR # 0 \/ m.erased THEN {"switch"} ELSE {}

SwitchOn ==
  /\ "switch" \in Faults /\ phase = "idle"
  /\ mem' = SwitchedOn(mem)
  /\ nvr' = mem' \/ ("nvr" \in Faults /\ nvr' = nvr)
  /\ hazard' = hazard \cup NoteSwitch(mem) \cup (IF ready THEN {} ELSE {"noinit"})
  /\ UNCHANGED <<erasing, cells, phase, size, ready, restarts>>

\* Logger_HandleServerCmd with a general configuration that keeps FLASH as
\* the destination and its size: off, InitFlash, READY whatever came of it,
\* and on again if the configuration says so.  A pending erase is ahead of
\* the new ones in the driver's queue.
ServerConfig(isReset, isOn) ==
  /\ "config" \in Faults /\ restarts < MAXRESTARTS /\ phase = "idle"
  /\ LET c == IF erasing = NoErase THEN cells ELSE Erased(cells, erasing)
     IN  \E o \in InitFlash(isReset, c) :
           /\ cells' = o.cells
           /\ mem' = IF isOn THEN SwitchedOn(o.mem) ELSE o.mem
           /\ nvr' \in IF ~isOn THEN {o.nvr}
                       ELSE IF "nvr" \in Faults THEN {mem', o.nvr} ELSE {mem'}
           /\ hazard' = Remember(isReset, o)
                          \cup (IF o.ok THEN {} ELSE {"noinit"})
                          \cup (IF isOn THEN NoteSwitch(o.mem) ELSE {})
  /\ erasing' = NoErase /\ ready' = TRUE
  /\ restarts' = restarts + 1
  /\ UNCHANGED <<phase, size>>

-----------------------------------------------------------------------------
Next ==
  \/ Program \/ Book \/ SaveNVR \/ EraseDone
  \/ SwitchOn
  \/ \E r \in BOOLEAN : Restart(r)
  \/ \E r, o \in BOOLEAN : ServerConfig(r, o)

Spec == Init /\ [][Next]_vars

-----------------------------------------------------------------------------
(* Properties.                                                             *)

\* Every variable holds a value of its kind.
TypeOK ==
  /\ mem \in Pointers /\ nvr \in Pointers
  /\ erasing \in Sectors \cup {NoErase}
  /\ cells \in [Addr -> {"blank", "live", "garbled"}]
  /\ phase \in {"idle", "book", "save"}
  /\ size \in 0 .. MAXPKT
  /\ ready \in BOOLEAN
  /\ restarts \in 0 .. MAXRESTARTS
  /\ hazard \subseteq {"chunk", "partial", "unprepared", "stale", "noinit",
                        "unerased", "switch"}

\* The write pointer never leaves the segment, whatever happens: "flash write
\* pointer should not be bigger than flash size" (Logger_SendPacketFlash).
WriteInSegment == mem.write \in Addr /\ mem.write + size <= SIZE

\* What a dump or an upload would read, from ReadAddr up to WriteAddr, is the
\* log as it was sent: "DIMs are stored in FLASH (wrap-around segment)"
\* (README.md).
LogStored == \A a \in Window(mem.read, mem.write) : cells[a] = "live"

\* While nothing unpleasant has bitten, what lies between ReadAddr and
\* WriteAddr was programmed once since its erase and is still there, through
\* wraps, erases in advance and restarts.
LogIntact == hazard = {} => LogStored

\* The writer always finds the rest of its sector erased, or on its way to
\* be: the threshold, the flag and the late move of CurrSectorAddr together.
EraseAhead ==
  hazard = {} /\ phase = "idle" /\ ready /\ ~Unprepared(1) =>
    \A a \in Addr :
      /\ a >= mem.write /\ a \div SECTOR = mem.write \div SECTOR
      /\ erasing = NoErase \/ a \notin SectorCells(erasing)
      => cells[a] = "blank"

\* CurrSectorAddr is the start of a sector, and the writer is in that sector
\* or at most the packet that left it past its end, whatever happened but a
\* sector that the driver would not erase until the writer was in it.
SectorBookkeeping ==
  "unprepared" \notin hazard =>
                 /\ mem.curr \in Sectors
                 /\ (mem.write - mem.curr) % SIZE < SECTOR + MAXPKT

\* A restart with the pointers saved resumes with the very same log: nothing
\* added, nothing lost, although the sector being prepared is erased again and
\* the reader moved out of it if it is found there.
RestartKeepsLog ==
  [][hazard = {} /\ ~Stale /\ nvr # Blank /\ Restart(FALSE) =>
       mem'.write = mem.write /\ mem'.read = mem.read]_vars

\* "if we have just erased the current read address, update it to the next
\* sector" (Logger_EraseSector): no reader is left in a sector whose erase is
\* pending, unless switching the logger on has put it there or the writer
\* entered a sector before its erase was asked for.
ReaderLeavesErased ==
  erasing # NoErase /\ "switch" \notin hazard /\ "unprepared" \notin hazard =>
    \A a \in SectorCells(erasing) : a \notin Window(mem.read, mem.write)
=============================================================================
