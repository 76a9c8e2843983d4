------------------------------ MODULE DumpLog ------------------------------
(***************************************************************************)
(* Handing the log file over: Logger_SendDebugLog, called by the Logger    *)
(* task for a dump to the UART and by the FTP task, through                *)
(* Logger_UploadLogFile, for an upload to a socket.  It freezes the log by *)
(* taking State out of READY, works out where to start, and copies chunk   *)
(* after chunk, again and again while the destination is busy.             *)
(*                                                                         *)
(* The Logger task serves its messages one after the other, so none of the *)
(* replies, configurations and switches that change State and the pointers *)
(* comes during its own dump; any of them may come during an upload.       *)
(*                                                                         *)
(* Addresses are offsets into the segment, and a byte of the log is named  *)
(* by the address it lies at: one lap of the log is enough to tell the     *)
(* bytes of a copy apart.  The pointers are FlashLog's ReadAddr and        *)
(* WriteAddr; the interrupt that moves them is here AddToLog, reduced to   *)
(* what a reader can notice.                                               *)
(***************************************************************************)
EXTENDS Integers, Sequences

CONSTANTS
  Dumpers,   \* the tasks that hand the log over
  Manager,   \* the Logger task, one of them
  Watched,   \* the one whose copy is compared with CopyOut
  KB,        \* bytes in what the code counts as a KB
  SECTORKB,  \* LOGGER_CONFIG_FLASH_SECTOR_SIZE_KB
  FLASHKB,   \* Config.General.FlashSize
  CHUNK,     \* READ_CHUNK_SIZE
  Faults     \* what may happen: "nomem", "read", "send", "reply", "config"

ASSUME SizesAssumption ==
  /\ KB \in Nat \ {0} /\ SECTORKB \in Nat \ {0} /\ CHUNK \in Nat \ {0}
  /\ FLASHKB \in Nat /\ FLASHKB % SECTORKB = 0 /\ FLASHKB >= 2 * SECTORKB
  /\ Watched \in Dumpers /\ Manager \in Dumpers

SIZE   == FLASHKB * KB
SECTOR == SECTORKB * KB
Addr   == 0 .. SIZE - 1
Sectors == {a \in Addr : a % SECTOR = 0}

\* LOGGER_DEF_GET_ALL_FLASH_SIZE_KB.
All == FLASHKB + 1

VARIABLES
  read,    \* FlashMng.ReadAddr
  write,   \* FlashMng.WriteAddr
  state,   \* State: "READY", "SENDING", or "WAITING" when INITIALIZING or
           \* OPENING_SOCKET
  pc,      \* where each call is, or the Logger task with a configuration
  want,    \* SizeKB of each call until it is measured, All when it covers the log
  left,    \* ReadSizeBytes
  iter,    \* Iter
  buff,    \* pTempBuff
  out,     \* ghost: what the destination took of the watched call
  ok,      \* ghost: RetVal of the watched call
  spoilt,  \* ghost: what the watched call goes by was changed under it
  hazard   \* ghost: the first thing that went wrong with State, or "nomem"

vars == <<read, write, state, pc, want, left, iter, buff, out, ok,
          spoilt, hazard>>

log   == <<read, write>>
local == <<want, left, iter, buff>>
ghost == <<out, ok, spoilt>>

-----------------------------------------------------------------------------
(* Macros and pure functions.                                              *)

\* LOGGER_DEF_FLASH_USAGE_SIZE_KB, rounded down, or up when it has wrapped.
UsageKB == IF write >= read THEN (write - read) \div KB
           ELSE FLASHKB - ((read - write) \div KB)

\* LOGGER_DEF_FLASH_USAGE_SIZE_BYTES.
UsageBytes == IF write >= read THEN write - read ELSE SIZE - (read - write)

\* Mutant: a wrapped log starts at WriteAddr.
MutantReadStart(n) ==
  IF write > read THEN IF write - read > n THEN write - n ELSE read
  ELSE IF n <= write THEN write - n ELSE write

\* Logger_GetFlashReadStartAddress, for n bytes.  When they lie on both sides
\* of the end of the segment either branch of the code gives ReadAddr.
ReadStart(n) ==
  IF write > read THEN IF write - read > n THEN write - n ELSE read
  ELSE IF n <= write THEN write - n ELSE read

Least3(a, b, c) == CHOOSE m \in {a, b, c} : m <= a /\ m <= b /\ m <= c

\* The n bytes from address a, around the end of the segment.
Bytes(a, n) == [i \in 1 .. n |-> (a + i - 1) % SIZE]

-----------------------------------------------------------------------------
\* A log of any length that starts at a sector, as FlashLog leaves it, and
\* does not reach around to the sector it starts in.
Init ==
  /\ read \in Sectors
  /\ \E used \in 0 .. SIZE - SECTOR : write = (read + used) % SIZE
  /\ state = "READY"
  /\ pc = [d \in Dumpers |-> "idle"]
  /\ want = [d \in Dumpers |-> All] /\ left = [d \in Dumpers |-> 0]
  /\ iter = [d \in Dumpers |-> 0] /\ buff = [d \in Dumpers |-> <<>>]
  /\ out = <<>> /\ ok = FALSE
  /\ spoilt = FALSE /\ hazard = "none"

Goto(d, l) == pc' = [pc EXCEPT ![d] = l]

\* Where a call counts on the log to stay as it is, and where a task is when no
\* call is under way.
Frozen  == {"locate", "copy", "send", "exit"}
Outside == {"idle", "config", "resume"}

Copiers  == {d \in Dumpers : pc[d] \in Frozen}
UnderWay == pc[Watched] \notin Outside

\* What is remembered of an event that meets a copy.
Meets(event) == IF hazard = "none" /\ Copiers # {} THEN event ELSE hazard

-----------------------------------------------------------------------------
(* The other side.                                                         *)

\* The interrupt adds bytes to the log, in state READY only; the sector the
\* reader is at is erased, and left by it, before the writer gets there.  A
\* reader that was put inside a sector is not moved (FlashLog, "switch").
AddToLog ==
  /\ state = "READY"
  /\ LET erase == (write + 1) % SIZE = read
     IN  /\ read' = IF erase /\ read \in Sectors THEN (read + SECTOR) % SIZE
                    ELSE read
         /\ spoilt' = \/ spoilt \/ pc[Watched] \in Frozen
                       \/ (UnderWay /\ erase)
  /\ write' = (write + 1) % SIZE
  /\ UNCHANGED <<state, pc, local, out, ok, hazard>>

\* The reply to an open request or of the FTP task: READY, whatever it was.
Reply ==
  /\ "reply" \in Faults /\ pc[Manager] = "idle"
  /\ state' = "READY" /\ hazard' = Meets("thaw")
  /\ UNCHANGED <<log, pc, local, ghost>>

\* A session that was closed, or the timer that asks for one.
Closed ==
  /\ "reply" \in Faults /\ pc[Manager] = "idle"
  /\ state' = "WAITING"
  /\ UNCHANGED <<log, pc, local, ghost, hazard>>

\* Logger_HandleServerCmd: INITIALIZING, ...
Configure ==
  /\ "config" \in Faults /\ pc[Manager] = "idle"
  /\ state' = "WAITING"
  /\ Goto(Manager, "config")
  /\ UNCHANGED <<log, local, ghost, hazard>>

\* ... the log taken up with the pointers in EEPROM, which are those in RAM, or
\* erased and made new, ...
InitFlash ==
  /\ pc[Manager] = "config"
  /\ \/ UNCHANGED log
     \/ read' = 0 /\ write' = 0
  /\ spoilt' = (spoilt \/ (UnderWay /\ log' # log))
  /\ Goto(Manager, "resume")
  /\ UNCHANGED <<state, local, out, ok, hazard>>

\* ... and READY, whatever became of State meanwhile.  If the logger is to be
\* on, and to log to FLASH, the log starts where the writer is.
Resume ==
  /\ pc[Manager] = "resume"
  /\ state' = "READY" /\ hazard' = Meets("thaw")
  /\ read' \in {read, write} /\ write' = write
  /\ spoilt' = (spoilt \/ (UnderWay /\ log' # log))
  /\ Goto(Manager, "idle")
  /\ UNCHANGED <<local, out, ok>>

\* Logger_SwitchOnOff(TRUE), with FLASH as the destination.
SwitchOn ==
  /\ "config" \in Faults /\ pc[Manager] = "idle"
  /\ read' = write /\ write' = write
  /\ spoilt' = (spoilt \/ (UnderWay /\ log' # log))
  /\ UNCHANGED <<state, pc, local, out, ok, hazard>>

-----------------------------------------------------------------------------
(* Logger_SendDebugLog.                                                    *)

\* SizeKB against FlashUsageKB.
Request(d) ==
  /\ pc[d] = "idle"
  /\ \E s \in 0 .. All :
       want' = [want EXCEPT ![d] = IF s = All \/ s >= UsageKB THEN All ELSE s]
  /\ Goto(d, "measure")
  /\ UNCHANGED <<log, state, left, iter, buff, ghost, hazard>>

\* A call that returns forgets its variables.
Return(d) ==
  /\ Goto(d, "idle")
  /\ want' = [want EXCEPT ![d] = All] /\ left' = [left EXCEPT ![d] = 0]
  /\ iter' = [iter EXCEPT ![d] = 0] /\ buff' = [buff EXCEPT ![d] = <<>>]
  /\ spoilt' = (d # Watched /\ spoilt)
  /\ out' = IF d = Watched THEN <<>> ELSE out
  /\ UNCHANGED log

\* ReadSizeBytes; nothing is done for an empty log.
Size(d) == IF want[d] = All THEN UsageBytes ELSE want[d] * KB

Empty(d) ==
  /\ pc[d] = "measure" /\ Size(d) = 0
  /\ Return(d)
  /\ UNCHANGED <<state, ok, hazard>>

Measure(d) ==
  /\ pc[d] = "measure" /\ Size(d) # 0
  /\ left' = [left EXCEPT ![d] = Size(d)] /\ want' = [want EXCEPT ![d] = All]
  /\ Goto(d, "check")
  /\ UNCHANGED <<log, state, iter, buff, ghost, hazard>>

NotReady(d) ==
  /\ pc[d] = "check" /\ state # "READY"
  /\ Return(d)
  /\ UNCHANGED <<state, ok, hazard>>

Ready(d) ==
  /\ pc[d] = "check" /\ state = "READY"
  /\ Goto(d, "freeze")
  /\ UNCHANGED <<log, state, local, ghost, hazard>>

\* Mutant: State is left as it is.
MutantFreeze(d) ==
  /\ pc[d] = "freeze"
  /\ ok' = (d # Watched /\ ok)
  /\ Goto(d, "locate")
  /\ UNCHANGED <<log, state, local, out, spoilt, hazard>>

\* Between the check and this another call may have passed its check too.
Freeze(d) ==
  /\ pc[d] = "freeze"
  /\ state' = "SENDING"
  /\ hazard' = Meets("both")
  /\ ok' = (d # Watched /\ ok)
  /\ Goto(d, "locate")
  /\ UNCHANGED <<log, local, out, spoilt>>

\* Without memory for the buffer the call ends where it is.
NoMemory(d) ==
  /\ "nomem" \in Faults /\ pc[d] = "locate"
  /\ hazard' = "nomem"
  /\ Return(d)
  /\ UNCHANGED <<state, ok>>

Locate(d) ==
  /\ pc[d] = "locate"
  /\ iter' = [iter EXCEPT ![d] = ReadStart(left[d])]
  /\ Goto(d, "copy")
  /\ UNCHANGED <<log, state, want, left, buff, ghost, hazard>>

\* Mutant: a chunk is not cut at the end of the segment.
MutantChunkSize(d) == Least3(CHUNK, left[d], CHUNK)

\* FlashReadSize.
ChunkSize(d) == Least3(CHUNK, left[d], SIZE - iter[d])

ReadFlash(d) ==
  /\ pc[d] = "copy" /\ left[d] > 0
  /\ buff' = [buff EXCEPT ![d] = Bytes(iter[d], ChunkSize(d))]
  /\ Goto(d, "send")
  /\ UNCHANGED <<log, state, want, left, iter, ghost, hazard>>

ReadFails(d) ==
  /\ "read" \in Faults /\ pc[d] = "copy" /\ left[d] > 0
  /\ Goto(d, "exit")
  /\ UNCHANGED <<log, state, local, ghost, hazard>>

\* Mutant: the chunk counts as sent before the status is known.
MutantBusy(d) ==
  /\ pc[d] = "send"
  /\ left' = [left EXCEPT ![d] = @ - ChunkSize(d)]
  /\ iter' = [iter EXCEPT ![d] = (@ + ChunkSize(d)) % SIZE]
  /\ Goto(d, "copy")
  /\ UNCHANGED <<log, state, want, buff, ghost, hazard>>

\* The chunk is read again.
Busy(d) ==
  /\ pc[d] = "send"
  /\ Goto(d, "copy")
  /\ UNCHANGED <<log, state, local, ghost, hazard>>

\* Mutant: the end of the segment is not looked for.
MutantSend(d) ==
  /\ pc[d] = "send"
  /\ out' = IF d = Watched /\ ~spoilt THEN out \o buff[d] ELSE out
  /\ left' = [left EXCEPT ![d] = @ - ChunkSize(d)]
  /\ iter' = [iter EXCEPT ![d] = @ + ChunkSize(d)]
  /\ Goto(d, "copy")
  /\ UNCHANGED <<log, state, want, buff, ok, spoilt, hazard>>

\* What is sent of a log that was spoilt is of no interest.
Send(d) ==
  /\ pc[d] = "send"
  /\ out' = IF d = Watched /\ ~spoilt THEN out \o buff[d] ELSE out
  /\ left' = [left EXCEPT ![d] = @ - ChunkSize(d)]
  /\ iter' = [iter EXCEPT ![d] = IF @ + ChunkSize(d) >= SIZE THEN 0
                                 ELSE @ + ChunkSize(d)]
  /\ Goto(d, "copy")
  /\ UNCHANGED <<log, state, want, buff, ok, spoilt, hazard>>

SendFails(d) ==
  /\ "send" \in Faults /\ pc[d] = "send"
  /\ Goto(d, "exit")
  /\ UNCHANGED <<log, state, local, ghost, hazard>>

AllSent(d) ==
  /\ pc[d] = "copy" /\ left[d] <= 0
  /\ Goto(d, "exit")
  /\ UNCHANGED <<log, state, local, ghost, hazard>>

\* Mutant: a failed call leaves without setting the state.
MutantExit(d) ==
  /\ pc[d] = "exit"
  /\ state' = IF left[d] <= 0 THEN "READY" ELSE state
  /\ ok' = IF d = Watched THEN left[d] <= 0 ELSE ok
  /\ Return(d)
  /\ UNCHANGED hazard

\* RetVal is TRUE when the loop ran to its end.
Exit(d) ==
  /\ pc[d] = "exit"
  /\ state' = "READY"
  /\ ok' = IF d = Watched THEN left[d] <= 0 ELSE ok
  /\ Return(d)
  /\ UNCHANGED hazard

-----------------------------------------------------------------------------
Step(d) ==
  \/ Empty(d) \/ Measure(d) \/ NotReady(d) \/ Ready(d) \/ Freeze(d)
  \/ NoMemory(d) \/ Locate(d)
  \/ ReadFlash(d) \/ ReadFails(d) \/ Busy(d) \/ Send(d) \/ SendFails(d)
  \/ AllSent(d) \/ Exit(d)

\* What the Logger task serves besides dumps.
Command ==
  Reply \/ Closed \/ Configure \/ InitFlash \/ Resume \/ SwitchOn

Next ==
  \/ AddToLog \/ Command
  \/ \E d \in Dumpers : Request(d) \/ Step(d)

(* A call once made goes on, and its destination is not busy for ever.     *)
Fairness == \A d \in Dumpers : WF_vars(Step(d)) /\ SF_vars(Send(d))

Spec == Init /\ [][Next]_vars /\ Fairness

-----------------------------------------------------------------------------
(* Properties.                                                             *)

\* Types; what is still to be read starts in the segment.
TypeOK ==
  /\ read \in Addr /\ write \in Addr
  /\ state \in {"READY", "SENDING", "WAITING"}
  /\ pc \in [Dumpers -> Outside \cup {"measure", "check", "freeze"} \cup Frozen]
  /\ want \in [Dumpers -> 0 .. All] /\ left \in [Dumpers -> 0 .. SIZE]
  /\ iter \in [Dumpers -> Addr]
  /\ buff \in [Dumpers -> Seq(Addr)]
  /\ out \in Seq(Addr)
  /\ ok \in BOOLEAN /\ spoilt \in BOOLEAN
  /\ hazard \in {"none", "thaw", "both", "nomem"}

\* A chunk never reaches past the end of the segment, also when the size was
\* computed from pointers that have moved since (the assertion on Iter in
\* Logger_SendDebugLog).
ReadInSegment ==
  \A d \in Dumpers : pc[d] = "send" => iter[d] + Len(buff[d]) <= SIZE

\* While a call copies, the interrupt is kept off the log, unless one of the
\* hazards has happened: the Logger task set READY in between, or two calls
\* passed the check before either of them set SENDING.
FrozenWhileCopying ==
  hazard = "none" => \A d \in Dumpers : pc[d] \in Frozen => state # "READY"

\* "stop the logger while sending the file" (Logger_Func.c:1020), without a
\* hazard left out.
StoppedWhileSending == \A d \in Dumpers : pc[d] \in Frozen => state # "READY"

EndsAtWriter ==
  (ReadStart(left[Watched]) + left[Watched]) % SIZE = write

\* A dump of all that is in the log when it is frozen, and any dump of a log
\* that has not wrapped, ends with the newest byte, however much was logged
\* since the call worked out the size (Logger_GetFlashReadStartAddress).
EndsAtNewest ==
  pc[Watched] = "locate" /\ ~spoilt
  /\ (left[Watched] = UsageBytes \/ read < write) => EndsAtWriter

\* "This api dump the last FlashSizeKB size of log file" (Logger_Api.c:406),
\* wherever the log lies.
DumpsTheLast == pc[Watched] = "locate" /\ ~spoilt => EndsAtWriter

\* What the watched call does is a copy as CopyOut describes it.
Copying == pc[Watched] \in Frozen

Copy == INSTANCE CopyOut WITH
  Byte <- Addr,
  log  <- Bytes(read, UsageBytes),
  todo <- IF Copying /\ ~spoilt
          THEN Bytes(IF pc[Watched] = "locate" THEN ReadStart(left[Watched])
                     ELSE iter[Watched], left[Watched])
          ELSE <<>>,
  out  <- out,
  ok   <- ok,
  st   <- IF ~Copying THEN "idle"
          ELSE IF spoilt THEN "void" ELSE "copying"

\* Every byte of the piece asked for is handed over once and in order, over
\* the end of the segment and however often the destination is busy, and the
\* call succeeds only then; unless the log is written, erased or moved under
\* it, which the Logger task's own dump is safe from and an upload is not.
Implements == Copy!Spec

\* A dump never leaves the log frozen, except without memory for the buffer.
Thaws == state = "SENDING" ~> state = "READY" \/ hazard = "nomem"
=============================================================================
