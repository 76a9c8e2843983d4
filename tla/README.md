# RealTime-Logger in TLA+

A verification project for the logger in `src/LogManager`: what it promises,
modelled from its C code, model-checked with TLC on small instances and, for
what matters most in each part, proved with TLAPS for every instance.

    tlc -config RxBufferMC.cfg RxBufferMC     # any run: its cfg, then its module
    tlapm FlashLogProofs.tla                  # the proofs about FlashLog

Paths below are relative to `src/LogManager`.

## 1. The system

Tasks print through `Logger_printf`. It formats a message straight into a ring
of 1024 characters in RAM, under a mutex. A timer interrupt takes packets of at
most 256 characters out of the ring and gives them to the destination: a socket
(push mode), a segment of FLASH (pull mode), or nothing, with the UART as an
optional mirror. The logger task, started anew for each command, initialises,
configures, dumps and uploads.

| Component | State | Operations | Talks to |
|---|---|---|---|
| RX ring, printf, TX interrupt (`Logger_Utils.c`) | `pRead`, `pWrite`, `IsLowMemory`, `IsUrgent`, the timer and its resolution, mutex | `Logger_printf`, `Logger_SendPacketFromInt`, `Logger_SendPacket`, `Logger_FlushRxBuffer`, `Logger_InitRxBuffer` | any task; interrupt; destinations |
| Message formatter (`Logger_Utils.c`) | the iterator and what is left of a message | `Logger_ParseAndWrite*` | the ring, whose `pWrite` is its iterator |
| Log file in FLASH (`Logger_Utils.c`, `Logger_Func.c`, callbacks) | `CurrSectorAddr`, `WriteAddr`, `ReadAddr`, `IsNextSectorErased`, `CmdStatus`; the EEPROM copy; the FLASH | `Logger_SendPacketFlash`, `Logger_EraseSector`, `Logger_InitFlash`, `Logger_SwitchOnOff` | interrupt; FLASH and EEPROM drivers; task |
| Dump and upload (`Logger_Func.c`) | an address, what is left, `State` | `Logger_SendDebugLog`, `Logger_SendLogFileToServer`, `Logger_HandleFtpPutReply` | FLASH, UART, socket, FTP task |
| Logger task and socket (`Logger_Task.c`, `Logger_Api.c`, `Logger_Func.c`) | `State`, `IsSocketOpened`, the open-socket timer, the command queue | `LogManagerTask`, `Logger_Init`, `Logger_OpenSocket`, `Logger_HandleSocketReply`, `Logger_HandleTimerExpr`, `Logger_HandleServerCmd` | every other component |
| Configuration (`Logger_Config.c`, `Logger_Func.c`, callbacks) | the RAM copy, the EEPROM copy | setters, validation, `WriteConfigCb` | task, server, EEPROM |
| Platform callbacks (`ext/Logger_WeRCallbacks.c`) | none | adapters to FLASH, EEPROM, sockets, UART, FTP | drivers |
| Fault handler (`ext/Logger_WeRFaultHandler.c`) | the crash record | save, print once after restart | `Logger_Init` |
| Diagnostics, tables | counters | printing | - |

What is hard in it: the ring has one writer's lock but no lock between writer
and interrupt, and `pWrite` moves while a message is half formatted; the ring
has no empty/full distinction but the pointers; the FLASH side must erase before
it writes, wraps, and survives a loss of power between any two writes; the
destination may be busy, or take part; commands and replies come in any order
and nothing checks `State` consistently. `PROJECT.json` lists these hazards line
by line.

What makes each part correct: *ring* - a message is never mixed with another, no
character is sent twice or forgotten, an overrun is marked, no access leaves the
buffer, everything is sent in the end; *FLASH log* - what a dump would read is
what was sent, the writer always finds erased cells, the pointers survive a
restart; *dump* - the newest n KB, in order, and an end; *task* - READY only when
the destination works, no command lost, no state that nothing leaves;
*configuration* - what is saved is a configuration that was asked for.

## 2. Modules

| Module | Models |
|---|---|
| `RxBuffer` | The ring, `Logger_printf` and the interrupt |
| `RxBufferMC` | What TLC tells states of `RxBuffer` apart by |
| `RxBufferProofs` | Theorems about `RxBuffer` |
| `RxParse`, `RxParseMC` | The formatter: how the conversions of a message are laid out in the ring |
| `FlashLog`, `FlashLogMC` | The log file in FLASH, its EEPROM copy, restarts |
| `CopyOut` | Abstract: what handing over the log file promises |
| `DumpLog`, `DumpLogMC` | `Logger_SendDebugLog`, for a dump and for an upload, implementing `CopyOut` |
| `LoggerConfig`, `LoggerConfigMC` | The general configuration in RAM and EEPROM, and the size of the segment |
| `LoggerTask` | The queue of the Logger task, `State`, the socket, the crash report |
| `RxParseProofs`, `FlashLogProofs`, `DumpLogProofs`, `LoggerConfigProofs`, `LoggerTaskProofs` | Theorems about the module of that name |
| `Wraparound` | Lemmas about addresses that wrap: `%` and `\div`, sectors, what lies between two addresses |

How they fit together: a call of `Logger_printf` is in `RxBuffer` a number of
characters, of which `RxParse` says what they are and how many cells they take (`NoExtraCells`); a packet `RxBuffer` gives to
the destination FLASH is a `Program` of `FlashLog`; the log `FlashLog` keeps is
what `DumpLog` reads, with the interrupt reduced to `AddToLog`; `State`, which
`DumpLog` sets and the Logger task sets under an upload (`Command`), is the subject of
`LoggerTask`, where a dump is two steps; the configuration a start of `LoggerTask` finds is any
that `LoggerConfig` may have left. They share no variables: each treats what it
needs of the others as an input.

### RxBuffer

Pointers are offsets from `pHead`; `pTail` is `SIZE`. A task's call is a program
counter (`pc`) and its locals (`loc`); each action is one statement that an
interrupt or another task can see the effect of:
`Printf` (past the filter), `Capture` (mutex), `Measure` (`base`, `MaxSize`,
`RemainBuffSize`), `Flag`/`SetLow`/`Test`/`Boost` (`IsLowMemory` and the quick timer),
`StoreChar`, `BumpPointer`/`StoreLate`, `Wrap`, `EndOfText` (the copy),
`Check`/`Compare`/`Mark`/`Reset` (the overrun test), `Count`, `Flush`/`SetUrgent`/`Hurry`,
`Release`. `*P_BUFF_ITER++ = c` is no atomic statement and the compiler may store
the pointer first, so both orders are there. `IsLowMemory` and `IsUrgent` are two bits
of one byte (`Logger_Manager.h:44-45`): writing one is a load of the byte (`Flag`,
`Flush`), which the local `byte` keeps, and a store of both (`SetLow`, `SetUrgent`).
`SendPacketFromInt` is one step: an interrupt is not preempted by a task. What a
destination takes is nondeterministic: FLASH any prefix, socket and UART all or nothing.

One of the tasks is the Logger task (`Manager`). `SwitchOff`/`StopTimer` and
`SwitchOn`/`SlowTimer` are `Logger_SwitchOnOff`, in two steps each, as other tasks print and
interrupts come between the flag and the timer; the model begins where `Logger_Init` has
still to print and to do `SlowTimer`. In between the Logger task prints its own message.
`Upload` calls `Logger_FlushRxBuffer` without the mutex, as `Logger_Func.c:1021`
does, and `SetDestination` comes at any moment.

Two ghosts: `fresh` is the set of cells with a character still to be sent, kept
without reference to the pointers except where the code gives a cell up;
`hazard` collects the moments the code leaves unprotected and in which the run
has been interrupted - `wrap` (writer at `pTail`), `torn` (pointer moved,
character not stored), `low` (between the measurement of the room and the
overrun test), `tail` (reader reset to `pTail`), `byte` (the upload's store of the flags
has undone the `IsLowMemory` of a task that is copying). Exactness of the backlog is
claimed outside these moments and is false inside them.

### RxParse

One call of `Logger_ParseAndWriteRxMessage`, a step per run of text and per
conversion, each conversion an operator on a cursor (iterator, `MaxSize`, ring)
with the wrap code that is its own: `String`, `Number`, `RawData`, `BinBuff`,
`TimeAndDate`, `NoConversion`, and `Put` for `%c`. Characters are numbered in the order a
printf prints them, and a cell holds the number of the character it got, so that
order, loss and doubling are visible whatever the text is. Messages follow each
other (`NextMessage`), so that each may start where the last one can end.
`LeftOver` keeps the wrap-around of `uint8 BuffLeftOverSize`. `Itoa` is
`mini_itoa`, digit by digit, checked against the value the digits denote: `Quotients` are
the ints of its two loops, `DigitCount` and `ItoaLength` the number of its digits.

Messages are of up to `MAXMSG` characters, which may be less than the limit `MAXRX`, as
the documentation asks of callers, or more, as nothing keeps them from. At and over the
limit things go wrong (section 5): the theorems are about messages below it.

The ghost `risky` says that a conversion which does not renew `MaxSize` behind
`pTail` met it. `cut` says that there was more in the format when the loop ended, or that
a text was cut and the loop goes on in the middle of it ("misread": what it makes of
the rest depends on arguments nobody passed, so the model does not follow it).

### FlashLog

Addresses are offsets into the segment. A packet goes through `Program`
(`Logger_FlashGetSizeToWrite` and `SendFlashDataCb`), `Book`
(`EraseNext`, `EnterNext` or `StayInSector`, then the move of `WriteAddr`) and
`SaveNVR`: the three parts between which power can fail. `EraseDone` is the
driver finishing. `Restart` is a loss of power and `Logger_Init`;
`InitFlash`, `InitDefault`, `InitFromDB` are operators that give the set of
outcomes of the functions of that name. `SwitchOn` and `ServerConfig` are the
commands that touch the log. `Faults` selects what may happen (refused erase,
refused EEPROM write, partial write, restart, ...), `hazard` remembers what did,
in a form that puts the log beyond the code's means: `chunk` (a packet across
a page), `partial`, `unprepared` (writing into a sector never erased), `stale`
(restart with EEPROM behind the FLASH), `noinit` (READY after a failed
initialisation), `unerased` (a new log on a sector that was not erased, since
`WeRLogger_EraseFlashSectorCb` answers for the last erase only), `switch`
(reader inside a sector, or at one being erased).

External, modelled from how the code uses it: the FLASH driver takes nothing
while an erase is pending and otherwise a prefix; an erase cut short leaves its
sector untouched, erased or garbled; EEPROM takes the sixteen bytes or none.

### DumpLog and CopyOut

`Logger_SendDebugLog` as it runs in two tasks at once: `Request` compares the size
asked for with the usage, `Measure` computes `ReadSizeBytes`, `Ready` passes the
check of `State`, `Freeze` sets it, `Locate` is `Logger_GetFlashReadStartAddress`,
then `ReadFlash`, `Send` or `Busy` until nothing is left, and `Exit`. Between any
two the interrupt may log (`AddToLog`, in state READY only). Under an upload the Logger
task (`Manager`) serves its messages (`Command`): `Reply` sets READY and `Closed` sets
OPENING_SOCKET, `Configure`, `InitFlash` and `Resume` are a server configuration, which
takes up the log, or erases it and makes its pointers new, and then sets READY, `SwitchOn`
moves the reader to the writer. During its own dump it serves nothing. A byte of the log
is named by its address.

`CopyOut` knows nothing of addresses: it takes n bytes off one end of the log,
hands them over each once and in order, and is successful exactly when it has
handed over the last. Either end is allowed, because a partial dump of a log
that wrapped starts at the oldest byte when its bytes lie on both sides of the
end of the segment; that whole dumps and dumps of a log that has not wrapped
end at the newest byte is a property of its own (`EndsAtNewest`). `Implements` is the
refinement: `log` is the window from `ReadAddr` to `WriteAddr`, `todo` the bytes
from `Iter` on, and `st` is "void" once the log was written, erased or moved under the
copy (ghost `spoilt`), after which nothing is promised. The run watches the upload, to
which all of that can happen; the theorem is about either.

### LoggerConfig

`ram` and `eeprom` are the two copies of the general configuration, `at` is the
field `LoggerWriteGeneralConfig` is at: one field per step, and each may fail, or
be the last before power is lost, the two bytes of `FlashSize` apart from each
other (`PowerLossInSize`). `Valid` is `Logger_ValidateGenConfig` in place, `Install`
is `Logger_SetRAMGeneralConfig` with its blanks. `where` is how far `WriteAddr` is
in the segment, for `InitFlash` and for the server that changes the size of the
segment after having initialised the log with the old one (ghost `shrunk`). Ghost
`saved` says that the fields that run were read from EEPROM, or written to it to the last,
and none was set since; it says nothing of `DestType`, which has no field.

### LoggerTask

The queue is first in, first out, and every message is one handler:
`HandleInit`, `HandleSwitch`, `HandleDest`, `HandleConfig`, `HandleReply`, `HandleClosed`,
`HandleTimer`, `HandleFtpReply`, `HandleDump`, `HandleUpload`. A dump keeps the task busy until
`DumpEnds`; an upload is the FTP task's (`UploadBegins`, `UploadEnds`, `UploadFails`). Either may find no memory for its buffer and
leave SENDING_LOG_FILE behind with nobody sending ("nomem"). The API
posts commands at any time (`Command`), the timer posts when it expires, COM posts
its answers and tells of lost sessions. `Crash` leaves the report and starts the
system anew; `Drain` is the interrupt, as far as the report in the ring goes.

External, modelled from how the code uses it: COM takes a request or refuses it,
answers one it took, and opens a session it lost by itself
(`COM_SOCKET_FLAGS_AUTO_REOPEN`, `ext/Logger_WeRCallbacks.c:162`).

## 3. Runs

| Run | cfg | Shows | States |
|---|---|---|---|
| `rx_buffer` | `RxBufferMC.cfg` | The safety of the ring with the Logger task, another task and a destination that changes | 1,184,170 |
| `rx_drains` | `RxBufferLive.cfg` | Everything is sent in the end | 34,150 |
| `rx_parse` | `RxParse.cfg` | Any conversions, from any cell of the ring: in order, and complete | 2,154 |
| `flash_log` | `FlashLogMC.cfg` | The log is intact through wraps, erases, restarts, as long as no hazard bites; the pointers are sound after it too | 701,165 |
| `dump_log` | `DumpLog.cfg` | A dump and an upload of a log being written hand over what was asked, and end | 450,020 |
| `logger_config` | `LoggerConfig.cfg` | The configuration that runs is sound, and its fields are what the next start finds | 801,396 |
| `logger_task` | `LoggerTask.cfg` | Commands, replies, timers, losses, dumps, uploads and a crash, in every order | 285,736 |
| `rx_reset_at_tail` | `RxReset.cfg` | *violation*: the reader reset to `pTail` is stuck there | |
| `flash_chunk` | `FlashChunk.cfg` | *violation*: a packet across a page is programmed at one address | |
| `crash_report_lost` | `CrashReport.cfg` | *violation*: the crash report is dropped while the socket is being opened | |
| `switch_on` | `SwitchOn.cfg` | *violation*: a logger switched on in run time is never READY | |
| `enable_reset` | `EnableReset.cfg` | *violation*: a start takes `IsEnabled` from EEPROM | |

Nine more cfgs, named in section 5, each show the counterexample to a property that a
condition or a ghost leaves out of the runs above. They are kept to be run by hand.

The properties, by module:

- `RxBuffer`: `MessageIntact` (the mutex and the wraps keep a message together),
  `RoomForMessage` (the assertion at the head of `Logger_ParseAndWriteRxMessage`),
  `SendInBounds`, `BacklogIsExact` (nothing twice, nothing forgotten),
  `OverrunIsMarked`, `RunsWhileEnabled` (whoever wrote the timer last, it runs between two
  commands of an enabled logger), `BacklogDrains`.
- `RxParse`: `InOrder` (the cells of a message hold its characters in order and none
  twice, and no other cell is touched, whatever meets `pTail`), `Complete` (all of
  them, unless `risky`), `NoExtraCells` (no more cells than characters, but for one
  blank), `NumbersReadBack`.
- `FlashLog`: `LogIntact` (what a dump would read), `EraseAhead`, `SectorBookkeeping`,
  `WriteInSegment`, `ReaderLeavesErased`, `RestartKeepsLog`.
- `DumpLog`: `ReadInSegment`, `FrozenWhileCopying`, `EndsAtNewest`, `Implements`, `Thaws`.
- `LoggerConfig`: `TypeOK` (what runs is a configuration the code knows), `SizeInLimits`,
  `RestartRestores` (field for field: `IsEnabled` too, which a comment denies, and not the
  destination, see section 5), `WriteInSegment`.
- `LoggerTask`: `NeverStranded` (a logger that waits for its socket has something to
  wait for), `OpenedIsOwned` (`IsSocketOpened` keeps it from asking again, rightly),
  `DrainsWhileEnabled`, `SocketOpens`.

Each has a mutant of the code, next to the definition it mutates, that breaks it.

**Bounds.** *Ring*: `SIZE` 4 with `MAXRX` 3 and `MAXTX` 2 keep the code's order
(1024 > 256 = 256) tight enough that low memory, packets cut by `pTail`, wraps
in the middle of a message and overruns all happen within a few messages; two
tasks, the Logger task and another, suffice for mixing, as the mutex holder meets any
other task the same way (and the theorems cover any number). `View` makes one of the
states that differ in ghosts no property looks at any more. Messages are of one or two characters: at
`MAXLEN = MAXRX` a message can fill the ring exactly and `BacklogIsExact` fails,
since `pRead = pWrite` then means empty (the documented limit of 255 against the
code's 256). The liveness run has the Logger task and the socket, and the run of the reset a
ring of five. *Formatter*: a ring of 12, a limit of 10 and messages below it let every conversion be split at every
place, twice, with a date of 4 characters. The ring is larger than a message, as in the
code (1024 and 256): in one of equal size a `%r` that is padded fills every cell, the
iterator is back at the start, and `InOrder` fails since nothing seems written. Numbers are one, two and several
digits, negative, and of one hexadecimal digit. *FLASH*: pages of two
bytes, sectors of three pages prepared after two, and three sectors: the next
sector of the next is not the current one, as in the real segment of two to four
sectors of 64 KB prepared after 50. `MAXRESTARTS` (2) bounds restarts and
reconfigurations. After a hazard no property looks at the cells, which no guard reads:
`LogView` makes one of the states that differ there, and `LessAfterHazard` leaves one
restart, and ends the run where the hazard is "switch". A log whose initialisation
failed may stop for good: deadlock is not checked there. *Dump*: two sectors
of a KB of two bytes and chunks of three bytes: a chunk is cut by the end of the
segment, and the usage in KB is rounded; two callers are all there are. *Configuration*: the real limits,
an EEPROM that is blank or was written before, three requests of which one
has an error and one a size too large, three setters, called with values
`Logger_Api.c` documents: the setters check nothing, and the claim is about
callers that keep to it. *Task*: a queue of two (`MAXQ`)
lets a late reply and a timer message be behind a command; one crash
(`MAXCRASHES`). In the run of the crash report nothing happens after the report is
out or lost: deadlock is not checked there.

**Fairness.** `rx_drains`: a task inside `Logger_printf` goes on (weak), the RTOS
mutex is granted in the end to one that asks again and again (strong), and the
interrupt, which is periodic, finds its destination not busy infinitely often
(strong fairness of an interrupt that moves the reader). Starting a call is not
fair: tasks may stop logging, and the claim is about those that do, with the logger on;
commands of the Logger task are not fair either. `dump_log`: a call goes on (weak), and a destination
that is tried again and again takes a chunk in the end (strong fairness of `Send`);
messages of the Logger task come or not;
without that the loop at `Logger_Func.c:1249` runs for ever, as the code has no
limit on it. `logger_task` and `switch_on`: the task is scheduled and a dump ends
(weak); timers expire, uploads end, COM answers a session it can open, and a
request that is made again and again is taken in the end (strong, as the
bounded queue may be full in between).

## 4. Proofs

Each module of the program has a proof module beside it, and every safety property
that a passing run checks is a theorem there. A theorem
about a property has the name of what it says (`LogStaysIntact`, `Spec => []LogIntact`);
`PROJECT.json` lists them all. What they assume of the constants are the ASSUMEs of
the modules, which every run evaluates and which are facts of the code:
`MAXLEN <= MAXRX < SIZE` for the ring, and a date shorter than `MAXRX` and numbers that are ints other
than the least one for the formatter; sectors of whole KB, pages that divide a KB, a
packet of a page at most, two sectors or more, a `FlashSize` that fits its uint16, for the
log; a queue that holds a message; values for the setters that their API documents.
Every inductive invariant was checked with TLC before it was proved.

**`RxBufferProofs`**, for every finite or infinite set of tasks and all sizes:

- `TypeCorrect`, `MessagesIntact`, `SendsInBounds` from one inductive invariant
  `IInv`: type correctness, mutual exclusion (`MutexInv`: a task from `Measure` to the
  flush owns the mutex), `LateInv` and `LeftInv` about the locals, and `MessageIntact`
  itself. Mutual exclusion is the strengthening that matters: a copy survives
  another task's step only because no other task can be in a step that moves
  `pWrite`. It leaves out `Logger_FlushRxBuffer`, which an upload calls without the
  mutex: it moves no pointer (`ByteKeepsIInv`). `SendsInBounds` follows from the types and `LateInv`.
- `AlwaysRoom`: `RoomForMessage` from `RoomInv` on top of `IInv`: the writer is at
  `pTail` only while a task is in the middle of a copy, and a copy has a
  length, so that it ends with a wrap test. Messages of text only:
  `%c` breaks it (section 5).
- `EnabledMeansRunning`: `RunsWhileEnabled` is inductive with `TimerInv`: switching off stops
  the timer only after it has cleared `IsEnabled`, and no other writer of the timer stops it.

- `BacklogExact` and `OverrunsAreMarked`, for messages shorter than `MAXRX` (the
  documented 255 against 256; with `MAXLEN = MAXRX` the invariant fails, see section 5),
  from `RingInv` on top of `IInv` and `RoomInv`. Both properties speak of moments when
  nobody is copying, so what is needed is what holds in between. A message that found
  room for the longest (`AmpleInv`) always has more room than it has characters left,
  and an interrupt can only give it more. One that found less (`TightInv`) is not
  interrupted (that is the hazard "low"), so that its cells can be counted from the
  measurement on (`Used`), and its `IsLowMemory` is not undone under it (hazard "byte"):
  below `SIZE` the ring is exact; from `SIZE` on every cell is
  taken, and the room, which starts again from `SIZE` at the moment the writer meets the
  reader, is larger than what was measured. That is why the comparison with
  `RemainBuffSize` finds every overrun and no other.

The lemmas are by group of actions (call, copy, test, return, interrupt), with
the pointer arithmetic apart (`RemainBounds`, `ReadBounds`, `TakenBounds`,
`AdvanceBounds`; `FillCell`, `WrapRing` and `SendRing` for what a character, a wrap and a
packet do to the backlog and the room).

**`RxParseProofs`**, for every size of the ring, of a message and of a date, and any ints:

- `TypeCorrect`, `CharactersInOrder`, `MessagesComplete`, `LengthBounded` from `ParseInv`
  (`ParseHolds`), for messages below the limit (`MAXMSG < MAXRX`, an assumption of each of
  the four theorems: at and over the limit they are false). Its heart is one number p, the cells stored so far, which no variable
  of the code holds. `Trail` says what these cells are, around the ring: the iterator is p past
  the start, with or without a wrap. `Room` says what `MaxSize` is at that point: what is left
  in front of `pTail` (`First`), or, after a wrap, of the limit (`Second`). `Whole` says that the
  characters are the first p of the message. A conversion of n characters either fits
  (`PutFits`) or fills the part in front of `pTail` (`PutFills`), and then each code of a wrap
  is compared with what should follow: `StringStored`, `NumberStored` and `DateStored` renew
  `MaxSize` (`PutRenewed`), `CharStored`, `RawStored`, `BinStored` and `OtherStored` leave it at 0,
  which is why the loop ends there and `risky` is set. In `First`, n reaches `MaxSize` only
  if that part ends at `pTail`: the limit itself is never met, as messages are shorter.
- `NumbersRead`: `NumbersReadBack`, for any set of ints (`DigitsDenote`). The ints of the loops fall below 1 in
  ten divisions (`QuotientsFall`), so the recursive functions `Quotients` and `ValueOf` are
  unrolled ten times; `Division` relates two quotients next to each other.

The attempt showed that `MAXRX = SIZE`, allowed until then, breaks `InOrder` (section 3), and
`LengthBounded` makes precise what the theorems about the ring assume: a message of 255
characters whose `%r` is padded at `pTail` takes 256 cells, so `MAXLEN < MAXRX` covers
255 characters without such a blank, and 254 with one.

**`FlashLogProofs`**, for every geometry, every set of faults and any number of
restarts. Two invariants, one on top of the other:

- `PInv`, about the pointers, holds with every hazard going on (`PointersHold`). It
  gives `TypeCorrect`, `WritesInSegment`, `SectorsKept` and `ReaderLeaves`. Beside the types
  and the bounds of both copies of the pointers (`PointersInv`) it needs to know that a
  pending erase is that of the next sector and flagged (`StepInv`), how far the writer
  may be past the start of `CurrSectorAddr`'s sector (`UsageInv`: `EnterNext` takes the flag
  back a packet late), and that the reader is at the start of a sector, and not of
  the one prepared (`ReaderInv`), in RAM and in EEPROM: a restart brings the EEPROM's.
- `LogInv`, about the cells, while no hazard has happened: the log between `ReadAddr`
  and `WriteAddr` is stored (`LogStored`), so is the packet under way (`PacketStored`), the
  rest of the writer's sector is blank (`RestBlank`), the next sector is blank once it
  is prepared (`NextBlank`), and a packet ends where its sector ends at the latest
  (`WriterInv`). `LogHolds` is `PInv` and `LogInv` together; it gives `LogStaysIntact`, `ErasedAhead`
  and the action property `RestartKeeps`. `NextBlank` is the strengthening that carries
  the proof: it is why the sector that the writer enters is erased, and it survives
  a wrap only because the reader has left that sector (`ReaderInv`).

Proving it corrected two properties: `ReaderLeavesErased` was false beyond what the
run reached (a driver that refuses erases until the writer has left its sector,
hazard "unprepared"), and `RestartKeepsLog` holds in a stronger form, with the reader
where it was.

**`DumpLogProofs`**, for every number of dumpers and every geometry:

- `TypeCorrect`, `ReadsInSegment`, `StaysFrozen`, `DumpEndsAtNewest` from `IInv`: the chunk in the
  buffer is the one that was read (`SendInv`), one call copies at a time unless a
  hazard has happened (`OneCopies`, without which the first to end thaws the log under
  the other), and what was measured is in the log still when the copy begins,
  however much has been added (`LeftInv`).
- `DumpIsACopy`: `DumpLog` implements `CopyOut`, initial states and step by step. The
  bytes of a chunk and the bytes after it are those from where it began
  (`Bytes` splits at every place, around the end of the segment), a step of another
  call is a stutter unless it spoils the copy, which then promises nothing. It is
  about either caller. What the Logger task serves besides dumps leaves the calls alone
  (`CommandFacts`, `CommandPC`) and spoils a copy only where it moves a pointer
  (`CommandCopies`): under its own dump it serves nothing.

**`LoggerConfigProofs`**, for every content of the EEPROM and every request: `TypeCorrect`,
`SizesInLimits`, `RestartsRestore`, `WritesInSegment`. Under them are the lemmas on the pure
functions: what `ValidSize` returns for any number at all, `LoadSound` (whatever was
stored, what `Logger_Init` makes of it is sound), `SoundReloads` (every stored field of a
sound configuration survives a store and a load). `RestartsRestore` includes `IsEnabled`, which a
comment says is not restored (run `enable_reset`), and leaves out the destination. The strengthening
is `WriteInv`: the fields before `at` are the new ones, and the new ones are what is in
RAM for the switch and a validated request for the server.

**`LoggerTaskProofs`**, for every length of the queue and any number of crashes: `TypeCorrect`,
`WaitsForSomething`, `OpenedMeansOwned`, `EnabledMeansDrained`. The strengthening is about what
lies in the queue: a reply that opened a session is about one COM has or will open
again (`OwnedInv`), a loss not yet heard of is followed by a reply or COM still owes one
(`LossInv`), and once a session was open it is COM alone that is waited for (`WaitInv`).

**Only model-checked**: liveness (`BacklogDrains`, `Thaws`, `SocketOpens`), as fairness
and ENABLED are out of the prover's reach. No module declares a RECURSIVE operator; the
recursive functions in `Quotients` and `ValueOf` have a bounded domain, and their theorem
needs no induction over data. The properties of section 5 are false, so there is nothing to prove.

## 5. Disagreements found

Each of these is a run that expects a violation and an entry of `findings` with the
lines.

1. `P_BUFF_READ = P_BUFF_WRITE + 1` does not wrap (`Logger_Utils.c:595`).
2. The second chunk of a packet across a page goes to the address of the first
   (`ext/Logger_WeRCallbacks.c:87`): a candidate for the known issue of
   `inc/Logger_Release.h:57`, which suspects the FLASH driver.
3. The crash report is reset and printed before the destination works, and what is
   sent meanwhile counts as sent (`Logger_Func.c:506`, `Logger_Utils.c:836-863`).
4. Switching on in run time initialises no destination (`Logger_Func.c:595`).
5. A start takes `IsEnabled` from EEPROM (`ext/Logger_WeRCallbacks.c:352`), and the comment of
   line 356 says that this field goes back to the hard-coded value on every reset and is not
   read; the release notes restrict R3.9.11, "Currently only enabled logger is not supported
   after reset" (`inc/Logger_Release.h:48`). `RestartRestores` holds of the code, `EnableIsReset` does not.

Nine cfgs are kept beside the runs. Each checks one property that a comment or the
documentation states, and TLC finds a counterexample, for a reader to step through:

| cfg | Module | What fails |
|---|---|---|
| `OffStays.cfg` | `RxBufferMC` | `OffStaysOff`, "in case we turn the logger OFF we need to stop HW timer" (`Logger_Func.c:602`): an upload (`1021`), or a task that was past the filter (`Logger_Utils.c:507`, `937`), starts it again |
| `LostLow.cfg` | `RxBufferMC` | `EveryOverrunMarked`, "check buffer overrun conditions: 1. we had a low memory" (`Logger_Utils.c:580`): the upload's store of the flags (`Logger_Func.c:948`) undoes the `IsLowMemory` of a task that is copying |
| `RxAtLimit.cfg` | `RxParseMC` | `LargestFits`, "maximum logger message RX packet in bytes" (`ext/Logger_Config.h:9`): a number that ends exactly at the limit takes the path of a wrap and puts the iterator at `pHead` (`Logger_Utils.c:155`). `Logger_GetMaxBuffSize` gives that limit, 256, and `README.md:95` 255 |
| `RxPastLimit.cfg` | `RxParseMC` | `StopsAtTheLimit`, "go over the list of paramters or until the maximum size has reached" (`Logger_Utils.c:515`): `MaxSize` is renewed behind the wrap (`247-250`) also when it was used up there, and the rest of the text is read as a conversion (`519`) |
| `UploadRaces.cfg` | `DumpLogMC` | `StoppedWhileSending`, "stop the logger while sending the file" (`Logger_Func.c:1020`): a dump and an upload both pass the check of `State` (`1200-1206`), and the first to end sets READY under the other |
| `UploadThawed.cfg` | `DumpLogMC` | the same: replies and a server configuration set READY under an upload (`793`, `1051`, `919`) |
| `DumpPartial.cfg` | `DumpLogMC` | `DumpsTheLast`, "This api dump the last FlashSizeKB size of log file" (`Logger_Api.c:406`): a piece on both sides of the end of the segment starts at the oldest byte (`Logger_Func.c:395-403`) |
| `DestinationPersists.cfg` | `LoggerConfigMC` | "Runtime configuration is supported via API and persists across reboot" (`README.md:175`): a destination that was set is not saved with the rest (`Logger_Func.c:625-629`), a start derives it from the mode (`ext/Logger_WeRCallbacks.c:379-393`) |
| `BlankEeprom.cfg` | `LoggerConfigMC` | `BlankGivesDefault`, "default destination type" (`ext/Logger_Config.h:48`): a blank mode becomes push, but the destination is picked by the blank and is NONE (`Logger_Config.c:178-189`) |

The following are left out of a property by a ghost or a condition that names them;
without it the property fails.

| Where | What | Left out by |
|---|---|---|
| `Logger_Utils.c:243` | An interrupt between the last cell and the wrap sends the old buffer again, against `README.md:64` | `hazard` "wrap" in `BacklogIsExact` |
| `Logger_Utils.c:16` | A message of 256 characters can make the full ring look empty | `MAXLEN < MAXRX` in the run; `RxParse!NoExtraCells` bounds the length |
| `Logger_Utils.c:155`, `247` | Messages at and over the limit | `MAXMSG < MAXRX` in the run and the theorems of `RxParse` |
| `Logger_Func.c:948` | The flags are written without the mutex | `hazard` "byte" in `OverrunIsMarked` and `BacklogIsExact` |
| `Logger_Utils.c:543` | `%c` on the last cell leaves the writer at `pTail`, and the next message has no room; `%r`, `%b` and unknown conversions that meet `pTail` lose the rest of the message | `risky` in `Complete` |
| `Logger_Utils.c:63` | A negative number loses its last digit | `v >= 0` in `NumbersReadBack` |
| `Logger_Func.c:128` | A restart at a sector boundary forgets that the next sector is erased, and the first packet is erased with it, against `README.md:50` | `hazard` "unprepared" in `LogIntact` |
| `Logger_Func.c:611` | Switching on leaves the reader inside a sector, which the erase does not expect | `hazard` "switch" in `ReaderLeavesErased` |
| `Logger_Utils.c:741` | A driver that refuses the erase of the next sector until the writer is in it: the packets there, and the reader, are in a sector erased later | `hazard` "unprepared" in `LogIntact` and `ReaderLeavesErased` |
| `Logger_Func.c:395` | A partial dump of a wrapped log may print its oldest part | `EndsAtNewest`, either end in `CopyOut` |
| `Logger_Func.c:1200-1207` | Two callers may both pass the check of `State` | `hazard` "both" in `FrozenWhileCopying` |
| `Logger_Func.c:1051`, `919` | READY is set under an upload | `hazard` "thaw" in `FrozenWhileCopying` |
| `Logger_Func.c:909`, `611` | A server configuration erases the log under an upload, or switching on moves its start | `spoilt`, "void" in `CopyOut` |
| `Logger_Func.c:1212` | Without memory for its buffer a dump leaves `SENDING_LOG_FILE` for ever | `hazard` "nomem" in `Thaws` |
| `Logger_Func.c:909-911` | A server that makes the segment smaller leaves the pointers of the old one | `shrunk` in `LoggerConfig!WriteInSegment` |
| `Logger_Config.c:178` | The setters change RAM only, against `README.md:175` | `saved` in `RestartRestores`, which leaves out the destination |

Others, seen on reading, in code no module needs: the socket and FTP
configurations are validated but never installed from a server command nor
saved (`Logger_Func.c:926-932`); `LocalPort` is read and written at the address of
`RemotePort` (`ext/Logger_WeRCallbacks.c:402`, `509`); the failure path of
`SendFtpFileCb` frees `pFilePath` twice and forgets `pUserPassword` (`340-343`);
an upload of a wrapped log passes `ReadAddr` and the whole size (`Logger_Func.c:1024`);
`else if(LOGGER_RESOLUTION_TYPE_HIGH)` is always true (`Logger_Func.c:769`), as is the
test of the sender of a reply (`Logger_Task.c:44`); `UNINIT` and
`SET_FLASH_SEGMENT_SIZE` are commands without a handler; in pull mode less than a page
stays in RAM until more is logged (`Logger_Utils.c:680`, by design).

## 6. Plan

The components of section 1 are modelled as far as section 7 says. Done so far: the
six modules of the program, the abstract specification of the copy and its
refinement, the theorems of section 4, which cover every safety property of the
passing runs. What would come next:

1. The UART mirror beside another destination (a packet is taken by exactly the
   destinations that said so).
2. The re-initialisation of the ring by a server configuration under a task that prints.

## 7. Not modelled

- The level and module filter, sequence numbers and start message; the wording of
  messages beyond the place of their characters.
- What the UART receives as a mirror (`Logger_Utils.c:851`): its answer replaces that of the
  destination, so the reader moves by what `Taken` allows in any case and the properties of
  the pointers hold with it, but a packet may reach one outlet only, or one twice.
- `Logger_InitRxBuffer` in run time (`Logger_Func.c:913`): under a task that prints it makes
  the mutex anew, and two copies run at once. No property is claimed for that.
- The resolution of the timer as a promise: a start (`Logger_Func.c:514`) and switching on
  (`623`) set it low while a flag asks for speed, and nothing sets it right before the next
  message. All of its writers are in `RxBuffer`; only that it runs is claimed.
- What a task in the middle of `Logger_printf` does to a timer that is switched off meanwhile,
  in `LoggerTask`: there the handlers are whole, and `DrainsWhileEnabled` is about the moments
  between them. The steps inside the switch are in `RxBuffer` (`RunsWhileEnabled`).
- What the formatter makes of a text it was cut in ("misread" in `RxParse`).
- Under an upload, a server configuration that changes the size of the segment, and pointers
  in EEPROM that are behind those in RAM: both are in `LoggerConfig` and `FlashLog`, without an
  upload. In `DumpLog` either would spoil the copy as an erased log does.
- The contents of the overrun
  mark (`Logger_Utils.c:592`): cells of the ring are told apart by whether they were
  sent.
- The socket and FTP configurations (read at start, checked, never changed by a
  command), and the structures built for COM and FTP (`ext/Logger_WeRCallbacks.c:142-170,
  276-347`): building a request on the heap.
- Diagnostics and the configuration reports (`Logger_Debug.c`, `Logger_Tables.c`):
  no logger state depends on them.
- The drivers and the RTOS beyond what section 2 calls external.
