------------------------------ MODULE RxBuffer ------------------------------
(***************************************************************************)
(* The RAM side of the logger: the ring of characters that Logger_printf   *)
(* fills from any task, under a mutex, and that the timer interrupt        *)
(* (Logger_SendPacketFromInt) empties without taking the mutex.            *)
(*                                                                         *)
(* Pointers are offsets from pHead, so pHead is 0 and pTail is SIZE.  The  *)
(* writer has no index of its own: pWrite is the iterator of the loops     *)
(* that copy a message (P_BUFF_ITER), so an interrupt sees it move one     *)
(* character at a time, and sees it equal to pTail before it wraps.  Task  *)
(* steps are single statements; the interrupt is one step because tasks    *)
(* cannot preempt it.  IsLowMemory and IsUrgent are two bits of one byte:  *)
(* a task that writes one of them loads the byte, and stores it a          *)
(* statement later with the other bit as it was then.                      *)
(*                                                                         *)
(* One of the tasks is the Logger task, whose commands start and stop the  *)
(* timer and, before an upload, ask for a quick drain without the mutex.   *)
(*                                                                         *)
(* A message is a text of n characters: what they are, and what else a     *)
(* conversion may do to the pointer, is the business of RxParse.           *)
(***************************************************************************)
EXTENDS Integers

CONSTANTS
  Tasks,        \* tasks that call Logger_printf
  Manager,      \* the one that runs LogManagerTask
  NoTask,       \* the mutex is free
  SIZE,         \* LOGGER_CONFIG_DOUBLE_BUFFER_SIZE_BYTES
  MAXRX,        \* LOGGER_CONFIG_MAX_RX_MESSAGE_SIZE_BYTES
  MAXTX,        \* LOGGER_CONFIG_MAX_TX_MESSAGE_SIZE_BYTES
  MAXLEN,       \* the longest message the tasks log
  Dests         \* the destinations that are configured

ASSUME SizesAssumption ==
  /\ SIZE \in Nat /\ MAXRX \in Nat /\ MAXTX \in Nat /\ MAXLEN \in Nat
  /\ 0 < MAXTX /\ 0 < MAXLEN /\ MAXLEN <= MAXRX /\ MAXRX < SIZE

ASSUME ConfigAssumption ==
  /\ NoTask \notin Tasks /\ Manager \in Tasks
  /\ Dests # {} /\ Dests \subseteq {"NONE", "FLASH", "SOCKET"}

VARIABLES
  pRead,    \* next character to send
  pWrite,   \* next cell to fill, and the iterator of the copy loops
  lowMem,   \* Flags.IsLowMemory
  urgent,   \* Flags.IsUrgent
  timer,    \* the TX timer: off, or its resolution
  enabled,  \* Config.General.IsEnabled
  command,  \* where the Logger task is in Logger_Init or Logger_SwitchOnOff
  mutex,    \* owner of pMutex
  pc,       \* where each task is in Logger_printf
  loc,      \* the locals of each task's call
  dest,     \* Config.General.DestType
  fresh,    \* ghost: cells holding a character still to be sent
  hazard    \* ghost: the unprotected moments the run has gone through

vars == <<pRead, pWrite, lowMem, urgent, timer, enabled, command, mutex, pc,
          loc, dest, fresh, hazard>>

\* What only the Logger task's commands change.
switchVars == <<enabled, command>>

Labels == {"idle", "capture", "measure", "flag", "setlow", "test", "boost",
           "write", "late", "check", "compare", "mark", "reset", "count",
           "flush", "seturgent", "hurry", "release"}

Hazards == {"wrap", "torn", "low", "tail", "byte"}

Cells == 0 .. SIZE - 1

Locals == [len : 0 .. MAXLEN, left : 0 .. MAXLEN, critical : BOOLEAN,
           base : 0 .. SIZE, remain : 0 .. SIZE + 1, byte : BOOLEAN,
           over : BOOLEAN, marked : BOOLEAN]

\* The locals of a call with a message of n characters.
Message(n, c) == [len |-> n, left |-> n, critical |-> c, base |-> 0,
                  remain |-> 0, byte |-> FALSE, over |-> FALSE,
                  marked |-> FALSE]

NoLocals == Message(0, FALSE)

-----------------------------------------------------------------------------
(* The pointer arithmetic of the macros.                                   *)

\* CALC_REMAIN_BUFF_SIZE: an empty ring has SIZE cells left.
RemainBuffSize(r, w) == IF r > w THEN r - w ELSE SIZE - (w - r)

\* Mutant of BuffSizeToRead: the whole backlog, not the part before pTail.
MutantBuffSizeToRead(r, w) == IF w >= r THEN w - r ELSE SIZE - (r - w)

\* CALC_BUF_SIZE_TO_READ: only up to the end of the buffer.
BuffSizeToRead(r, w) == IF w >= r THEN w - r ELSE SIZE - r

\* The cells a reader at r has still to send before it meets a writer at w.
Backlog(r, w) == IF w >= r THEN r .. w - 1 ELSE (r .. SIZE - 1) \cup (0 .. w - 1)

-----------------------------------------------------------------------------
\* Logger_Init has the ring and the configuration in place, from which moment
\* the tasks log, and has still to print a crash report and start the timer.
Init ==
  /\ pRead = 0 /\ pWrite = 0
  /\ lowMem = FALSE /\ urgent = FALSE
  /\ timer = "OFF" /\ enabled \in BOOLEAN /\ command = "greet"
  /\ mutex = NoTask
  /\ pc = [t \in Tasks |-> "idle"]
  /\ loc = [t \in Tasks |-> NoLocals]
  /\ dest \in Dests
  /\ fresh = {} /\ hazard = {}

-----------------------------------------------------------------------------
(* Logger_printf, up to the copy of the message.                           *)

Goto(t, l) == pc' = [pc EXCEPT ![t] = l]

\* A call that the filter lets through.  The Logger task prints its start
\* message, or the crash report, with a command half done.
Printf(t) ==
  /\ pc[t] = "idle" /\ enabled
  /\ t = Manager => command \in {"idle", "greet"}
  /\ Goto(t, "capture")
  /\ UNCHANGED <<pRead, pWrite, lowMem, urgent, timer, mutex, loc, fresh,
                 hazard, dest, switchVars>>

\* Mutant of Capture: the mutex is not waited for.
MutantCapture(t) ==
  /\ pc[t] = "capture"
  /\ mutex' = t
  /\ \E n \in 1 .. MAXLEN, c \in BOOLEAN :
       loc' = [loc EXCEPT ![t] = Message(n, c)]
  /\ Goto(t, "measure")
  /\ UNCHANGED <<pRead, pWrite, lowMem, urgent, timer, fresh, hazard, dest,
                 switchVars>>

\* The message is the caller's; it is chosen here, where it first matters.
Capture(t) ==
  /\ pc[t] = "capture" /\ mutex = NoTask
  /\ mutex' = t
  /\ \E n \in 1 .. MAXLEN, c \in BOOLEAN :
       loc' = [loc EXCEPT ![t] = Message(n, c)]
  /\ Goto(t, "measure")
  /\ UNCHANGED <<pRead, pWrite, lowMem, urgent, timer, fresh, hazard, dest,
                 switchVars>>

\* base, MaxSize and RemainBuffSize.  With pWrite at pTail MaxSize is 0: the
\* assertion is reported, the loop is skipped and the message has no length.
Measure(t) ==
  /\ pc[t] = "measure"
  /\ loc' = [loc EXCEPT ![t].base = pWrite,
                        ![t].left = IF pWrite = SIZE THEN 0 ELSE @,
                        ![t].len = IF pWrite = SIZE THEN 0 ELSE @,
                        ![t].remain = RemainBuffSize(pRead, pWrite)]
  /\ Goto(t, "flag")
  /\ UNCHANGED <<pRead, pWrite, lowMem, urgent, timer, mutex, fresh, hazard,
                 dest, switchVars>>

\* Flags.IsLowMemory = ...: the byte of the flags is loaded, ...
Flag(t) ==
  /\ pc[t] = "flag"
  /\ loc' = [loc EXCEPT ![t].byte = urgent]
  /\ Goto(t, "setlow")
  /\ UNCHANGED <<pRead, pWrite, lowMem, urgent, timer, mutex, fresh, hazard,
                 dest, switchVars>>

\* ... and stored, with IsUrgent as it was.
SetLow(t) ==
  /\ pc[t] = "setlow"
  /\ lowMem' = (MAXRX > loc[t].remain) /\ urgent' = loc[t].byte
  /\ loc' = [loc EXCEPT ![t].byte = FALSE]
  /\ Goto(t, "test")
  /\ UNCHANGED <<pRead, pWrite, timer, mutex, fresh, hazard, dest,
                 switchVars>>

Test(t) ==
  /\ pc[t] = "test"
  /\ Goto(t, IF lowMem THEN "boost" ELSE "write")
  /\ UNCHANGED <<pRead, pWrite, lowMem, urgent, timer, mutex, loc, fresh,
                 hazard, dest, switchVars>>

\* Logger_SetTxResolution(LOGGER_RESOLUTION_TYPE_HIGH).
Boost(t) ==
  /\ pc[t] = "boost"
  /\ timer' = "HIGH"
  /\ Goto(t, "write")
  /\ UNCHANGED <<pRead, pWrite, lowMem, urgent, mutex, loc, fresh, hazard,
                 dest, switchVars>>

-----------------------------------------------------------------------------
(* The copy.  The compiler orders the store of a character and the move of *)
(* the pointer as it likes: StoreChar is the store first, which an         *)
(* interrupt cannot tell from an atomic step, BumpPointer and StoreLate    *)
(* the other order.                                                        *)

\* Mutant of CanStore: no look at pTail.
MutantCanStore(t) == pc[t] = "write" /\ loc[t].left > 0

CanStore(t) == pc[t] = "write" /\ loc[t].left > 0 /\ pWrite < SIZE

Stored(t, i) ==
  /\ loc' = [loc EXCEPT ![t].left = @ - 1, ![t].over = @ \/ i \in fresh]
  /\ fresh' = fresh \cup {i}

StoreChar(t) ==
  /\ CanStore(t)
  /\ Stored(t, pWrite)
  /\ pWrite' = pWrite + 1
  /\ UNCHANGED <<pRead, lowMem, urgent, timer, mutex, pc, hazard, dest,
                 switchVars>>

BumpPointer(t) ==
  /\ CanStore(t)
  /\ pWrite' = pWrite + 1
  /\ Goto(t, "late")
  /\ UNCHANGED <<pRead, lowMem, urgent, timer, mutex, loc, fresh, hazard,
                 dest, switchVars>>

StoreLate(t) ==
  /\ pc[t] = "late"
  /\ Stored(t, pWrite - 1)
  /\ Goto(t, "write")
  /\ UNCHANGED <<pRead, pWrite, lowMem, urgent, timer, mutex, hazard, dest,
                 switchVars>>

\* The end of a text, or its middle, is at pTail; a message that wrote nothing
\* has no such test.
Wrap(t) ==
  /\ pc[t] = "write" /\ pWrite = SIZE
  /\ loc[t].len > 0
  /\ pWrite' = 0
  /\ UNCHANGED <<pRead, lowMem, urgent, timer, mutex, pc, loc, fresh, hazard,
                 dest, switchVars>>

\* Mutant of EndOfText: the text is not followed by the wrap test.
MutantEndOfText(t) ==
  /\ pc[t] = "write" /\ loc[t].left = 0
  /\ Goto(t, "check")
  /\ UNCHANGED <<pRead, pWrite, lowMem, urgent, timer, mutex, loc, fresh,
                 hazard, dest, switchVars>>

EndOfText(t) ==
  /\ pc[t] = "write" /\ loc[t].left = 0
  /\ pWrite < SIZE \/ loc[t].len = 0
  /\ Goto(t, "check")
  /\ UNCHANGED <<pRead, pWrite, lowMem, urgent, timer, mutex, loc, fresh,
                 hazard, dest, switchVars>>

-----------------------------------------------------------------------------
(* The overrun test, and the rest of Logger_printf.                        *)

Check(t) ==
  /\ pc[t] = "check"
  /\ Goto(t, IF lowMem THEN "compare" ELSE "count")
  /\ UNCHANGED <<pRead, pWrite, lowMem, urgent, timer, mutex, loc, fresh,
                 hazard, dest, switchVars>>

\* Mutant of Compare: an overrun counts only when more than a cell was gained.
MutantCompare(t) ==
  /\ pc[t] = "compare"
  /\ Goto(t, IF RemainBuffSize(pRead, pWrite) > loc[t].remain + 3
             THEN "mark" ELSE "count")
  /\ UNCHANGED <<pRead, pWrite, lowMem, urgent, timer, mutex, loc, fresh,
                 hazard, dest, switchVars>>

Compare(t) ==
  /\ pc[t] = "compare"
  /\ Goto(t, IF RemainBuffSize(pRead, pWrite) > loc[t].remain
             THEN "mark" ELSE "count")
  /\ UNCHANGED <<pRead, pWrite, lowMem, urgent, timer, mutex, loc, fresh,
                 hazard, dest, switchVars>>

\* *P_BUFF_READ = LOGGER_CONFIG_BUFFER_OVERRUN_MARK_CHAR.
Mark(t) ==
  /\ pc[t] = "mark"
  /\ fresh' = fresh \cup ({pRead} \cap Cells)
  /\ loc' = [loc EXCEPT ![t].marked = TRUE]
  /\ Goto(t, "reset")
  /\ UNCHANGED <<pRead, pWrite, lowMem, urgent, timer, mutex, hazard, dest,
                 switchVars>>

\* Mutant of Reset: the reader restarts at the writer, as in an empty ring.
MutantReset(t) ==
  /\ pc[t] = "reset"
  /\ pRead' = pWrite
  /\ fresh' = fresh \ {pWrite}
  /\ hazard' = IF pWrite + 1 >= SIZE THEN hazard \cup {"tail"} ELSE hazard
  /\ Goto(t, "count")
  /\ UNCHANGED <<pWrite, lowMem, urgent, timer, mutex, loc, dest, switchVars>>

\* P_BUFF_READ = P_BUFF_WRITE + 1.  The code gives up the cell at pWrite.
Reset(t) ==
  /\ pc[t] = "reset"
  /\ pRead' = pWrite + 1
  /\ fresh' = fresh \ {pWrite}
  /\ hazard' = IF pWrite + 1 >= SIZE THEN hazard \cup {"tail"} ELSE hazard
  /\ Goto(t, "count")
  /\ UNCHANGED <<pWrite, lowMem, urgent, timer, mutex, loc, dest, switchVars>>

\* Len: a call that wrote nothing leaves without flushing.
Count(t) ==
  /\ pc[t] = "count"
  /\ Goto(t, IF pWrite # loc[t].base /\ loc[t].critical THEN "flush" ELSE "release")
  /\ UNCHANGED <<pRead, pWrite, lowMem, urgent, timer, mutex, loc, fresh,
                 hazard, dest, switchVars>>

\* Logger_FlushRxBuffer: IsUrgent by way of the byte, then the timer.
Flush(t) ==
  /\ pc[t] = "flush"
  /\ loc' = [loc EXCEPT ![t].byte = lowMem]
  /\ Goto(t, "seturgent")
  /\ UNCHANGED <<pRead, pWrite, lowMem, urgent, timer, mutex, fresh, hazard,
                 dest, switchVars>>

\* Labels between the store of IsLowMemory and the last look at it.
LowNeeded == {"test", "boost", "write", "late", "check"}

\* IsLowMemory is as it was, under the hands of a task that is copying if
\* this one does not own the mutex.
SetUrgent(t) ==
  /\ pc[t] = "seturgent"
  /\ urgent' = TRUE /\ lowMem' = loc[t].byte
  /\ loc' = [loc EXCEPT ![t].byte = FALSE]
  /\ hazard' = IF lowMem' # lowMem /\ \E s \in Tasks : pc[s] \in LowNeeded
               THEN hazard \cup {"byte"} ELSE hazard
  /\ Goto(t, "hurry")
  /\ UNCHANGED <<pRead, pWrite, timer, mutex, fresh, dest, switchVars>>

\* The upload has no mutex to release.
Hurry(t) ==
  /\ pc[t] = "hurry"
  /\ timer' = "HIGH"
  /\ Goto(t, IF mutex = t THEN "release" ELSE "idle")
  /\ UNCHANGED <<pRead, pWrite, lowMem, urgent, mutex, loc, fresh, hazard,
                 dest, switchVars>>

Release(t) ==
  /\ pc[t] = "release"
  /\ mutex' = NoTask
  /\ loc' = [loc EXCEPT ![t] = NoLocals]
  /\ Goto(t, "idle")
  /\ UNCHANGED <<pRead, pWrite, lowMem, urgent, timer, fresh, hazard, dest,
                 switchVars>>

-----------------------------------------------------------------------------
(* The timer interrupt.                                                    *)

\* How many of len characters the destination may take (SendPacket).  FLASH
\* takes any prefix; the socket, and the UART that is left with destination
\* NONE, take all or, when they are busy, nothing.
Taken(len) ==
  IF len <= 0 THEN {0}
  ELSE LET tx == IF len > MAXTX THEN MAXTX ELSE len
       IN IF dest = "FLASH" THEN 0 .. tx ELSE {0, tx}

\* Mutant of Advance: the reader stays at pTail when a packet ends there.
MutantAdvance(r, k) == r + k

\* pRead after a packet of k characters.
Advance(r, k) == IF k # 0 /\ r + k = SIZE THEN 0 ELSE r + k

\* Task t has measured the ring for a message that it has not finished with.
Copying(t) ==
  pc[t] \in {"flag", "setlow", "test", "boost", "write", "late", "check",
            "compare", "mark", "reset"}

\* Task t found less than a whole message free and has not finished the
\* overrun test that depends on lowMem and pRead staying as they are.
LowBusy(t) ==
  /\ Copying(t)
  /\ MAXRX > loc[t].remain

\* The moments at which an interrupt meets a half-done task.
Unprotected ==
  {h \in {"wrap", "torn", "low"} :
     \/ h = "wrap" /\ pWrite = SIZE
     \/ h = "torn" /\ \E t \in Tasks : pc[t] = "late"
     \/ h = "low"  /\ \E t \in Tasks : LowBusy(t)}

\* One send up to the end of the buffer and, unless the destination is FLASH,
\* one more; then both flags are dropped, whatever was sent.
SendPacketFromInt ==
  /\ timer # "OFF"
  /\ BuffSizeToRead(pRead, pWrite) # 0
  /\ \E k1 \in Taken(BuffSizeToRead(pRead, pWrite)) :
       LET r1 == Advance(pRead, k1)
           again == dest # "FLASH" /\ pWrite # r1
       IN  \E k2 \in IF again THEN Taken(BuffSizeToRead(r1, pWrite)) ELSE {0} :
             /\ pRead' = Advance(r1, k2)
             /\ fresh' = fresh \ ((pRead .. pRead + k1 - 1) \cup (r1 .. r1 + k2 - 1))
  /\ lowMem' = FALSE /\ urgent' = FALSE
  /\ timer' = IF lowMem \/ urgent THEN "LOW" ELSE timer
  /\ hazard' = hazard \cup Unprotected
  /\ UNCHANGED <<pWrite, mutex, pc, loc, dest, switchVars>>

-----------------------------------------------------------------------------
(* The Logger task's commands.                                             *)

\* It is between two commands.
Free == command = "idle" /\ pc[Manager] = "idle"

\* Logger_SetDestinationType, at any moment.
SetDestination(d) ==
  /\ dest' = d
  /\ UNCHANGED <<pRead, pWrite, lowMem, urgent, timer, enabled, command, mutex,
                 pc, loc, fresh, hazard>>

\* Logger_SwitchOnOff(FALSE, ...): no more calls, then no more interrupts.
SwitchOff ==
  /\ Free
  /\ enabled' = FALSE /\ command' = "stop"
  /\ UNCHANGED <<pRead, pWrite, lowMem, urgent, timer, mutex, pc, loc, dest,
                 fresh, hazard>>

StopTimer ==
  /\ command = "stop"
  /\ timer' = "OFF" /\ command' = "idle"
  /\ UNCHANGED <<pRead, pWrite, lowMem, urgent, enabled, mutex, pc, loc, dest,
                 fresh, hazard>>

\* Logger_SwitchOnOff(TRUE, ...): calls from now on, interrupts when the start
\* message is in the ring.
SwitchOn ==
  /\ Free
  /\ enabled' = TRUE /\ command' = "greet"
  /\ UNCHANGED <<pRead, pWrite, lowMem, urgent, timer, mutex, pc, loc, dest,
                 fresh, hazard>>

\* Mutant of SlowTimer: the timer is set to its low resolution if it is high.
MutantSlowTimer ==
  /\ command = "greet" /\ pc[Manager] = "idle"
  /\ timer' = IF timer = "HIGH" THEN "LOW" ELSE timer
  /\ command' = "idle"
  /\ UNCHANGED <<pRead, pWrite, lowMem, urgent, enabled, mutex, pc, loc, dest,
                 fresh, hazard>>

\* Logger_SetTxResolution(LOGGER_RESOLUTION_TYPE_LOW), whatever the flags ask
\* for: the last statement of Logger_Init and of switching on.
SlowTimer ==
  /\ command = "greet" /\ pc[Manager] = "idle"
  /\ timer' = "LOW" /\ command' = "idle"
  /\ UNCHANGED <<pRead, pWrite, lowMem, urgent, enabled, mutex, pc, loc, dest,
                 fresh, hazard>>

\* Logger_SendLogFileToServer calls Logger_FlushRxBuffer, outside the mutex.
Upload ==
  /\ Free
  /\ Goto(Manager, "flush")
  /\ UNCHANGED <<pRead, pWrite, lowMem, urgent, timer, enabled, command, mutex,
                 loc, dest, fresh, hazard>>

-----------------------------------------------------------------------------
Step(t) ==
  \/ Capture(t) \/ Measure(t) \/ Flag(t) \/ SetLow(t) \/ Test(t) \/ Boost(t)
  \/ StoreChar(t) \/ BumpPointer(t) \/ StoreLate(t) \/ Wrap(t) \/ EndOfText(t)
  \/ Check(t) \/ Compare(t) \/ Mark(t) \/ Reset(t)
  \/ Count(t) \/ Flush(t) \/ SetUrgent(t) \/ Hurry(t) \/ Release(t)

Next ==
  \/ \E t \in Tasks : Printf(t) \/ Step(t)
  \/ SendPacketFromInt
  \/ \E d \in Dests : SetDestination(d)
  \/ SwitchOff \/ StopTimer \/ SwitchOn \/ SlowTimer \/ Upload

Spec == Init /\ [][Next]_vars

(* A task inside the call keeps running, and is granted the mutex in the   *)
(* end; the timer is periodic and the destination is not busy for ever.    *)
Fairness ==
  /\ \A t \in Tasks : WF_vars(Step(t)) /\ SF_vars(Capture(t))
  /\ SF_vars(SendPacketFromInt /\ pRead' # pRead)

FairSpec == Spec /\ Fairness

-----------------------------------------------------------------------------
(* Properties.                                                             *)

\* Every variable holds a value of its kind.  pRead can pass pTail only by
\* the reset that follows an overrun.
TypeOK ==
  /\ pRead \in 0 .. SIZE + 1
  /\ pWrite \in 0 .. SIZE
  /\ lowMem \in BOOLEAN /\ urgent \in BOOLEAN
  /\ timer \in {"OFF", "LOW", "HIGH"} /\ enabled \in BOOLEAN
  /\ command \in {"idle", "greet", "stop"}
  /\ mutex \in Tasks \cup {NoTask}
  /\ pc \in [Tasks -> Labels]
  /\ loc \in [Tasks -> Locals]
  /\ dest \in Dests
  /\ fresh \in SUBSET Cells
  /\ hazard \in SUBSET Hazards

\* A message of n characters fills the n cells from its base, in the order
\* of the ring, whatever the other tasks and the interrupt do meanwhile:
\* what the mutex and the two wraps of the copy loop are for.
MessageIntact ==
  \A t \in Tasks : Copying(t) =>
    LET done  == loc[t].len - loc[t].left + (IF pc[t] = "late" THEN 1 ELSE 0)
        moved == pWrite - loc[t].base
    IN  moved = done \/ moved = done - SIZE

\* A copy that is about to start has room in front of pTail: the assertion
\* on MaxSize at the head of Logger_ParseAndWriteRxMessage.
RoomForMessage ==
  \A t \in Tasks : pc[t] = "measure" => pWrite < SIZE

\* No packet runs past pTail, and no copy stores past it: the assertion of
\* Logger_SendPacketFlash on SizeToWrite, whatever moment the interrupt hits.
SendInBounds ==
  /\ pRead < SIZE => pRead + BuffSizeToRead(pRead, pWrite) <= SIZE
  /\ \A t \in Tasks : pc[t] = "late" => pWrite > 0

Settled == hazard = {} /\ pWrite < SIZE
           /\ \A t \in Tasks : pc[t] # "late" /\ ~LowBusy(t)

\* As long as no interrupt met a half-done task and no reset hit pTail, what
\* lies between the pointers is exactly what was logged and not yet sent:
\* nothing is sent twice and nothing is forgotten.
BacklogIsExact == Settled => Backlog(pRead, pWrite) = fresh

\* A message that ran over characters nobody had sent leaves the mark the
\* reader of the log recognises an overrun by (Logger_ParseAndWriteRxMessage),
\* unless an interrupt met it half-way.
OverrunIsMarked ==
  \A t \in Tasks :
    pc[t] \in {"count", "flush", "seturgent", "hurry", "release"} /\ loc[t].over =>
      loc[t].marked \/ hazard # {}

\* A logger that takes messages sends them: between two commands of the
\* Logger task an enabled logger has its timer running, whoever slowed it
\* down, quickened it or stopped it last (Logger_SwitchOnOff, Logger_Init).
RunsWhileEnabled == enabled /\ command = "idle" => timer # "OFF"

\* Once the tasks stop logging, with the logger on, everything buffered reaches
\* the destination (if it is one that takes less than a page, which FLASH does
\* not).
BacklogDrains ==
  <>[](enabled /\ command = "idle" /\ \A t \in Tasks : pc[t] = "idle") =>
    []<>(fresh = {} \/ hazard # {})

-----------------------------------------------------------------------------
(* What the documentation says and the code does not do.                   *)

\* "set the start reading pointer to the new buffer start": after a reset the
\* reader has characters in front of it.  (No interrupt is to blame.)
ResetFindsBacklog ==
  [][\A t \in Tasks : Reset(t) /\ hazard = {} =>
       BuffSizeToRead(pRead', pWrite') > 0]_vars

\* "check buffer overrun conditions: 1. we had a low memory": every overrun that
\* no interrupt and no reset is to blame for leaves its mark.
EveryOverrunMarked ==
  \A t \in Tasks :
    pc[t] \in {"count", "flush", "seturgent", "hurry", "release"} /\ loc[t].over =>
      loc[t].marked \/ ~(hazard \subseteq {"byte"})

\* "in case we turn the logger OFF we need to stop HW timer": once stopped it
\* stays so until the logger is switched on.
OffStaysOff ==
  [][~enabled /\ command = "idle" /\ timer = "OFF" => timer' = "OFF"]_vars
=============================================================================
