----------------------------- MODULE LoggerTask -----------------------------
(***************************************************************************)
(* The Logger task: the queue of commands, replies and timer messages it   *)
(* serves one by one (Logger_Task.c), the State they move about            *)
(* (LoggerState_e), the socket it asks COM for, and what becomes of the    *)
(* report a crash leaves in RAM for the next start to print.               *)
(*                                                                         *)
(* A handler is one step: nothing runs in the task but itself, the timer   *)
(* interrupt finds the ring empty or the hardware timer stopped while one  *)
(* is at work, and of the ring only the report is kept, in one piece.      *)
(*                                                                         *)
(* External, modelled from how the code uses it: COM takes a request for a *)
(* session or refuses it, answers one it took, tells of a session it lost  *)
(* and opens that again by itself (COM_SOCKET_FLAGS_AUTO_REOPEN); the      *)
(* queue of OSAL is first in, first out.  The UART mirror is off.          *)
(***************************************************************************)
EXTENDS Integers, Sequences

CONSTANTS
  Dests,       \* the destinations that are configured
  MAXQ,        \* bound on the queue
  MAXCRASHES,  \* bound on crashes
  Events       \* what may happen besides the start

AllEvents ==
  {"switch", "dest", "config", "loss", "upload", "nomem", "flash", "crash"}

ASSUME TaskAssumption ==
  /\ Dests # {} /\ Dests \subseteq {"NONE", "FLASH", "SOCKET"}
  /\ MAXQ \in Nat \ {0} /\ MAXCRASHES \in Nat
  /\ Events \subseteq AllEvents

VARIABLES
  queue,    \* messages to the task
  state,    \* State
  enabled,  \* Config.General.IsEnabled
  dest,     \* Config.General.DestType
  opened,   \* Flags.IsSocketOpened
  timer,    \* LOGGER_TIMER_OPEN_SOCKET_ID is running
  hw,       \* the hardware timer is running
  asked,    \* COM is to open a session: "no", "once", or "auto" by itself
  link,     \* COM has a session
  sending,  \* who copies the log file: the "task" for a dump, "ftp" for an
            \* upload; "job" when the FTP task has been asked for one
  report,   \* the crash report: "none", in "ram", in the "ring", "out", "lost"
  crashes   \* crashes so far (bounded)

vars == <<queue, state, enabled, dest, opened, timer, hw, asked, link, sending,
          report, crashes>>

socket == <<opened, timer, asked, link>>

States == {"DOWN", "INITIALIZING", "OPENING_SOCKET", "SENDING_LOG_FILE", "READY"}

\* What a message asks for or tells of.
Cmds == {"INIT", "DIS_EN", "SET_DEST_TYPE", "SET_CONFIG", "UPLOAD", "DUMP",
         "TIMER", "OPEN_OK", "OPEN_FAILED", "CLOSED", "FTP_REPLY"}

\* A message; on and dest are those of the configuration it carries.
Msg(c, on, d) == [cmd |-> c, on |-> on, dest |-> d]
Plain(c)      == Msg(c, FALSE, "NONE")

Queued(c) == \E i \in 1 .. Len(queue) : queue[i].cmd = c

Post(m) == Len(queue) < MAXQ /\ queue' = Append(queue, m)

-----------------------------------------------------------------------------
\* Main posts the command to initialise; the configuration it will find is
\* whatever the last one left (LoggerConfig).
Started(q) == \E on \in BOOLEAN, d \in Dests : q = <<Msg("INIT", on, d)>>

Init ==
  /\ Started(queue) /\ state = "DOWN" /\ enabled = FALSE /\ dest = "SOCKET"
  /\ opened = FALSE /\ timer = FALSE /\ hw = FALSE
  /\ asked = "no" /\ link = FALSE /\ sending = {}
  /\ report = "none" /\ crashes = 0

-----------------------------------------------------------------------------
(* What the handlers are made of.                                          *)

\* Mutant of Requested: the timer is started only for a request that was taken.
MutantRequested(taken) ==
  IF opened THEN UNCHANGED <<timer, asked>>
  ELSE /\ timer' = (timer \/ taken)
       /\ asked' = IF taken /\ asked = "no" THEN "once" ELSE asked

\* Logger_OpenSocket: the timer is started whatever COM says.
Requested(taken) ==
  IF opened THEN UNCHANGED <<timer, asked>>
  ELSE /\ timer' = TRUE
       /\ asked' = IF taken /\ asked = "no" THEN "once" ELSE asked

\* ... and the state it leaves, coming from s.
Opening(taken, s) == IF ~opened /\ taken THEN "OPENING_SOCKET" ELSE s

\* Logger_Init, for a system that is down.
HandleInit(m) ==
  /\ m.cmd = "INIT" /\ state = "DOWN"
  /\ enabled' = m.on /\ dest' = m.dest
  /\ \E taken \in BOOLEAN, flash \in {TRUE, "flash" \notin Events} :
       IF ~m.on THEN state' = "INITIALIZING" /\ UNCHANGED <<timer, asked>>
       ELSE IF m.dest = "SOCKET"
       THEN state' = Opening(taken, "INITIALIZING") /\ Requested(taken)
       ELSE /\ state' = IF m.dest = "NONE" \/ flash THEN "READY" ELSE "INITIALIZING"
            /\ UNCHANGED <<timer, asked>>
  /\ report' = IF m.on /\ report = "ram" THEN "ring" ELSE report
  /\ hw' = TRUE
  /\ UNCHANGED <<opened, link, sending>>

\* Mutant of HandleSwitch: the timer is started at the start only.
MutantHandleSwitch(m) ==
  /\ m.cmd = "DIS_EN"
  /\ enabled' = m.on /\ hw' = (hw /\ m.on)
  /\ UNCHANGED <<socket, state, dest, sending, report>>

\* Logger_SwitchOnOff.
HandleSwitch(m) ==
  /\ m.cmd = "DIS_EN"
  /\ enabled' = m.on /\ hw' = m.on
  /\ UNCHANGED <<socket, state, dest, sending, report>>

\* Mutant of HandleDest: the wrong field of the message is taken.
MutantHandleDest(m) ==
  /\ m.cmd = "SET_DEST_TYPE"
  /\ dest' = m.cmd
  /\ UNCHANGED <<socket, state, enabled, hw, sending, report>>

\* Logger_SetDestinationType.
HandleDest(m) ==
  /\ m.cmd = "SET_DEST_TYPE"
  /\ dest' = m.dest
  /\ UNCHANGED <<socket, state, enabled, hw, sending, report>>

\* Logger_HandleServerCmd with a valid general configuration: the ring is
\* made empty, and the logger READY whatever became of FLASH and socket.
HandleConfig(m) ==
  /\ m.cmd = "SET_CONFIG"
  /\ enabled' = m.on /\ hw' = m.on /\ dest' = m.dest
  /\ state' = "READY"
  /\ \E taken \in BOOLEAN :
       IF m.dest = "SOCKET" THEN Requested(taken) ELSE UNCHANGED <<timer, asked>>
  /\ report' = IF report = "ring" THEN "lost" ELSE report
  /\ UNCHANGED <<opened, link, sending>>

\* Mutant of HandleReply: a reply is a session, whatever it says.
MutantHandleReply(m) ==
  /\ m.cmd \in {"OPEN_OK", "OPEN_FAILED"}
  /\ state' = "READY" /\ opened' = TRUE /\ timer' = FALSE
  /\ UNCHANGED <<asked, link, enabled, dest, hw, sending, report>>

\* Logger_HandleSocketReply, COM_MANAGER_OPEN_SOCKET.
HandleReply(m) ==
  /\ m.cmd \in {"OPEN_OK", "OPEN_FAILED"}
  /\ IF m.cmd = "OPEN_OK" THEN state' = "READY" /\ opened' = TRUE /\ timer' = FALSE
     ELSE UNCHANGED <<state, opened, timer>>
  /\ UNCHANGED <<asked, link, enabled, dest, hw, sending, report>>

\* Logger_HandleSocketReply, COM_MANAGER_CLOSE_SOCKET: opened stays.
HandleClosed(m) ==
  /\ m.cmd = "CLOSED"
  /\ state' = "OPENING_SOCKET"
  /\ UNCHANGED <<socket, enabled, dest, hw, sending, report>>

\* Logger_HandleTimerExpr.
HandleTimer(m) ==
  /\ m.cmd = "TIMER"
  /\ \E taken \in BOOLEAN : state' = Opening(taken, state) /\ Requested(taken)
  /\ UNCHANGED <<opened, link, enabled, dest, hw, sending, report>>

\* Logger_HandleFtpPutReply.
HandleFtpReply(m) ==
  /\ m.cmd = "FTP_REPLY"
  /\ state' = "READY"
  /\ UNCHANGED <<socket, enabled, dest, hw, sending, report>>

\* Logger_SendDebugLog: with State other than READY it returns at once, and
\* without memory for its buffer with State set.
HandleDump(m) ==
  /\ m.cmd = "DUMP"
  /\ \/ state # "READY" /\ UNCHANGED <<state, sending>>
     \/ /\ state = "READY" /\ state' = "SENDING_LOG_FILE"
        /\ \/ sending' = sending \cup {"task"}
           \/ "nomem" \in Events /\ UNCHANGED sending
  /\ UNCHANGED <<socket, enabled, dest, hw, report>>

\* Logger_SendLogFileToServer: with nothing to send it answers for the FTP
\* task, whatever State is; else that takes the job or refuses it.
HandleUpload(m) ==
  /\ m.cmd = "UPLOAD"
  /\ \/ state' = "READY" /\ UNCHANGED sending
     \/ sending' \in {sending, sending \cup {"job"}} /\ UNCHANGED state
  /\ UNCHANGED <<socket, enabled, dest, hw, report>>

Handle(m) ==
  \/ HandleInit(m) \/ HandleSwitch(m) \/ HandleDest(m) \/ HandleConfig(m)
  \/ HandleReply(m) \/ HandleClosed(m) \/ HandleTimer(m) \/ HandleFtpReply(m)
  \/ HandleDump(m) \/ HandleUpload(m)

\* LogManagerTask: the next message; it has no other work while it dumps.
Task ==
  /\ queue # <<>> /\ "task" \notin sending
  /\ Handle(Head(queue))
  /\ queue' = Tail(queue)
  /\ UNCHANGED crashes

DumpEnds ==
  /\ "task" \in sending
  /\ sending' = sending \ {"task"} /\ state' = "READY"
  /\ UNCHANGED <<socket, queue, enabled, dest, hw, report, crashes>>

-----------------------------------------------------------------------------
(* Everyone else.                                                          *)

rest == <<state, enabled, dest, opened, hw, sending, report, crashes>>

\* The API: Logger_SendGeneralCmd and its like, once the task is initialised.
Command ==
  /\ state # "DOWN"
  /\ \E on \in BOOLEAN, d \in Dests :
       \/ "switch" \in Events /\ Post(Msg("DIS_EN", on, "NONE"))
       \/ "dest" \in Events /\ Post(Msg("SET_DEST_TYPE", FALSE, d))
       \/ "config" \in Events /\ Post(Msg("SET_CONFIG", on, d))
       \/ "upload" \in Events /\ (Post(Plain("DUMP")) \/ Post(Plain("UPLOAD")))
  /\ UNCHANGED <<rest, timer, asked, link>>

TimerExpires ==
  /\ timer /\ Post(Plain("TIMER"))
  /\ timer' = FALSE
  /\ UNCHANGED <<rest, asked, link>>

ComOpens ==
  /\ asked # "no" /\ Post(Plain("OPEN_OK"))
  /\ asked' = "no" /\ link' = TRUE
  /\ UNCHANGED <<rest, timer>>

\* A request made while there is a session does not fail.
ComFails ==
  /\ asked = "once" /\ ~link /\ Post(Plain("OPEN_FAILED"))
  /\ asked' = "no"
  /\ UNCHANGED <<rest, timer, link>>

ComCloses ==
  /\ "loss" \in Events /\ link /\ Post(Plain("CLOSED"))
  /\ link' = FALSE /\ asked' = "auto"
  /\ UNCHANGED <<rest, timer>>

\* The FTP task copies the log file (DumpLog), unless State is not READY, and
\* answers when it is done.
UploadBegins ==
  /\ "job" \in sending /\ state = "READY" /\ "ftp" \notin sending
  /\ state' = "SENDING_LOG_FILE" /\ sending' = (sending \ {"job"}) \cup {"ftp"}
  /\ UNCHANGED <<socket, queue, enabled, dest, hw, report, crashes>>

UploadEnds ==
  /\ "ftp" \in sending /\ Post(Plain("FTP_REPLY"))
  /\ sending' = sending \ {"ftp"} /\ state' = "READY"
  /\ UNCHANGED <<socket, enabled, dest, hw, report, crashes>>

\* State is not READY, or there is no memory for the buffer.
UploadFails ==
  /\ "job" \in sending /\ Post(Plain("FTP_REPLY"))
  /\ \/ state # "READY" /\ UNCHANGED state
     \/ state = "READY" /\ "nomem" \in Events /\ state' = "SENDING_LOG_FILE"
  /\ sending' = sending \ {"job"}
  /\ UNCHANGED <<socket, enabled, dest, hw, report, crashes>>

\* Logger_SendPacketFromInt with the report in the ring: what is sent while
\* State is not READY counts as sent, and so does what has no destination.
Drain ==
  /\ hw /\ report = "ring"
  /\ \/ (dest = "NONE" \/ state # "READY") /\ report' = "lost"
     \/ dest = "FLASH" /\ state = "READY" /\ report' = "out"
     \/ dest = "SOCKET" /\ state = "READY" /\ link /\ report' = "out"
  /\ UNCHANGED <<socket, queue, state, enabled, dest, hw, sending, crashes>>

\* HardFaultHandler, and the watchdog: all is lost but the report.
Crash ==
  /\ "crash" \in Events /\ state # "DOWN" /\ crashes < MAXCRASHES
  /\ crashes' = crashes + 1 /\ report' = "ram"
  /\ Started(queue') /\ state' = "DOWN" /\ enabled' = FALSE /\ dest' = "SOCKET"
  /\ opened' = FALSE /\ timer' = FALSE /\ hw' = FALSE
  /\ asked' = "no" /\ link' = FALSE /\ sending' = {}

-----------------------------------------------------------------------------
Next ==
  \/ Task \/ DumpEnds \/ Command \/ TimerExpires
  \/ ComOpens \/ ComFails \/ ComCloses
  \/ UploadBegins \/ UploadEnds \/ UploadFails \/ Drain \/ Crash

Spec == Init /\ [][Next]_vars

(* The task is scheduled and a dump ends; timers expire; COM takes a       *)
(* request in the end and in the end opens a session; an upload ends.      *)
Fairness ==
  /\ WF_vars(Task) /\ WF_vars(DumpEnds)
  /\ SF_vars(TimerExpires) /\ SF_vars(ComOpens) /\ SF_vars(UploadEnds)
  /\ SF_vars(Task /\ Head(queue).cmd \in {"INIT", "TIMER"} /\ (opened \/ asked' # "no"))

FairSpec == Spec /\ Fairness

-----------------------------------------------------------------------------
(* Properties.                                                             *)

\* Every variable holds a value of its kind.
TypeOK ==
  /\ queue \in Seq([cmd : Cmds, on : BOOLEAN, dest : Dests \cup {"NONE"}])
  /\ Len(queue) <= MAXQ
  /\ state \in States /\ enabled \in BOOLEAN
  /\ dest \in Dests \cup {"SOCKET"}
  /\ opened \in BOOLEAN /\ timer \in BOOLEAN /\ hw \in BOOLEAN
  /\ asked \in {"no", "once", "auto"} /\ link \in BOOLEAN
  /\ sending \subseteq {"task", "ftp", "job"}
  /\ report \in {"none", "ram", "ring", "out", "lost"}
  /\ crashes \in 0 .. MAXCRASHES

\* A logger that waits for its socket is waiting for something: the timer
\* that asks again (Logger_OpenSocket), or, once a session was open, COM.
NeverStranded ==
  state = "OPENING_SOCKET" =>
    \/ timer \/ Queued("TIMER")
    \/ asked = "auto" \/ Queued("OPEN_OK")

\* IsSocketOpened keeps Logger_OpenSocket from asking again: it is set only
\* while COM has a session or is about to open it again.
OpenedIsOwned == opened => link \/ asked = "auto"

\* Whenever tasks may log, the interrupt that empties the ring is running,
\* through switching, reconfiguration and restart: as the handlers leave it.
\* What a task in the middle of a message makes of it is in RxBuffer.
DrainsWhileEnabled == enabled => hw

\* Under fairness no start in push mode and no lost session leaves the logger
\* opening its socket for ever, however many requests were refused or failed.
SocketOpens ==
  state = "OPENING_SOCKET" \/ timer ~> state \in {"READY", "DOWN"}

-----------------------------------------------------------------------------
(* What the code says and does not do.                                     *)

\* "This function prints (to FLASH, RS232 or socket) the latest crash dump
\* available" (Logger_WeRFaultHandler.c): the report is not thrown away.
ReportPrinted == report # "lost"

\* "This api enables\disables the logger feature in run time" (Logger_Api.c):
\* a logger that stays switched on is READY in the end.
SwitchedOnWorks == []enabled ~> state = "READY"
=============================================================================
