-------------------------- MODULE LoggerTaskProofs --------------------------
(***************************************************************************)
(* Theorems about the Logger task, for every set of destinations, every    *)
(* bound on the queue and on crashes, and whatever of Events may happen.   *)
(***************************************************************************)
EXTENDS LoggerTask, SequenceTheorems, TLAPS

\* A message that carries a configuration names a destination of Dests.
Messages ==
  {m \in [cmd : Cmds, on : BOOLEAN, dest : Dests \cup {"NONE"}] :
     m.cmd \in {"INIT", "SET_DEST_TYPE", "SET_CONFIG"} => m.dest \in Dests}

QueueInv == queue \in Seq(Messages)

\* COM has the session that was opened, or owes one.
Owned == link \/ asked = "auto"

\* A reply that says a session is open is about one COM has, or lost and will
\* open again: what makes OpenedIsOwned survive a reply that comes late.
OwnedInv == opened \/ Queued("OPEN_OK") => Owned

\* A loss that the task has not heard of yet is one after which COM opens
\* again: it still has to, or the reply is behind the loss in the queue.
LossInv ==
  \A i \in 1 .. Len(queue) : queue[i].cmd = "CLOSED" =>
    asked = "auto" \/ \E j \in i + 1 .. Len(queue) : queue[j].cmd = "OPEN_OK"

\* Once a session was open it is COM alone that a waiting logger waits for:
\* Logger_OpenSocket does nothing any more, and its timer is not started.
WaitInv ==
  state = "OPENING_SOCKET" /\ opened => asked = "auto" \/ Queued("OPEN_OK")

\* Nothing is open before Logger_Init has run.
DownInv == state = "DOWN" => ~opened

\* All that the variables promise of each other; with QueueInv, TypeOK and
\* LossInv, which the queue alone decides, the inductive invariant.
Promises ==
  OwnedInv /\ WaitInv /\ DownInv /\ NeverStranded /\ DrainsWhileEnabled

IInv == TypeOK /\ QueueInv /\ LossInv /\ Promises

-----------------------------------------------------------------------------
(* The queue.                                                              *)

\* The messages of the proof are messages of TypeOK.
LEMMA MessagesType ==
  ASSUME NEW q \in Seq(Messages)
  PROVE  q \in Seq([cmd : Cmds, on : BOOLEAN, dest : Dests \cup {"NONE"}])
  <1>1. Messages \subseteq [cmd : Cmds, on : BOOLEAN, dest : Dests \cup {"NONE"}]
    BY DEF Messages
  <1> QED
    BY <1>1, SeqMonotonic

\* Taking the first message off the queue shifts the others by one.
LEMMA TailOfQueue ==
  ASSUME queue \in Seq(Messages), queue # <<>>
  PROVE  /\ Tail(queue) \in Seq(Messages)
         /\ Len(queue) \in Nat \ {0} /\ Len(Tail(queue)) = Len(queue) - 1
         /\ \A i \in 1 .. Len(Tail(queue)) : Tail(queue)[i] = queue[i + 1]
         /\ Head(queue) = queue[1] /\ Head(queue) \in Messages
  BY HeadTailProperties, EmptySeq

\* A message that is posted is the last one.
LEMMA EndOfQueue ==
  ASSUME queue \in Seq(Messages), NEW m \in Messages
  PROVE  /\ Append(queue, m) \in Seq(Messages)
         /\ Len(queue) \in Nat /\ Len(Append(queue, m)) = Len(queue) + 1
         /\ \A i \in 1 .. Len(queue) : Append(queue, m)[i] = queue[i]
         /\ Append(queue, m)[Len(queue) + 1] = m
  BY AppendProperties, LenProperties

\* A message that is posted is queued besides those that are; a loss may be
\* posted if COM owes a session, and COM pays by posting OPEN_OK only.
LEMMA Posted ==
  ASSUME queue \in Seq(Messages), NEW m \in Messages, Post(m)
  PROVE  /\ queue' \in Seq(Messages) /\ Len(queue') <= MAXQ
         /\ Queued("OPEN_OK")' <=> Queued("OPEN_OK") \/ m.cmd = "OPEN_OK"
         /\ Queued("TIMER")' <=> Queued("TIMER") \/ m.cmd = "TIMER"
         /\ \/ ~LossInv
            \/ asked = "auto" /\ asked' # "auto" /\ m.cmd # "OPEN_OK"
            \/ m.cmd = "CLOSED" /\ asked' # "auto"
            \/ LossInv'
  <1> DEFINE n == Len(queue)
  <1>1. /\ queue' \in Seq(Messages) /\ n \in Nat /\ Len(queue') = n + 1
        /\ \A i \in 1 .. n : queue'[i] = queue[i]
        /\ queue'[n + 1] = m /\ n < MAXQ
    BY EndOfQueue DEF Post
  <1>2. Len(queue') <= MAXQ
    BY <1>1, TaskAssumption
  <1>3. /\ Queued("OPEN_OK")' <=> Queued("OPEN_OK") \/ m.cmd = "OPEN_OK"
        /\ Queued("TIMER")' <=> Queued("TIMER") \/ m.cmd = "TIMER"
    BY <1>1 DEF Queued
  <1>4. ASSUME LossInv, asked = "auto" => asked' = "auto" \/ m.cmd = "OPEN_OK",
               m.cmd = "CLOSED" => asked' = "auto",
               NEW i \in 1 .. n + 1, queue'[i].cmd = "CLOSED", asked' # "auto"
        PROVE  \E j \in i + 1 .. n + 1 : queue'[j].cmd = "OPEN_OK"
    <2>1. i \in 1 .. n /\ queue[i].cmd = "CLOSED"
      BY <1>1, <1>4
    <2>2. CASE asked = "auto"
      BY <1>1, <1>4, <2>1, <2>2
    <2>3. CASE \E j \in i + 1 .. n : queue[j].cmd = "OPEN_OK"
      BY <1>1, <2>1, <2>3
    <2> QED
      BY <2>1, <2>2, <2>3, <1>4 DEF LossInv
  <1>5. ASSUME LossInv, asked = "auto" => asked' = "auto" \/ m.cmd = "OPEN_OK",
               m.cmd = "CLOSED" => asked' = "auto"
        PROVE  LossInv'
    BY <1>1, <1>4, <1>5 DEF LossInv
  <1> QED
    BY <1>1, <1>2, <1>3, <1>5

\* A message that is served was queued; a loss that is served leaves COM owing
\* a session, or its reply in the queue.
LEMMA Served ==
  ASSUME queue \in Seq(Messages), Len(queue) <= MAXQ, queue # <<>>,
         queue' = Tail(queue)
  PROVE  /\ queue' \in Seq(Messages) /\ Len(queue') <= MAXQ
         /\ Queued("OPEN_OK") <=> Queued("OPEN_OK")' \/ Head(queue).cmd = "OPEN_OK"
         /\ Queued("TIMER") <=> Queued("TIMER")' \/ Head(queue).cmd = "TIMER"
         /\ LossInv /\ (asked = "auto" => asked' = "auto") => LossInv'
         /\ LossInv /\ Head(queue).cmd = "CLOSED" =>
              asked = "auto" \/ Queued("OPEN_OK")'
  <1> DEFINE n == Len(queue')
  <1>1. /\ queue' \in Seq(Messages) /\ n \in Nat /\ Len(queue) = n + 1
        /\ \A i \in 1 .. n : queue'[i] = queue[i + 1]
        /\ Head(queue) = queue[1]
    BY TailOfQueue
  <1>2. n <= MAXQ
    BY <1>1, TaskAssumption
  <1>3. \A j \in 2 .. n + 1 : j - 1 \in 1 .. n /\ queue'[j - 1] = queue[j]
    BY <1>1
  <1>4. Queued("OPEN_OK") <=> Queued("OPEN_OK")' \/ Head(queue).cmd = "OPEN_OK"
    <2>1. Queued("OPEN_OK")' => Queued("OPEN_OK")
      BY <1>1 DEF Queued
    <2>2. ASSUME NEW j \in 1 .. n + 1, queue[j].cmd = "OPEN_OK", j # 1
          PROVE  Queued("OPEN_OK")'
      BY <1>1, <1>3, <2>2 DEF Queued
    <2>3. Queued("OPEN_OK") <=> \E j \in 1 .. n + 1 : queue[j].cmd = "OPEN_OK"
      BY <1>1 DEF Queued
    <2> HIDE DEF n
    <2> QED
      BY <1>1, <2>1, <2>2, <2>3
  <1>4a. Queued("TIMER") <=> Queued("TIMER")' \/ Head(queue).cmd = "TIMER"
    <2>1. Queued("TIMER")' => Queued("TIMER")
      BY <1>1 DEF Queued
    <2>2. ASSUME NEW j \in 1 .. n + 1, queue[j].cmd = "TIMER", j # 1
          PROVE  Queued("TIMER")'
      BY <1>1, <1>3, <2>2 DEF Queued
    <2>3. Queued("TIMER") <=> \E j \in 1 .. n + 1 : queue[j].cmd = "TIMER"
      BY <1>1 DEF Queued
    <2> HIDE DEF n
    <2> QED
      BY <1>1, <2>1, <2>2, <2>3
  <1>5. ASSUME LossInv, asked = "auto" => asked' = "auto",
               NEW i \in 1 .. n, queue'[i].cmd = "CLOSED", asked' # "auto"
        PROVE  \E j \in i + 1 .. n : queue'[j].cmd = "OPEN_OK"
    <2>1. queue[i + 1].cmd = "CLOSED" /\ i + 1 \in 1 .. n + 1
      BY <1>1, <1>5
    <2>2. PICK j \in i + 2 .. n + 1 : queue[j].cmd = "OPEN_OK"
      BY <1>1, <1>5, <2>1 DEF LossInv
    <2>3. j - 1 \in i + 1 .. n /\ queue'[j - 1].cmd = "OPEN_OK"
      BY <1>1, <2>2, <1>3
    <2> QED
      BY <2>3
  <1>6. ASSUME LossInv, queue[1].cmd = "CLOSED", asked # "auto"
        PROVE  Queued("OPEN_OK")'
    <2>1. PICK j \in 2 .. n + 1 : queue[j].cmd = "OPEN_OK"
      BY <1>1, <1>6 DEF LossInv
    <2> QED
      BY <1>3, <2>1 DEF Queued
  <1>7. LossInv /\ (asked = "auto" => asked' = "auto") => LossInv'
    BY <1>1, <1>5 DEF LossInv
  <1> QED
    BY <1>1, <1>2, <1>4, <1>4a, <1>6, <1>7

-----------------------------------------------------------------------------
(* The invariant holds at first, and every step keeps it.                  *)

\* What a start finds in the queue: one message, to initialise.
LEMMA StartedQueue ==
  ASSUME NEW q, Started(q)
  PROVE  /\ q \in Seq(Messages) /\ Len(q) = 1 /\ Len(q) <= MAXQ
         /\ q[1].cmd = "INIT"
  <1>1. PICK on \in BOOLEAN, d \in Dests : q = <<Msg("INIT", on, d)>>
    BY DEF Started
  <1> DEFINE m == Msg("INIT", on, d)
  <1>2. m \in Messages /\ m.cmd = "INIT"
    <2>1. m = [cmd |-> "INIT", on |-> on, dest |-> d]
      BY DEF Msg
    <2> HIDE DEF m
    <2> QED
      BY <1>1, <2>1 DEF Messages, Cmds
  <1>3. q = <<m>>
    BY <1>1
  <1> HIDE DEF m
  <1>4. <<m>> \in Seq(Messages) /\ Len(<<m>>) = 1 /\ <<m>>[1] = m
    BY <1>2
  <1> QED
    BY <1>2, <1>3, <1>4, TaskAssumption

\* TypeOK without the queue.
Kinds ==
  /\ state \in States /\ enabled \in BOOLEAN
  /\ dest \in Dests \cup {"SOCKET"}
  /\ opened \in BOOLEAN /\ timer \in BOOLEAN /\ hw \in BOOLEAN
  /\ asked \in {"no", "once", "auto"} /\ link \in BOOLEAN
  /\ sending \subseteq {"task", "ftp", "job"}
  /\ report \in {"none", "ram", "ring", "out", "lost"}
  /\ crashes \in 0 .. MAXCRASHES

\* The type invariant, by the queue and the rest, before a step and after it.
LEMMA TypeParts ==
  /\ QueueInv /\ Len(queue) <= MAXQ /\ Kinds => TypeOK
  /\ QueueInv' /\ Len(queue') <= MAXQ /\ Kinds' => TypeOK'
  BY MessagesType DEF QueueInv, Kinds, TypeOK

\* The start satisfies the inductive invariant.
LEMMA InitIInv == Init => IInv
  <1> SUFFICES ASSUME Init PROVE IInv
    OBVIOUS
  <1>1. queue \in Seq(Messages) /\ Len(queue) = 1 /\ Len(queue) <= MAXQ
        /\ queue[1].cmd = "INIT"
    BY StartedQueue DEF Init
  <1>2. Kinds
    <2>1. crashes \in 0 .. MAXCRASHES
      BY TaskAssumption DEF Init
    <2>2. opened \in BOOLEAN /\ timer \in BOOLEAN /\ hw \in BOOLEAN
          /\ link \in BOOLEAN /\ enabled \in BOOLEAN
      BY DEF Init
    <2> QED
      BY <2>1, <2>2 DEF Init, Kinds, States
  <1>3. TypeOK
    BY <1>1, <1>2, TypeParts DEF QueueInv
  <1>4. LossInv /\ ~Queued("OPEN_OK")
    BY <1>1 DEF LossInv, Queued
  <1> QED
    BY <1>1, <1>3, <1>4 DEF Init, IInv, QueueInv, Promises, OwnedInv, WaitInv, DownInv,
                            NeverStranded, DrainsWhileEnabled

\* A message of the queue that is served: whatever handler it is for.
LEMMA TaskKeepsIInv ==
  ASSUME IInv, Task
  PROVE  IInv'
  <1> DEFINE m == Head(queue)
  <1>1. queue \in Seq(Messages) /\ Len(queue) <= MAXQ /\ queue # <<>>
        /\ queue' = Tail(queue) /\ crashes' = crashes /\ Handle(m)
    BY DEF IInv, QueueInv, TypeOK, Task
  <1>2. Kinds /\ Promises /\ LossInv
    BY DEF IInv, TypeOK, Kinds
  <1>3. QueueInv' /\ Len(queue') <= MAXQ
    BY <1>1, Served DEF QueueInv
  <1>4. /\ Queued("OPEN_OK") <=> Queued("OPEN_OK")' \/ m.cmd = "OPEN_OK"
        /\ Queued("TIMER") <=> Queued("TIMER")' \/ m.cmd = "TIMER"
        /\ (asked = "auto" => asked' = "auto") => LossInv'
        /\ m.cmd = "CLOSED" => asked = "auto" \/ Queued("OPEN_OK")'
    BY <1>1, <1>2, Served
  <1>5. m \in Messages
    BY <1>1, TailOfQueue
  <1> HIDE DEF m
  <1>6. /\ m.on \in BOOLEAN /\ m.dest \in Dests \cup {"NONE"}
        /\ m.cmd \in {"INIT", "SET_DEST_TYPE", "SET_CONFIG"} => m.dest \in Dests
    BY <1>5 DEF Messages
  <1>7. ASSUME Kinds', LossInv', Promises' PROVE IInv'
    BY <1>3, <1>7, TypeParts DEF IInv
  <1>8. CASE HandleInit(m)
    <2>1. ~opened
      BY <1>2, <1>8 DEF HandleInit, Promises, DownInv
    <2>2. PICK taken \in BOOLEAN :
            IF ~m.on THEN state' = "INITIALIZING" /\ UNCHANGED <<timer, asked>>
            ELSE \/ state' \in {"OPENING_SOCKET", "INITIALIZING"} /\ Requested(taken)
                 \/ state' \in {"INITIALIZING", "READY"} /\ UNCHANGED <<timer, asked>>
      BY <1>8 DEF HandleInit, Opening
    <2>3. /\ state = "DOWN" /\ m.cmd = "INIT" /\ enabled' = m.on /\ dest' = m.dest
          /\ hw' = TRUE /\ opened' = opened /\ link' = link /\ sending' = sending
          /\ report' \in {"ring", report}
      BY <1>8 DEF HandleInit
    <2> USE <2>1, <2>2, <2>3 DEF Requested
    <2>4. Kinds'
      BY <1>1, <1>2, <1>6 DEF Kinds, States
    <2>5. LossInv'
      BY <1>2, <1>4 DEF Kinds
    <2>6. Promises'
      BY <1>2, <1>4, <1>6 DEF Kinds, Promises, OwnedInv, Owned, WaitInv, DownInv,
                    NeverStranded, DrainsWhileEnabled
    <2> QED
      BY <1>7, <2>4, <2>5, <2>6
  <1>9. CASE HandleSwitch(m)
    <2> USE <1>9 DEF HandleSwitch
    <2>1. Kinds'
      BY <1>1, <1>2, <1>6 DEF Kinds, States, socket
    <2>2. LossInv'
      BY <1>2, <1>4 DEF Kinds, socket
    <2>3. Promises'
      BY <1>2, <1>4, <1>6 DEF Kinds, Promises, OwnedInv, Owned, WaitInv, DownInv,
                    NeverStranded, DrainsWhileEnabled, socket
    <2> QED
      BY <1>7, <2>1, <2>2, <2>3
  <1>10. CASE HandleDest(m)
    <2> USE <1>10 DEF HandleDest
    <2>1. Kinds'
      BY <1>1, <1>2, <1>6 DEF Kinds, States, socket
    <2>2. LossInv'
      BY <1>2, <1>4 DEF Kinds, socket
    <2>3. Promises'
      BY <1>2, <1>4, <1>6 DEF Kinds, Promises, OwnedInv, Owned, WaitInv, DownInv,
                    NeverStranded, DrainsWhileEnabled, socket
    <2> QED
      BY <1>7, <2>1, <2>2, <2>3
  <1>11. CASE HandleConfig(m)
    <2> USE <1>11 DEF HandleConfig, Requested
    <2>1. Kinds'
      BY <1>1, <1>2, <1>6 DEF Kinds, States, socket
    <2>2. LossInv'
      BY <1>2, <1>4 DEF Kinds, socket
    <2>3. Promises'
      BY <1>2, <1>4, <1>6 DEF Kinds, Promises, OwnedInv, Owned, WaitInv, DownInv,
                    NeverStranded, DrainsWhileEnabled, socket
    <2> QED
      BY <1>7, <2>1, <2>2, <2>3
  <1>12. CASE HandleReply(m)
    <2> USE <1>12 DEF HandleReply
    <2>0. /\ sending' \subseteq {"task", "ftp", "job"}
          /\ report' \in {"none", "ram", "ring", "out", "lost"}
      BY <1>2 DEF Kinds
    <2>a. crashes' \in 0 .. MAXCRASHES
      BY <1>1, <1>2 DEF Kinds
    <2>1. Kinds'
      BY <1>2, <1>6, <2>0, <2>a DEF Kinds, States, socket
    <2>2. LossInv'
      BY <1>2, <1>4 DEF Kinds, socket
    <2>3. Promises'
      BY <1>2, <1>4, <1>6 DEF Kinds, Promises, OwnedInv, Owned, WaitInv, DownInv,
                    NeverStranded, DrainsWhileEnabled, socket
    <2> QED
      BY <1>7, <2>1, <2>2, <2>3
  <1>13. CASE HandleClosed(m)
    <2> USE <1>13 DEF HandleClosed
    <2>1. Kinds'
      BY <1>1, <1>2, <1>6 DEF Kinds, States, socket
    <2>2. LossInv'
      BY <1>2, <1>4 DEF Kinds, socket
    <2>3. Promises'
      BY <1>2, <1>4, <1>6 DEF Kinds, Promises, OwnedInv, Owned, WaitInv, DownInv,
                    NeverStranded, DrainsWhileEnabled, socket
    <2> QED
      BY <1>7, <2>1, <2>2, <2>3
  <1>14. CASE HandleTimer(m)
    <2> USE <1>14 DEF HandleTimer, Requested, Opening
    <2>0. /\ sending' \subseteq {"task", "ftp", "job"}
          /\ report' \in {"none", "ram", "ring", "out", "lost"}
      BY <1>2 DEF Kinds
    <2>a. crashes' \in 0 .. MAXCRASHES
      BY <1>1, <1>2 DEF Kinds
    <2>1. Kinds'
      BY <1>2, <1>6, <2>0, <2>a DEF Kinds, States, socket
    <2>2. LossInv'
      BY <1>2, <1>4 DEF Kinds, socket
    <2>3. Promises'
      BY <1>2, <1>4, <1>6 DEF Kinds, Promises, OwnedInv, Owned, WaitInv, DownInv,
                    NeverStranded, DrainsWhileEnabled, socket
    <2> QED
      BY <1>7, <2>1, <2>2, <2>3
  <1>15. CASE HandleFtpReply(m)
    <2> USE <1>15 DEF HandleFtpReply
    <2>1. Kinds'
      BY <1>1, <1>2, <1>6 DEF Kinds, States, socket
    <2>2. LossInv'
      BY <1>2, <1>4 DEF Kinds, socket
    <2>3. Promises'
      BY <1>2, <1>4, <1>6 DEF Kinds, Promises, OwnedInv, Owned, WaitInv, DownInv,
                    NeverStranded, DrainsWhileEnabled, socket
    <2> QED
      BY <1>7, <2>1, <2>2, <2>3
  <1>16. CASE HandleDump(m)
    <2> USE <1>16 DEF HandleDump
    <2>0. /\ sending' \subseteq {"task", "ftp", "job"}
          /\ report' \in {"none", "ram", "ring", "out", "lost"}
      BY <1>2 DEF Kinds
    <2>a. crashes' \in 0 .. MAXCRASHES
      BY <1>1, <1>2 DEF Kinds
    <2>1. Kinds'
      BY <1>2, <1>6, <2>0, <2>a DEF Kinds, States, socket
    <2>2. LossInv'
      BY <1>2, <1>4 DEF Kinds, socket
    <2>3. Promises'
      BY <1>2, <1>4, <1>6 DEF Kinds, Promises, OwnedInv, Owned, WaitInv, DownInv,
                    NeverStranded, DrainsWhileEnabled, socket
    <2> QED
      BY <1>7, <2>1, <2>2, <2>3
  <1>17. CASE HandleUpload(m)
    <2> USE <1>17 DEF HandleUpload
    <2>0. sending' \subseteq {"task", "ftp", "job"}
      BY <1>2 DEF Kinds
    <2>1. Kinds'
      BY <1>1, <1>2, <1>6, <2>0 DEF Kinds, States, socket
    <2>2. LossInv'
      BY <1>2, <1>4 DEF Kinds, socket
    <2>3. Promises'
      BY <1>2, <1>4, <1>6 DEF Kinds, Promises, OwnedInv, Owned, WaitInv, DownInv,
                    NeverStranded, DrainsWhileEnabled, socket
    <2> QED
      BY <1>7, <2>1, <2>2, <2>3
  <1> QED
    BY <1>1, <1>8, <1>9, <1>10, <1>11, <1>12, <1>13, <1>14, <1>15, <1>16, <1>17 DEF Handle

\* What is posted are messages.
LEMMA MsgType ==
  ASSUME NEW c \in Cmds, NEW on \in BOOLEAN, NEW d \in Dests \cup {"NONE"},
         c \in {"INIT", "SET_DEST_TYPE", "SET_CONFIG"} => d \in Dests
  PROVE  Msg(c, on, d) \in Messages /\ Msg(c, on, d).cmd = c
  <1>1. /\ Msg(c, on, d) \in [cmd : Cmds, on : BOOLEAN, dest : Dests \cup {"NONE"}]
        /\ Msg(c, on, d).cmd = c /\ Msg(c, on, d).dest = d
    BY DEF Msg
  <1> QED
    BY <1>1 DEF Messages

\* Everyone who posts a message: the API, the timer, COM and the FTP task.
LEMMA PostKeepsIInv ==
  ASSUME IInv, Command \/ TimerExpires \/ ComOpens \/ ComFails \/ ComCloses
               \/ UploadEnds \/ UploadFails
  PROVE  IInv'
  <1>1. QueueInv /\ Kinds /\ Promises /\ LossInv
    BY DEF IInv, TypeOK, Kinds
  <1>2. /\ \A c \in {"DUMP", "UPLOAD", "TIMER", "OPEN_OK", "OPEN_FAILED", "CLOSED",
                     "FTP_REPLY"} :
             Plain(c) \in Messages /\ Plain(c).cmd = c
        /\ \A on \in BOOLEAN, d \in Dests :
             /\ Msg("DIS_EN", on, "NONE") \in Messages
             /\ Msg("DIS_EN", on, "NONE").cmd = "DIS_EN"
             /\ Msg("SET_DEST_TYPE", FALSE, d) \in Messages
             /\ Msg("SET_DEST_TYPE", FALSE, d).cmd = "SET_DEST_TYPE"
             /\ Msg("SET_CONFIG", on, d) \in Messages
             /\ Msg("SET_CONFIG", on, d).cmd = "SET_CONFIG"
    <2>1. ASSUME NEW c \in Cmds \ {"INIT", "SET_DEST_TYPE", "SET_CONFIG"},
                 NEW on \in BOOLEAN
          PROVE  Msg(c, on, "NONE") \in Messages /\ Msg(c, on, "NONE").cmd = c
      BY MsgType
    <2>2. ASSUME NEW c \in Cmds, NEW on \in BOOLEAN, NEW d \in Dests
          PROVE  Msg(c, on, d) \in Messages /\ Msg(c, on, d).cmd = c
      BY MsgType
    <2>3. ASSUME NEW c \in {"DUMP", "UPLOAD", "TIMER", "OPEN_OK", "OPEN_FAILED",
                           "CLOSED", "FTP_REPLY"}
          PROVE  Plain(c) \in Messages /\ Plain(c).cmd = c
      <3>1. c \in Cmds \ {"INIT", "SET_DEST_TYPE", "SET_CONFIG"}
        BY DEF Cmds
      <3> QED
        BY <2>1, <3>1 DEF Plain
    <2>4. {"DIS_EN", "SET_DEST_TYPE", "SET_CONFIG"} \subseteq Cmds
      BY DEF Cmds
    <2>5. "DIS_EN" \in Cmds \ {"INIT", "SET_DEST_TYPE", "SET_CONFIG"}
      BY DEF Cmds
    <2> QED
      BY <2>1, <2>2, <2>3, <2>4, <2>5
  <1>3. ASSUME NEW m \in Messages, Post(m)
        PROVE  /\ QueueInv' /\ Len(queue') <= MAXQ
               /\ Queued("OPEN_OK")' <=> Queued("OPEN_OK") \/ m.cmd = "OPEN_OK"
               /\ Queued("TIMER")' <=> Queued("TIMER") \/ m.cmd = "TIMER"
               /\ \/ asked = "auto" /\ asked' # "auto" /\ m.cmd # "OPEN_OK"
                  \/ m.cmd = "CLOSED" /\ asked' # "auto"
                  \/ LossInv'
    BY <1>1, <1>3, Posted DEF QueueInv
  <1>4. ASSUME QueueInv', Len(queue') <= MAXQ, Kinds', LossInv', Promises'
        PROVE  IInv'
    BY <1>4, TypeParts DEF IInv
  <1>5. CASE Command
    <2>1. PICK m \in Messages : Post(m) /\ m.cmd \notin {"OPEN_OK", "TIMER", "CLOSED"}
      BY <1>2, <1>5 DEF Command
    <2> USE <1>5, <2>1 DEF Command
    <2>2. Kinds'
      BY <1>1 DEF Kinds, States, socket, rest
    <2>3. LossInv'
      BY <1>1, <1>3 DEF Kinds, socket, rest
    <2>4. Promises'
      BY <1>1, <1>3 DEF Kinds, Promises, OwnedInv, Owned, WaitInv, DownInv,
                                    NeverStranded, DrainsWhileEnabled, socket, rest
    <2> QED
      BY <1>3, <1>4, <2>2, <2>3, <2>4
  <1>6. CASE TimerExpires
    <2>1. PICK m \in Messages : Post(m) /\ m.cmd = "TIMER"
      BY <1>2, <1>6 DEF TimerExpires
    <2> USE <1>6, <2>1 DEF TimerExpires
    <2>0. crashes' \in 0 .. MAXCRASHES /\ sending' \subseteq {"task", "ftp", "job"}
      BY <1>1 DEF Kinds, rest
    <2>00. state' \in States /\ dest' \in Dests \cup {"SOCKET"}
           /\ report' \in {"none", "ram", "ring", "out", "lost"}
      BY <1>1 DEF Kinds, rest
    <2>2. Kinds'
      BY <1>1, <2>0, <2>00 DEF Kinds, socket, rest
    <2>3. LossInv'
      BY <1>1, <1>3 DEF Kinds, socket, rest
    <2>4. Promises'
      BY <1>1, <1>3 DEF Kinds, Promises, OwnedInv, Owned, WaitInv, DownInv,
                                    NeverStranded, DrainsWhileEnabled, socket, rest
    <2> QED
      BY <1>3, <1>4, <2>2, <2>3, <2>4
  <1>7. CASE ComOpens
    <2>1. PICK m \in Messages : Post(m) /\ m.cmd = "OPEN_OK"
      BY <1>2, <1>7 DEF ComOpens
    <2> USE <1>7, <2>1 DEF ComOpens
    <2>2. Kinds'
      BY <1>1 DEF Kinds, States, socket, rest
    <2>3. LossInv'
      BY <1>1, <1>3 DEF Kinds, socket, rest
    <2>4. Promises'
      BY <1>1, <1>3 DEF Kinds, Promises, OwnedInv, Owned, WaitInv, DownInv,
                                    NeverStranded, DrainsWhileEnabled, socket, rest
    <2> QED
      BY <1>3, <1>4, <2>2, <2>3, <2>4
  <1>8. CASE ComFails
    <2>1. PICK m \in Messages : Post(m) /\ m.cmd = "OPEN_FAILED"
      BY <1>2, <1>8 DEF ComFails
    <2> USE <1>8, <2>1 DEF ComFails
    <2>2. Kinds'
      BY <1>1 DEF Kinds, States, socket, rest
    <2>3. LossInv'
      BY <1>1, <1>3 DEF Kinds, socket, rest
    <2>4. Promises'
      BY <1>1, <1>3 DEF Kinds, Promises, OwnedInv, Owned, WaitInv, DownInv,
                                    NeverStranded, DrainsWhileEnabled, socket, rest
    <2> QED
      BY <1>3, <1>4, <2>2, <2>3, <2>4
  <1>9. CASE ComCloses
    <2>1. PICK m \in Messages : Post(m) /\ m.cmd = "CLOSED"
      BY <1>2, <1>9 DEF ComCloses
    <2> USE <1>9, <2>1 DEF ComCloses
    <2>2. Kinds'
      BY <1>1 DEF Kinds, States, socket, rest
    <2>3. LossInv'
      BY <1>1, <1>3 DEF Kinds, socket, rest
    <2>4. Promises'
      BY <1>1, <1>3 DEF Kinds, Promises, OwnedInv, Owned, WaitInv, DownInv,
                                    NeverStranded, DrainsWhileEnabled, socket, rest
    <2> QED
      BY <1>3, <1>4, <2>2, <2>3, <2>4
  <1>10. CASE UploadEnds
    <2>1. PICK m \in Messages : Post(m) /\ m.cmd = "FTP_REPLY"
      BY <1>2, <1>10 DEF UploadEnds
    <2> USE <1>10, <2>1 DEF UploadEnds
    <2>2. Kinds'
      BY <1>1 DEF Kinds, States, socket, rest
    <2>3. LossInv'
      BY <1>1, <1>3 DEF Kinds, socket, rest
    <2>4. Promises'
      BY <1>1, <1>3 DEF Kinds, Promises, OwnedInv, Owned, WaitInv, DownInv,
                                    NeverStranded, DrainsWhileEnabled, socket, rest
    <2> QED
      BY <1>3, <1>4, <2>2, <2>3, <2>4
  <1>11. CASE UploadFails
    <2>1. PICK m \in Messages : Post(m) /\ m.cmd = "FTP_REPLY"
      BY <1>2, <1>11 DEF UploadFails
    <2> USE <1>11, <2>1 DEF UploadFails
    <2>2. Kinds'
      BY <1>1 DEF Kinds, States, socket, rest
    <2>3. LossInv'
      BY <1>1, <1>3 DEF Kinds, socket, rest
    <2>4. Promises'
      BY <1>1, <1>3 DEF Kinds, Promises, OwnedInv, Owned, WaitInv, DownInv,
                                    NeverStranded, DrainsWhileEnabled, socket, rest
    <2> QED
      BY <1>3, <1>4, <2>2, <2>3, <2>4
  <1> QED
    BY <1>5, <1>6, <1>7, <1>8, <1>9, <1>10, <1>11

\* What leaves the queue alone: a dump that ends, an upload that begins, what
\* the interrupt sends.
LEMMA RestKeepsIInv ==
  ASSUME IInv, DumpEnds \/ UploadBegins \/ Drain \/ UNCHANGED vars
  PROVE  IInv'
  <1>1. QueueInv /\ Len(queue) <= MAXQ /\ Kinds /\ Promises /\ LossInv
    BY DEF IInv, TypeOK, Kinds
  <1>2. queue' = queue /\ UNCHANGED socket
    BY DEF DumpEnds, UploadBegins, Drain, vars, socket
  <1>3. QueueInv' /\ Len(queue') <= MAXQ
    BY <1>1, <1>2 DEF QueueInv
  <1>4. Queued("OPEN_OK")' = Queued("OPEN_OK") /\ Queued("TIMER")' = Queued("TIMER")
    BY <1>2 DEF Queued
  <1>5. LossInv'
    BY <1>1, <1>2 DEF LossInv, socket
  <1>6. Kinds'
    <2>1. CASE DumpEnds
      BY <1>1, <2>1 DEF Kinds, States, socket, DumpEnds
    <2>2. CASE UploadBegins
      BY <1>1, <2>2 DEF Kinds, States, socket, UploadBegins
    <2>3. CASE Drain
      BY <1>1, <2>3 DEF Kinds, States, socket, Drain
    <2>4. CASE UNCHANGED vars
      BY <1>1, <2>4 DEF Kinds, States, vars
    <2> QED
      BY <2>1, <2>2, <2>3, <2>4
  <1>7. Promises'
    BY <1>1, <1>2, <1>4 DEF DumpEnds, UploadBegins, Drain, vars, Kinds, Promises,
          OwnedInv, Owned, WaitInv, DownInv, NeverStranded, DrainsWhileEnabled, socket
  <1> QED
    BY <1>3, <1>5, <1>6, <1>7, TypeParts DEF IInv

\* A crash leaves nothing to be kept.
LEMMA CrashKeepsIInv ==
  ASSUME IInv, Crash
  PROVE  IInv'
  <1>1. /\ queue' \in Seq(Messages) /\ Len(queue') = 1 /\ Len(queue') <= MAXQ
        /\ queue'[1].cmd = "INIT"
    BY StartedQueue DEF Crash
  <1>2. Kinds'
    <2>1. crashes' \in 0 .. MAXCRASHES
      BY TaskAssumption DEF Crash, IInv, TypeOK
    <2> QED
      BY <2>1 DEF Crash, Kinds, States
  <1>3. TypeOK'
    BY <1>1, <1>2, TypeParts DEF QueueInv
  <1>4. LossInv' /\ ~Queued("OPEN_OK")'
    BY <1>1 DEF LossInv, Queued
  <1> QED
    BY <1>1, <1>3, <1>4 DEF Crash, IInv, QueueInv, Promises, OwnedInv, WaitInv, DownInv,
                            NeverStranded, DrainsWhileEnabled

-----------------------------------------------------------------------------
(* The theorems.                                                           *)

\* Every state the task can reach satisfies the inductive invariant, with or
\* without fairness.
LEMMA Inductive == Spec => []IInv
  <1>1. IInv /\ [Next]_vars => IInv'
    BY TaskKeepsIInv, PostKeepsIInv, RestKeepsIInv, CrashKeepsIInv DEF Next
  <1> QED
    BY InitIInv, <1>1, PTL DEF Spec

\* Every variable of the task holds a value of its kind.
THEOREM TypeCorrect == Spec => []TypeOK
  BY Inductive, PTL DEF IInv

\* A logger that waits for its socket always has something to wait for: the
\* timer of Logger_OpenSocket, or COM, which lost a session and reopens it.
THEOREM WaitsForSomething == Spec => []NeverStranded
  BY Inductive, PTL DEF IInv, Promises

\* IsSocketOpened, which keeps Logger_OpenSocket from asking, is never left
\* behind by a reply that comes late: COM has a session, or reopens one.
THEOREM OpenedMeansOwned == Spec => []OpenedIsOwned
  <1>1. IInv => OpenedIsOwned
    BY DEF IInv, Promises, OwnedInv, Owned, OpenedIsOwned
  <1> QED
    BY <1>1, Inductive, PTL

\* Whenever tasks may log, the interrupt that empties the ring is running.
THEOREM EnabledMeansDrained == Spec => []DrainsWhileEnabled
  BY Inductive, PTL DEF IInv, Promises
=============================================================================
