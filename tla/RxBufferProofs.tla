--------------------------- MODULE RxBufferProofs ---------------------------
(***************************************************************************)
(* Theorems about the ring, for every set of tasks, every size of buffer   *)
(* and message, and every destination.                                     *)
(***************************************************************************)
EXTENDS RxBuffer, TLAPS

\* Where a task may be without the mutex: before it is captured, and in
\* Logger_FlushRxBuffer, called for an upload.
Outside == {"idle", "capture", "flush", "seturgent", "hurry"}

\* Elsewhere a task owns the mutex, so that no two tasks are there; the owner
\* is past Capture.
MutexInv ==
  \A t \in Tasks : /\ pc[t] \notin Outside => mutex = t
                   /\ mutex = t => pc[t] \notin {"idle", "capture"}

\* A pointer moved ahead of its character has a character to wait for.
LateInv ==
  \A t \in Tasks : pc[t] = "late" => loc[t].left > 0 /\ pWrite > 0

\* No more is left to copy than the message has, and all of it at first.
LeftInv ==
  \A t \in Tasks : /\ loc[t].left <= loc[t].len
                   /\ pc[t] = "measure" => loc[t].left = loc[t].len

\* The inductive invariant: mutual exclusion makes the holder the only one to
\* move pWrite, without which no statement about its copy survives a step of
\* another task.
IInv == TypeOK /\ MutexInv /\ LateInv /\ LeftInv /\ MessageIntact

-----------------------------------------------------------------------------
(* The pointer arithmetic.                                                 *)

\* The room left is a number of cells, one more than the ring has when the
\* reader was reset past pTail.
LEMMA RemainBounds ==
  ASSUME NEW r \in 0 .. SIZE + 1, NEW w \in 0 .. SIZE
  PROVE  RemainBuffSize(r, w) \in 0 .. SIZE + 1
  BY SizesAssumption DEF RemainBuffSize

\* What there is to send before pTail ends at pTail at the latest, and is
\* nothing for a reader that is past it.
LEMMA ReadBounds ==
  ASSUME NEW r \in 0 .. SIZE + 1, NEW w \in 0 .. SIZE
  PROVE  /\ BuffSizeToRead(r, w) \in Int
         /\ BuffSizeToRead(r, w) > 0 => r + BuffSizeToRead(r, w) <= SIZE
  BY SizesAssumption DEF BuffSizeToRead

\* A packet is no longer than what was offered.
LEMMA TakenBounds ==
  ASSUME NEW n \in Int, NEW k \in Taken(n)
  PROVE  k \in Nat /\ (k > 0 => k <= n)
  <1>1. CASE n <= 0
    BY <1>1 DEF Taken
  <1>2. CASE n > 0
    BY <1>2, SizesAssumption DEF Taken
  <1> QED
    BY <1>1, <1>2

\* A packet leaves the reader within the buffer, or where it was.
LEMMA AdvanceBounds ==
  ASSUME NEW r \in 0 .. SIZE + 1, NEW w \in 0 .. SIZE,
         NEW k \in Taken(BuffSizeToRead(r, w))
  PROVE  Advance(r, k) \in 0 .. SIZE + 1
  <1> DEFINE n == BuffSizeToRead(r, w)
  <1>1. n \in Int /\ (n > 0 => r + n <= SIZE)
    BY ReadBounds
  <1>2. k \in Nat /\ (k > 0 => k <= n)
    BY <1>1, TakenBounds
  <1> HIDE DEF n
  <1>3. k > 0 => r + k <= SIZE
    BY <1>1, <1>2, SizesAssumption
  <1> QED
    BY <1>2, <1>3, SizesAssumption DEF Advance

-----------------------------------------------------------------------------
(* The invariant holds at first, and every step keeps it.                  *)

\* The locals that Capture gives a call are a call's locals.
LEMMA MessageType ==
  ASSUME NEW n \in 0 .. MAXLEN, NEW c \in BOOLEAN
  PROVE  Message(n, c) \in Locals
  BY SizesAssumption DEF Message, Locals

\* Nobody is in Logger_printf at first.
LEMMA InitIInv == Init => IInv
  <1> SUFFICES ASSUME Init PROVE IInv
    OBVIOUS
  <1>1. FALSE \in BOOLEAN /\ 0 \in 0 .. MAXLEN
    BY SizesAssumption
  <1>2. NoLocals \in Locals
    BY <1>1, MessageType DEF NoLocals
  <1>3. pc \in [Tasks -> Labels] /\ loc \in [Tasks -> Locals]
    BY <1>2 DEF Init, Labels
  <1>4. pRead \in 0 .. SIZE + 1 /\ pWrite \in 0 .. SIZE
    BY SizesAssumption DEF Init
  <1>5. TypeOK
    BY <1>3, <1>4, Zenon DEF Init, TypeOK
  <1> QED
    BY <1>5, ConfigAssumption
    DEF Init, IInv, MutexInv, Outside, LateInv, LeftInv, MessageIntact, Copying,
        NoLocals, Message

\* A step that loads or stores the byte of the flags keeps all else.
LEMMA ByteKeepsIInv ==
  ASSUME IInv, NEW t \in Tasks, NEW b \in BOOLEAN, NEW l \in Labels \ {"measure", "late"},
         loc' = [loc EXCEPT ![t].byte = b], Goto(t, l),
         pRead' = pRead, pWrite' = pWrite, mutex' = mutex, fresh' = fresh, dest' = dest,
         timer' = timer, switchVars' = switchVars,
         lowMem' \in BOOLEAN, urgent' \in BOOLEAN, hazard' \in SUBSET Hazards,
         pc[t] \notin {"idle", "capture", "late"},
         l \notin Outside => pc[t] \notin Outside, l \notin {"idle", "capture"},
         Copying(t)' => Copying(t)
  PROVE  IInv'
  <1> USE DEF IInv
  <1> DEFINE new == [loc[t] EXCEPT !.byte = b]
  <1>1. loc' = [loc EXCEPT ![t] = new] /\ loc[t] \in Locals
    BY DEF TypeOK
  <1>2. new \in Locals /\ new.left = loc[t].left /\ new.len = loc[t].len
        /\ new.base = loc[t].base
    BY <1>1 DEF Locals
  <1> HIDE DEF new
  <1>3. pc' = [pc EXCEPT ![t] = l] /\ pc' \in [Tasks -> Labels]
    BY DEF Goto, TypeOK
  <1>4. TypeOK'
    BY <1>1, <1>2, <1>3 DEF TypeOK, switchVars
  <1>5. MutexInv' /\ LateInv' /\ LeftInv'
    BY <1>1, <1>2, <1>3 DEF TypeOK, MutexInv, LateInv, LeftInv
  <1>6. MessageIntact'
    BY <1>1, <1>2, <1>3 DEF TypeOK, MessageIntact, Copying
  <1> QED
    BY <1>4, <1>5, <1>6

\* The steps of Logger_printf before the copy: the mutex is taken, the base and
\* the room are measured, the low memory flag raised.
LEMMA CallKeepsIInv ==
  ASSUME IInv, NEW t \in Tasks,
         \/ Printf(t) \/ Capture(t) \/ Measure(t) \/ Flag(t) \/ SetLow(t)
         \/ Test(t) \/ Boost(t)
  PROVE  IInv'
  <1> USE DEF IInv, Goto, switchVars
  <1>1. CASE Printf(t)
    BY <1>1 DEF Printf, TypeOK, Labels, MutexInv, Outside, LateInv, LeftInv,
                MessageIntact, Copying
  <1>2. CASE Capture(t)
    <2>1. PICK n \in 1 .. MAXLEN, c \in BOOLEAN :
            loc' = [loc EXCEPT ![t] = Message(n, c)]
      BY <1>2 DEF Capture
    <2>3. n \in 0 .. MAXLEN
      BY SizesAssumption
    <2>4. Message(n, c) \in Locals
      BY <2>3, MessageType
    <2>5. TypeOK'
      BY <1>2, <2>1, <2>4 DEF Capture, TypeOK, Labels
    <2>6. \A s \in Tasks : pc[s] \in Outside
      BY <1>2, ConfigAssumption DEF Capture, MutexInv
    <2>7. MutexInv' /\ LateInv' /\ MessageIntact'
      BY <1>2, <2>6 DEF Capture, TypeOK, MutexInv, Outside, LateInv, MessageIntact, Copying
    <2>8. Message(n, c).left = n /\ Message(n, c).len = n
      BY DEF Message
    <2>9. LeftInv'
      BY <1>2, <2>1, <2>3, <2>6, <2>8 DEF Capture, LeftInv, TypeOK
    <2> QED
      BY <2>5, <2>7, <2>9
  <1>3. CASE Measure(t)
    <2> DEFINE old == loc[t]
               left == IF pWrite = SIZE THEN 0 ELSE old.left
               len  == IF pWrite = SIZE THEN 0 ELSE old.len
               remain == RemainBuffSize(pRead, pWrite)
               new == [old EXCEPT !.base = pWrite, !.left = left, !.len = len,
                                  !.remain = remain]
    <2>1. remain \in 0 .. SIZE + 1
      BY RemainBounds DEF TypeOK
    <2>2. old \in Locals /\ pWrite \in 0 .. SIZE
      BY DEF TypeOK
    <2>3. left \in 0 .. MAXLEN /\ len \in 0 .. MAXLEN /\ left = len
      BY <1>3, <2>2, SizesAssumption DEF Locals, LeftInv, Measure
    <2>4. loc' = [loc EXCEPT ![t] = new]
      BY <1>3 DEF Measure, TypeOK
    <2> HIDE DEF left, len, remain
    <2>5. new \in Locals /\ new.base = pWrite /\ new.left = new.len
      BY <2>1, <2>2, <2>3 DEF Locals
    <2> HIDE DEF new
    <2>6. TypeOK'
      <3>1. loc' \in [Tasks -> Locals]
        BY <2>4, <2>5 DEF TypeOK
      <3>2. pc' \in [Tasks -> Labels]
        BY <1>3 DEF Measure, TypeOK, Labels
      <3> QED
        BY <1>3, <3>1, <3>2 DEF Measure, TypeOK
    <2>7. MutexInv' /\ LateInv' /\ LeftInv'
      BY <1>3, <2>4, <2>5 DEF Measure, TypeOK, Locals, MutexInv, Outside, LateInv, LeftInv
    <2>8. MessageIntact'
      BY <1>3, <2>4, <2>5, ConfigAssumption
      DEF Measure, TypeOK, Locals, MutexInv, Outside, MessageIntact, Copying
    <2> QED
      BY <2>6, <2>7, <2>8
  <1>4. CASE Flag(t)
    <2>1. urgent \in BOOLEAN /\ "setlow" \in Labels \ {"measure", "late"}
      BY DEF TypeOK, Labels
    <2>2. pc[t] = "flag" /\ pc' = [pc EXCEPT ![t] = "setlow"]
      BY <1>4 DEF Flag
    <2>3. pc[t] \notin Outside /\ Copying(t)
      BY <2>2 DEF Outside, Copying
    <2>4. lowMem' \in BOOLEAN /\ urgent' \in BOOLEAN /\ hazard' \in SUBSET Hazards
      BY <1>4 DEF Flag, TypeOK
    <2>5. loc' = [loc EXCEPT ![t].byte = urgent]
          /\ UNCHANGED <<pRead, pWrite, mutex, fresh, dest, timer, switchVars>>
      BY <1>4 DEF Flag
    <2> HIDE DEF IInv, switchVars
    <2> QED
      BY <2>1, <2>2, <2>3, <2>4, <2>5, ByteKeepsIInv
  <1>6. CASE SetLow(t)
    <2>1. FALSE \in BOOLEAN /\ "test" \in Labels \ {"measure", "late"}
      BY DEF Labels
    <2>2. pc[t] = "setlow" /\ pc' = [pc EXCEPT ![t] = "test"]
      BY <1>6 DEF SetLow
    <2>3. pc[t] \notin Outside /\ Copying(t)
      BY <2>2 DEF Outside, Copying
    <2>4. lowMem' \in BOOLEAN /\ urgent' \in BOOLEAN /\ hazard' \in SUBSET Hazards
      BY <1>6 DEF SetLow, TypeOK, Locals
    <2>5. loc' = [loc EXCEPT ![t].byte = FALSE]
          /\ UNCHANGED <<pRead, pWrite, mutex, fresh, dest, timer, switchVars>>
      BY <1>6 DEF SetLow
    <2> HIDE DEF IInv, switchVars
    <2> QED
      BY <2>1, <2>2, <2>3, <2>4, <2>5, ByteKeepsIInv
  <1>7. CASE Test(t)
    BY <1>7 DEF Test, TypeOK, Labels, MutexInv, Outside, LateInv, LeftInv,
                MessageIntact, Copying
  <1>5. CASE Boost(t)
    BY <1>5 DEF Boost, TypeOK, Labels, MutexInv, Outside, LateInv, LeftInv,
                MessageIntact, Copying
  <1> QED
    BY <1>1, <1>2, <1>3, <1>4, <1>5, <1>6, <1>7

\* A stored character: one less to copy, and nothing else of the locals but
\* the ghost that says whether the cell was taken.
LEMMA StoredType ==
  ASSUME TypeOK, NEW t \in Tasks, NEW i \in Cells, Stored(t, i), loc[t].left > 0
  PROVE  /\ fresh' \in SUBSET Cells
         /\ loc' \in [Tasks -> Locals]
         /\ \A s \in Tasks \ {t} : loc'[s] = loc[s]
         /\ loc'[t].left = loc[t].left - 1
         /\ loc'[t].len = loc[t].len
         /\ loc'[t].base = loc[t].base
  <1> DEFINE old == loc[t]
             left == old.left - 1
             over == old.over \/ i \in fresh
             new == [old EXCEPT !.left = left, !.over = over]
  <1>1. old \in Locals /\ loc \in [Tasks -> Locals]
    BY DEF TypeOK
  <1>2. over \in BOOLEAN
    OBVIOUS
  <1>3. left \in 0 .. MAXLEN
    BY <1>1, SizesAssumption DEF Locals
  <1>4. loc' = [loc EXCEPT ![t] = new]
    BY DEF Stored, TypeOK
  <1>5. fresh' \in SUBSET Cells
    BY DEF Stored, TypeOK
  <1> HIDE DEF over, left
  <1>6. new \in Locals /\ new.left = left /\ new.len = old.len /\ new.base = old.base
    BY <1>1, <1>2, <1>3 DEF Locals
  <1> HIDE DEF new
  <1>7. loc' \in [Tasks -> Locals] /\ loc'[t] = new
    BY <1>1, <1>4, <1>6
  <1> QED
    BY <1>1, <1>4, <1>5, <1>6, <1>7 DEF left

\* While one task copies no other does.
LEMMA OthersOut ==
  ASSUME IInv, NEW t \in Tasks, pc[t] \notin Outside,
         NEW s \in Tasks \ {t}
  PROVE  pc[s] \in Outside
  BY ConfigAssumption DEF IInv, MutexInv

\* The steps of the copy: what is left and the pointer move together, but for
\* the moment between a pointer and its character.
LEMMA CopyKeepsIInv ==
  ASSUME IInv, NEW t \in Tasks,
         StoreChar(t) \/ BumpPointer(t) \/ StoreLate(t) \/ Wrap(t) \/ EndOfText(t)
  PROVE  IInv'
  <1> USE DEF IInv, Goto, switchVars
  <1>1. CASE StoreChar(t)
    <2>1. pWrite \in Cells /\ pWrite' = pWrite + 1 /\ pWrite' \in 0 .. SIZE
      BY <1>1, SizesAssumption DEF StoreChar, CanStore, TypeOK, Cells
    <2>2. Stored(t, pWrite) /\ loc[t].left > 0
      BY <1>1 DEF StoreChar, CanStore
    <2>3. TypeOK'
      BY <1>1, <2>1, <2>2, StoredType DEF StoreChar, TypeOK
    <2>4. MutexInv' /\ LateInv' /\ LeftInv'
      BY <1>1, <2>1, <2>2, StoredType
      DEF StoreChar, CanStore, TypeOK, Locals, MutexInv, Outside, LateInv, LeftInv
    <2>5. MessageIntact'
      <3>1. \A s \in Tasks \ {t} : ~Copying(s)'
        BY <1>1, OthersOut DEF Outside, StoreChar, CanStore, Copying
      <3>2. loc[t] \in Locals /\ pc' = pc /\ pc[t] = "write"
        BY <1>1 DEF StoreChar, CanStore, TypeOK
      <3>3. /\ loc'[t].left = loc[t].left - 1
            /\ loc'[t].len = loc[t].len
            /\ loc'[t].base = loc[t].base
        BY <2>1, <2>2, StoredType
      <3> DEFINE done  == loc[t].len - loc[t].left
                 moved == pWrite - loc[t].base
      <3>4. moved = done \/ moved = done - SIZE
        BY <3>2 DEF MessageIntact, Copying, Locals
      <3>5. (moved = done \/ moved = done - SIZE)'
        BY <2>1, <3>2, <3>3, <3>4, SizesAssumption DEF Locals, Cells
      <3> QED
        BY <3>1, <3>2, <3>3, <3>5 DEF MessageIntact, Locals
    <2> QED
      BY <2>3, <2>4, <2>5
  <1>2. CASE BumpPointer(t)
    <2>1. TypeOK'
      BY <1>2, SizesAssumption DEF BumpPointer, CanStore, TypeOK, Labels
    <2>2. MutexInv' /\ LateInv' /\ LeftInv'
      BY <1>2 DEF BumpPointer, CanStore, TypeOK, Labels, MutexInv, Outside, LateInv, LeftInv
    <2>3. MessageIntact'
      <3>1. \A s \in Tasks \ {t} : ~Copying(s)'
        BY <1>2, OthersOut DEF Outside, BumpPointer, CanStore, TypeOK, Copying
      <3>2. /\ loc[t] \in Locals /\ loc' = loc
            /\ pc[t] = "write" /\ pc'[t] = "late"
            /\ pWrite \in 0 .. SIZE /\ pWrite' = pWrite + 1
        BY <1>2 DEF BumpPointer, CanStore, TypeOK
      <3>3. LET done  == loc[t].len - loc[t].left
                moved == pWrite - loc[t].base
            IN  moved = done \/ moved = done - SIZE
        BY <3>2 DEF MessageIntact, Copying, Locals
      <3>4. /\ loc[t].len \in Int /\ loc[t].left \in Int /\ loc[t].base \in Int
            /\ pWrite \in Int /\ SIZE \in Int
        BY <3>2, SizesAssumption DEF Locals
      <3>5. LET done  == loc'[t].len - loc'[t].left + 1
                moved == pWrite' - loc'[t].base
            IN  moved = done \/ moved = done - SIZE
        <4> HIDE DEF IInv
        <4> QED
          BY <3>2, <3>3, <3>4
      <3> QED
        BY <3>1, <3>2, <3>5 DEF MessageIntact
    <2> QED
      BY <2>1, <2>2, <2>3
  <1>3. CASE StoreLate(t)
    <2>1. pWrite - 1 \in Cells
      BY <1>3, SizesAssumption DEF StoreLate, LateInv, TypeOK, Cells
    <2>2. Stored(t, pWrite - 1) /\ loc[t].left > 0
      BY <1>3 DEF StoreLate, LateInv
    <2>3. pc' \in [Tasks -> Labels]
      BY <1>3 DEF StoreLate, TypeOK, Labels
    <2>4. TypeOK'
      BY <1>3, <2>1, <2>2, <2>3, StoredType DEF StoreLate, TypeOK
    <2>5. MutexInv' /\ LateInv' /\ LeftInv'
      BY <1>3, <2>1, <2>2, StoredType
      DEF StoreLate, TypeOK, Locals, MutexInv, Outside, LateInv, LeftInv
    <2>6. MessageIntact'
      BY <1>3, <2>1, <2>2, StoredType, ConfigAssumption
      DEF StoreLate, TypeOK, Locals, MutexInv, Outside, MessageIntact, Copying
    <2> QED
      BY <2>4, <2>5, <2>6
  <1>4. CASE Wrap(t)
    <2>1. TypeOK' /\ MutexInv' /\ LateInv' /\ LeftInv'
      BY <1>4, SizesAssumption
      DEF Wrap, TypeOK, MutexInv, Outside, LateInv, LeftInv
    <2>2. MessageIntact'
      BY <1>4, SizesAssumption, ConfigAssumption
      DEF Wrap, TypeOK, Locals, MutexInv, Outside, LeftInv, MessageIntact, Copying
    <2> QED
      BY <2>1, <2>2
  <1>5. CASE EndOfText(t)
    BY <1>5 DEF EndOfText, TypeOK, Labels, MutexInv, Outside, LateInv, LeftInv,
                MessageIntact, Copying
  <1> QED
    BY <1>1, <1>2, <1>3, <1>4, <1>5

\* The overrun test moves the reader, which the message does not depend on.
LEMMA TestKeepsIInv ==
  ASSUME IInv, NEW t \in Tasks,
         Check(t) \/ Compare(t) \/ Mark(t) \/ Reset(t)
  PROVE  IInv'
  <1> USE DEF IInv, Goto, switchVars
  <1>1. CASE Check(t)
    BY <1>1 DEF Check, TypeOK, Labels, MutexInv, Outside, LateInv, LeftInv,
                MessageIntact, Copying
  <1>2. CASE Compare(t)
    BY <1>2 DEF Compare, TypeOK, Labels, MutexInv, Outside, LateInv, LeftInv,
                MessageIntact, Copying
  <1>3. CASE Mark(t)
    <2> DEFINE new == [loc[t] EXCEPT !.marked = TRUE]
    <2>1. loc' = [loc EXCEPT ![t] = new] /\ loc[t] \in Locals
      BY <1>3 DEF Mark, TypeOK
    <2>2. new \in Locals /\ new.left = loc[t].left /\ new.len = loc[t].len
          /\ new.base = loc[t].base
      BY <2>1 DEF Locals
    <2> HIDE DEF new
    <2>3. TypeOK'
      <3>1. loc' \in [Tasks -> Locals]
        BY <2>1, <2>2 DEF TypeOK
      <3>2. pc' \in [Tasks -> Labels] /\ fresh' \in SUBSET Cells
        BY <1>3 DEF Mark, TypeOK, Labels
      <3> QED
        BY <1>3, <3>1, <3>2 DEF Mark, TypeOK
    <2>4. MutexInv' /\ LateInv' /\ LeftInv' /\ MessageIntact'
      BY <1>3, <2>1, <2>2
      DEF Mark, TypeOK, MutexInv, Outside, LateInv, LeftInv, MessageIntact, Copying
    <2> QED
      BY <2>3, <2>4
  <1>4. CASE Reset(t)
    <2>1. TypeOK'
      <3>1. pRead' \in 0 .. SIZE + 1 /\ fresh' \in SUBSET Cells
        BY <1>4, SizesAssumption DEF Reset, TypeOK
      <3>2. pc' \in [Tasks -> Labels] /\ hazard' \in SUBSET Hazards
        BY <1>4 DEF Reset, TypeOK, Labels, Hazards
      <3> QED
        BY <1>4, <3>1, <3>2 DEF Reset, TypeOK
    <2>2. MutexInv' /\ LateInv' /\ LeftInv' /\ MessageIntact'
      BY <1>4 DEF Reset, TypeOK, MutexInv, Outside, LateInv, LeftInv, MessageIntact, Copying
    <2> QED
      BY <2>1, <2>2
  <1> QED
    BY <1>1, <1>2, <1>3, <1>4

\* The steps after the test, the last of which gives the mutex back.
LEMMA ReturnKeepsIInv ==
  ASSUME IInv, NEW t \in Tasks,
         Count(t) \/ Flush(t) \/ SetUrgent(t) \/ Hurry(t) \/ Release(t)
  PROVE  IInv'
  <1> USE DEF IInv, Goto, switchVars
  <1>1. CASE Count(t)
    BY <1>1 DEF Count, TypeOK, Labels, MutexInv, Outside, LateInv, LeftInv,
                MessageIntact, Copying
  <1>2. CASE Flush(t)
    <2>1. lowMem \in BOOLEAN /\ "seturgent" \in Labels \ {"measure", "late"}
      BY DEF TypeOK, Labels
    <2>2. pc[t] = "flush" /\ pc' = [pc EXCEPT ![t] = "seturgent"]
      BY <1>2 DEF Flush
    <2>3. pc'[t] = "seturgent"
      BY <2>2 DEF TypeOK
    <2>4. "seturgent" \in Outside /\ ~Copying(t)'
      BY <2>2, <2>3 DEF Outside, Copying
    <2>5. lowMem' \in BOOLEAN /\ urgent' \in BOOLEAN /\ hazard' \in SUBSET Hazards
      BY <1>2 DEF Flush, TypeOK
    <2>6. loc' = [loc EXCEPT ![t].byte = lowMem]
          /\ UNCHANGED <<pRead, pWrite, mutex, fresh, dest, timer, switchVars>>
      BY <1>2 DEF Flush
    <2> HIDE DEF IInv, switchVars
    <2> QED
      BY <2>1, <2>2, <2>4, <2>5, <2>6, ByteKeepsIInv
  <1>5. CASE SetUrgent(t)
    <2>1. FALSE \in BOOLEAN /\ "hurry" \in Labels \ {"measure", "late"}
      BY DEF Labels
    <2>2. pc[t] = "seturgent" /\ pc' = [pc EXCEPT ![t] = "hurry"]
      BY <1>5 DEF SetUrgent
    <2>3. pc'[t] = "hurry"
      BY <2>2 DEF TypeOK
    <2>4. "hurry" \in Outside /\ ~Copying(t)'
      BY <2>2, <2>3 DEF Outside, Copying
    <2>5. lowMem' \in BOOLEAN /\ urgent' \in BOOLEAN /\ hazard' \in SUBSET Hazards
      BY <1>5 DEF SetUrgent, TypeOK, Locals, Hazards
    <2>6. loc' = [loc EXCEPT ![t].byte = FALSE]
          /\ UNCHANGED <<pRead, pWrite, mutex, fresh, dest, timer, switchVars>>
      BY <1>5 DEF SetUrgent
    <2> HIDE DEF IInv, switchVars
    <2> QED
      BY <2>1, <2>2, <2>4, <2>5, <2>6, ByteKeepsIInv
  <1>3. CASE Hurry(t)
    BY <1>3 DEF Hurry, TypeOK, Labels, MutexInv, Outside, LateInv, LeftInv,
                MessageIntact, Copying
  <1>4. CASE Release(t)
    <2>1. NoLocals \in Locals /\ NoLocals.left = 0 /\ NoLocals.len = 0
      <3>1. FALSE \in BOOLEAN /\ 0 \in 0 .. MAXLEN
        BY SizesAssumption
      <3> QED
        BY <3>1, MessageType DEF NoLocals, Message
    <2>2. TypeOK'
      <3>1. loc' \in [Tasks -> Locals]
        BY <1>4, <2>1 DEF Release, TypeOK
      <3>2. pc' \in [Tasks -> Labels]
        BY <1>4 DEF Release, TypeOK, Labels
      <3> QED
        BY <1>4, <3>1, <3>2 DEF Release, TypeOK
    <2>3. \A s \in Tasks \ {t} : pc[s] \in Outside
      BY <1>4, OthersOut DEF Outside, Release
    <2>4. /\ pc' \in [Tasks -> Labels] /\ pc'[t] = "idle" /\ mutex' = NoTask
          /\ \A s \in Tasks \ {t} : pc'[s] = pc[s]
      BY <1>4, <2>2 DEF Release, TypeOK
    <2>5. \A s \in Tasks : pc'[s] \in Outside
      BY <2>3, <2>4 DEF Outside
    <2>6. MutexInv' /\ LateInv' /\ MessageIntact'
      BY <2>4, <2>5, ConfigAssumption
      DEF MutexInv, Outside, LateInv, MessageIntact, Copying
    <2>7. LeftInv'
      BY <1>4, <2>1, <2>3 DEF Release, TypeOK, LeftInv
    <2> QED
      BY <2>2, <2>6, <2>7
  <1> QED
    BY <1>1, <1>2, <1>3, <1>4, <1>5

\* What the Logger task does between its own calls.
Commands ==
  \/ \E d \in Dests : SetDestination(d)
  \/ SwitchOff \/ StopTimer \/ SwitchOn \/ SlowTimer

\* It leaves the ring and every call alone.
LEMMA CommandsLeaveRing ==
  ASSUME Commands
  PROVE  /\ pRead' = pRead /\ pWrite' = pWrite /\ lowMem' = lowMem /\ urgent' = urgent
         /\ mutex' = mutex /\ pc' = pc /\ loc' = loc /\ fresh' = fresh
         /\ hazard' = hazard
  BY DEF Commands, SetDestination, SwitchOff, StopTimer, SwitchOn, SlowTimer

\* Commands are no business of the ring; the call of an upload is one of a task
\* that has no mutex.
LEMMA CommandKeepsIInv ==
  ASSUME IInv, Commands \/ Upload
  PROVE  IInv'
  <1> USE DEF IInv
  <1>1. CASE Commands
    <2>1. /\ timer' \in {"OFF", "LOW", "HIGH"} /\ enabled' \in BOOLEAN
          /\ command' \in {"idle", "greet", "stop"} /\ dest' \in Dests
      BY <1>1 DEF Commands, SetDestination, SwitchOff, StopTimer, SwitchOn, SlowTimer,
                  TypeOK
    <2> QED
      BY <1>1, <2>1, CommandsLeaveRing
      DEF TypeOK, MutexInv, LateInv, LeftInv, MessageIntact, Copying
  <1>2. CASE Upload
    <2>1. mutex # Manager
      BY <1>2, ConfigAssumption DEF Upload, Free, MutexInv
    <2> QED
      BY <1>2, <2>1, ConfigAssumption
      DEF Upload, Free, Goto, TypeOK, Labels, MutexInv, Outside, LateInv, LeftInv,
          MessageIntact, Copying
  <1> QED
    BY <1>1, <1>2

\* The interrupt moves the reader and the flags, and no task's copy.
LEMMA InterruptKeepsIInv ==
  ASSUME IInv, SendPacketFromInt
  PROVE  IInv'
  <1> USE DEF IInv
  <1> DEFINE n == BuffSizeToRead(pRead, pWrite)
  <1>1. PICK k1 \in Taken(n) :
          LET r1 == Advance(pRead, k1)
              again == dest # "FLASH" /\ pWrite # r1
          IN  \E k2 \in IF again THEN Taken(BuffSizeToRead(r1, pWrite)) ELSE {0} :
                /\ pRead' = Advance(r1, k2)
                /\ fresh' = fresh \ ((pRead .. pRead + k1 - 1) \cup (r1 .. r1 + k2 - 1))
    BY DEF SendPacketFromInt
  <1> DEFINE r1 == Advance(pRead, k1)
             again == dest # "FLASH" /\ pWrite # r1
  <1>2. PICK k2 \in IF again THEN Taken(BuffSizeToRead(r1, pWrite)) ELSE {0} :
          /\ pRead' = Advance(r1, k2)
          /\ fresh' = fresh \ ((pRead .. pRead + k1 - 1) \cup (r1 .. r1 + k2 - 1))
    BY <1>1
  <1>3. r1 \in 0 .. SIZE + 1
    BY AdvanceBounds DEF TypeOK
  <1>4. pRead' \in 0 .. SIZE + 1
    <2>1. CASE again
      BY <1>2, <1>3, <2>1, AdvanceBounds DEF TypeOK
    <2>2. CASE ~again
      <3>1. k2 = 0
        BY <1>2, <2>2
      <3>2. Advance(r1, 0) = r1
        BY <1>3 DEF Advance
      <3> QED
        BY <1>2, <1>3, <3>1, <3>2
    <2> QED
      BY <2>1, <2>2
  <1>5. fresh' \in SUBSET Cells
    BY <1>2 DEF TypeOK
  <1>6. hazard' \in SUBSET Hazards /\ timer' \in {"OFF", "LOW", "HIGH"}
    BY DEF SendPacketFromInt, Unprotected, Hazards, TypeOK
  <1>7. TypeOK'
    BY <1>4, <1>5, <1>6 DEF SendPacketFromInt, TypeOK, switchVars
  <1>8. MutexInv' /\ LateInv' /\ LeftInv' /\ MessageIntact'
    BY DEF SendPacketFromInt, MutexInv, Outside, LateInv, LeftInv, MessageIntact, Copying
  <1> QED
    BY <1>7, <1>8

-----------------------------------------------------------------------------
\* Every reachable state has every variable in range, one task at most past
\* Capture, and the message being copied in consecutive cells of the ring.
THEOREM Invariance == Spec => []IInv
  <1>1. Init => IInv
    BY InitIInv
  <1>2. IInv /\ [Next]_vars => IInv'
    <2> SUFFICES ASSUME IInv, [Next]_vars PROVE IInv'
      OBVIOUS
    <2>1. CASE \E t \in Tasks : Printf(t) \/ Step(t)
      BY <2>1, CallKeepsIInv, CopyKeepsIInv, TestKeepsIInv, ReturnKeepsIInv
      DEF Step
    <2>2. CASE SendPacketFromInt
      BY <2>2, InterruptKeepsIInv
    <2>3. CASE Commands \/ Upload
      BY <2>3, CommandKeepsIInv
    <2>4. CASE UNCHANGED vars
      BY <2>4 DEF vars, IInv, TypeOK, MutexInv, Outside, LateInv, LeftInv,
                  MessageIntact, Copying
    <2> QED
      BY <2>1, <2>2, <2>3, <2>4 DEF Next, Commands
  <1> QED
    BY <1>1, <1>2, PTL DEF Spec

\* Type correctness of the ring (RXBuffer_t and the locals of Logger_printf).
THEOREM TypeCorrect == Spec => []TypeOK
  BY Invariance, PTL DEF IInv

\* The characters of a message stay together and in order whichever tasks log
\* at the same time (Logger_printf under its mutex).
THEOREM MessagesIntact == Spec => []MessageIntact
  BY Invariance, PTL DEF IInv

\* No packet of the interrupt runs past pTail, whatever it interrupts
\* (the assertion on SizeToWrite in Logger_SendPacketFlash).
THEOREM SendsInBounds == Spec => []SendInBounds
  <1>1. IInv => SendInBounds
    BY SizesAssumption DEF IInv, TypeOK, LateInv, SendInBounds, BuffSizeToRead
  <1> QED
    BY <1>1, Invariance, PTL

-----------------------------------------------------------------------------
(* The room in front of the writer.                                        *)

\* Past Capture a message has characters, and a writer at pTail belongs to a
\* task that has still to look at where it is.
RoomInv ==
  /\ \A t \in Tasks : mutex = t => loc[t].len > 0
  /\ pWrite = SIZE => \E t \in Tasks : pc[t] \in {"write", "late"}

\* A step by a task that is not copying, and does not go on to copy with
\* nothing, leaves whoever is at pTail there.
LEMMA AwayKeepsRoom ==
  ASSUME TypeOK, RoomInv, NEW t \in Tasks, NEW l \in Labels, Goto(t, l),
         pc[t] \notin {"write", "late"},
         pWrite' = pWrite,
         \A s \in Tasks \ {t} : loc'[s] = loc[s],
         \A s \in Tasks \ {t} : mutex' = s => mutex = s,
         mutex' = t => loc'[t].len > 0
  PROVE  RoomInv'
  <1>1. pc'[t] = l /\ \A s \in Tasks \ {t} : pc'[s] = pc[s]
    BY DEF Goto, TypeOK
  <1>2. \A s \in Tasks : mutex' = s => loc'[s].len > 0
    BY DEF RoomInv
  <1>3. pWrite' = SIZE => \E s \in Tasks : pc'[s] \in {"write", "late"}
    BY <1>1 DEF RoomInv
  <1> QED
    BY <1>2, <1>3 DEF RoomInv

\* Every step keeps it.
LEMMA StepKeepsRoom ==
  ASSUME IInv, RoomInv, [Next]_vars
  PROVE  RoomInv'
  <1> USE DEF IInv
  <1>1. CASE UNCHANGED vars
    BY <1>1 DEF RoomInv, vars
  <1>2. CASE SendPacketFromInt
    BY <1>2 DEF RoomInv, SendPacketFromInt
  <1>3. CASE Commands
    BY <1>3, CommandsLeaveRing DEF RoomInv
  <1>5. CASE Upload
    <2>1. Goto(Manager, "flush") /\ pc[Manager] = "idle" /\ pWrite' = pWrite
          /\ loc' = loc /\ mutex' = mutex
      BY <1>5 DEF Upload, Free
    <2> QED
      BY <2>1, ConfigAssumption, AwayKeepsRoom DEF Labels, RoomInv
  <1>4. ASSUME NEW t \in Tasks, Printf(t) \/ Step(t)
        PROVE  RoomInv'
    <2>1. CASE Printf(t)
      <3>1. Goto(t, "capture") /\ loc' = loc /\ pWrite' = pWrite /\ pc[t] = "idle"
            /\ mutex' = mutex
        BY <2>1 DEF Printf
      <3> QED
        BY <3>1, AwayKeepsRoom DEF Labels, RoomInv
    <2>2. CASE Capture(t)
      <3>1. PICK n \in 1 .. MAXLEN, c \in BOOLEAN :
              loc' = [loc EXCEPT ![t] = Message(n, c)]
        BY <2>2 DEF Capture
      <3>2. loc'[t] = Message(n, c) /\ \A s \in Tasks \ {t} : loc'[s] = loc[s]
        BY <3>1 DEF TypeOK
      <3>3. loc'[t].len > 0
        BY <3>2 DEF Message
      <3>4. Goto(t, "measure") /\ pWrite' = pWrite /\ pc[t] = "capture" /\ mutex' = t
        BY <2>2 DEF Capture
      <3> QED
        BY <3>2, <3>3, <3>4, AwayKeepsRoom DEF Labels
    <2>3. CASE Measure(t)
      <3>1. pc[t] = "measure" /\ Goto(t, "flag") /\ pWrite' = pWrite /\ mutex' = mutex
        BY <2>3 DEF Measure
      <3>2. pWrite # SIZE
        BY <3>1, ConfigAssumption DEF RoomInv, MutexInv, Outside
      <3>3. loc'[t].len = loc[t].len /\ \A s \in Tasks \ {t} : loc'[s] = loc[s]
        BY <2>3, <3>2 DEF Measure, TypeOK, Locals
      <3> QED
        BY <3>1, <3>3, AwayKeepsRoom DEF Labels, RoomInv
    <2>4. CASE Flag(t) \/ SetLow(t) \/ Test(t) \/ Boost(t)
      <3>1. \E l \in {"setlow", "test", "boost", "write"} : Goto(t, l)
        BY <2>4 DEF Flag, SetLow, Test, Boost
      <3>2. pWrite' = pWrite /\ mutex' = mutex /\ pc[t] \in {"flag", "setlow", "test", "boost"}
        BY <2>4 DEF Flag, SetLow, Test, Boost
      <3>3. \A s \in Tasks : loc'[s].len = loc[s].len
        BY <2>4 DEF Flag, SetLow, Test, Boost, TypeOK, Locals
      <3>4. \A s \in Tasks \ {t} : loc'[s] = loc[s]
        BY <2>4 DEF Flag, SetLow, Test, Boost, TypeOK
      <3> QED
        BY <3>1, <3>2, <3>3, <3>4, AwayKeepsRoom DEF Labels, RoomInv
    <2>5. CASE StoreChar(t)
      <3>1. pc' = pc /\ pc[t] = "write" /\ mutex' = mutex
        BY <2>5 DEF StoreChar, CanStore
      <3>2. \A s \in Tasks : loc'[s].len = loc[s].len
        BY <2>5 DEF StoreChar, Stored, TypeOK, Locals
      <3> QED
        BY <3>1, <3>2 DEF RoomInv
    <2>6. CASE BumpPointer(t)
      <3>1. pc'[t] = "late" /\ loc' = loc /\ pc[t] = "write"
            /\ mutex' = mutex /\ \A s \in Tasks \ {t} : pc'[s] = pc[s]
        BY <2>6 DEF BumpPointer, CanStore, Goto, TypeOK
      <3> QED
        BY <3>1 DEF RoomInv
    <2>7. CASE StoreLate(t)
      <3>1. pc'[t] = "write" /\ pc[t] = "late"
            /\ mutex' = mutex /\ \A s \in Tasks \ {t} : pc'[s] = pc[s]
        BY <2>7 DEF StoreLate, Goto, TypeOK
      <3>2. \A s \in Tasks : loc'[s].len = loc[s].len
        BY <2>7 DEF StoreLate, Stored, TypeOK, Locals
      <3> QED
        BY <3>1, <3>2 DEF RoomInv
    <2>8. CASE Wrap(t)
      BY <2>8, SizesAssumption DEF Wrap, RoomInv
    <2>9. CASE EndOfText(t)
      <3>1. pWrite' < SIZE /\ pWrite' = pWrite /\ mutex' = mutex
        BY <2>9 DEF EndOfText, RoomInv, TypeOK, MutexInv, Outside
      <3>2. pc[t] = "write" /\ loc' = loc /\ \A s \in Tasks \ {t} : pc'[s] = pc[s]
        BY <2>9 DEF EndOfText, Goto, TypeOK
      <3> QED
        BY <3>1, <3>2, SizesAssumption DEF RoomInv, TypeOK
    <2>10. CASE Check(t) \/ Compare(t) \/ Mark(t) \/ Reset(t) \/ Count(t)
                \/ Flush(t) \/ SetUrgent(t) \/ Hurry(t)
      <3>1. PICK l \in Labels : Goto(t, l)
        BY <2>10 DEF Check, Compare, Mark, Reset, Count, Flush, SetUrgent, Hurry, Labels
      <3>2. /\ pWrite' = pWrite /\ mutex' = mutex
            /\ pc[t] \in {"check", "compare", "mark", "reset", "count", "flush",
                          "seturgent", "hurry"}
        BY <2>10 DEF Check, Compare, Mark, Reset, Count, Flush, SetUrgent, Hurry
      <3>3. \A s \in Tasks : loc'[s].len = loc[s].len
        BY <2>10 DEF Check, Compare, Mark, Reset, Count, Flush, SetUrgent, Hurry, TypeOK, Locals
      <3>4. \A s \in Tasks \ {t} : loc'[s] = loc[s]
        BY <2>10 DEF Check, Compare, Mark, Reset, Count, Flush, SetUrgent, Hurry, TypeOK
      <3> QED
        BY <3>1, <3>2, <3>3, <3>4, AwayKeepsRoom DEF RoomInv
    <2>11. CASE Release(t)
      <3>1. Goto(t, "idle") /\ pWrite' = pWrite /\ pc[t] = "release" /\ mutex' = NoTask
            /\ \A s \in Tasks \ {t} : loc'[s] = loc[s]
        BY <2>11 DEF Release, TypeOK
      <3> QED
        BY <3>1, ConfigAssumption, AwayKeepsRoom DEF Labels
    <2> QED
      BY <1>4, <2>1, <2>2, <2>3, <2>4, <2>5, <2>6, <2>7, <2>8, <2>9, <2>10, <2>11
      DEF Step
  <1> QED
    BY <1>1, <1>2, <1>3, <1>4, <1>5 DEF Next, Commands

\* A message always starts in front of pTail: "if(MaxSize <= 0)" in
\* Logger_ParseAndWriteRxMessage finds nothing, for texts.
THEOREM AlwaysRoom == Spec => []RoomForMessage
  <1>1. Init => RoomInv
    BY SizesAssumption, ConfigAssumption DEF Init, RoomInv
  <1>2. IInv /\ RoomInv /\ [Next]_vars => RoomInv'
    BY StepKeepsRoom
  <1>3. IInv /\ RoomInv => RoomForMessage
    <2> SUFFICES ASSUME IInv, RoomInv, NEW t \in Tasks, pc[t] = "measure"
                 PROVE  pWrite < SIZE
      BY DEF RoomForMessage
    <2>1. pWrite # SIZE
      BY ConfigAssumption DEF IInv, MutexInv, Outside, RoomInv
    <2> QED
      BY <2>1, SizesAssumption DEF IInv, TypeOK
  <1> QED
    BY <1>1, <1>2, <1>3, Invariance, PTL DEF Spec

-----------------------------------------------------------------------------
(* The timer.                                                              *)

\* A timer that is off is so because the logger is off, or about to be started.
\* While a stop is under way the logger is off already.
TimerInv == RunsWhileEnabled /\ (command = "stop" => ~enabled)

\* Every step keeps it: tasks and interrupt never stop the timer, and whoever
\* stops it has let no more calls in before.
LEMMA StepKeepsTimer ==
  ASSUME TimerInv, [Next]_vars
  PROVE  TimerInv'
  <1> USE DEF TimerInv, RunsWhileEnabled
  <1>1. CASE UNCHANGED vars
    BY <1>1 DEF vars
  <1>2. CASE SendPacketFromInt
    BY <1>2 DEF SendPacketFromInt, switchVars
  <1>3. ASSUME NEW t \in Tasks, Printf(t) \/ Step(t)
        PROVE  TimerInv'
    <2>1. (timer' = timer \/ timer' = "HIGH") /\ switchVars' = switchVars
      BY <1>3 DEF Step, Printf, Capture, Measure, Flag, SetLow, Test, Boost, StoreChar,
                  BumpPointer, StoreLate, Wrap, EndOfText, Check, Compare, Mark, Reset,
                  Count, Flush, SetUrgent, Hurry, Release, switchVars
    <2> QED
      BY <2>1 DEF switchVars
  <1>4. CASE Commands
    BY <1>4 DEF Commands, SetDestination, SwitchOff, StopTimer, SwitchOn, SlowTimer
  <1>5. CASE Upload
    BY <1>5 DEF Upload
  <1> QED
    BY <1>1, <1>2, <1>3, <1>4, <1>5 DEF Next, Commands

\* Between two commands an enabled logger has its timer running: neither the
\* tasks, nor the interrupt, nor the order in which Logger_SwitchOnOff and
\* Logger_Init do things leave it stopped.
THEOREM EnabledMeansRunning == Spec => []RunsWhileEnabled
  <1>1. Init => TimerInv
    BY DEF Init, TimerInv, RunsWhileEnabled
  <1>2. TimerInv /\ [Next]_vars => TimerInv'
    BY StepKeepsTimer
  <1>3. TimerInv => RunsWhileEnabled
    BY DEF TimerInv
  <1> QED
    BY <1>1, <1>2, <1>3, PTL DEF Spec

-----------------------------------------------------------------------------
(* What lies between the pointers.                                         *)

\* The cell that the next character of the message goes to.
At(t) == IF pc[t] = "late" THEN pWrite - 1 ELSE pWrite

Room(t) == RemainBuffSize(pRead, At(t))

\* The cells in use when the message was measured, and its characters since.
Used(t) == SIZE - loc[t].remain + (loc[t].len - loc[t].left)

Tight(t) == MAXRX > loc[t].remain

\* A message that found room for the longest: the interrupt may only give it
\* more.
AmpleInv(t) ==
  /\ pc[t] \in {"flag", "setlow", "test", "write", "late", "check"}
  /\ pc[t] \notin {"flag", "setlow"} => ~lowMem
  /\ fresh = Backlog(pRead, At(t)) /\ Room(t) > loc[t].left
  /\ ~loc[t].over

\* A message that found less: lowMem makes the task compare when it has
\* written.  Until Used reaches SIZE the ring is exact; from there on every
\* cell is taken, and the room, which starts again from SIZE, betrays it.
TightInv(t) ==
  /\ pc[t] \in {"test", "boost", "write", "late", "check"} => lowMem
  /\ pc[t] \in {"flag", "setlow", "test", "boost"} => loc[t].left = loc[t].len
  /\ pc[t] \in {"check", "compare", "mark", "reset"} => loc[t].left = 0
  /\ loc[t].remain <= SIZE
  /\ Used(t) < SIZE => /\ fresh = Backlog(pRead, At(t)) /\ Room(t) = SIZE - Used(t)
                       /\ ~loc[t].over /\ pc[t] \notin {"mark", "reset"}
  /\ Used(t) >= SIZE => /\ fresh = Cells
                        /\ \/ Room(t) = 2 * SIZE - Used(t)
                           \/ Used(t) = SIZE /\ At(t) = SIZE /\ pRead = 0
  /\ pc[t] = "reset" => loc[t].marked

Ended == {"count", "flush", "seturgent", "hurry", "release"}

CallInv(t) ==
  /\ pc[t] = "measure" => ~loc[t].over
  /\ Copying(t) => IF Tight(t) THEN TightInv(t) ELSE AmpleInv(t)
  /\ pc[t] \in Ended /\ loc[t].over => loc[t].marked
  /\ mutex # t => ~loc[t].over

\* As long as no interrupt met a half-done task and no reset hit pTail.
RingInv ==
  hazard = {} =>
    /\ pRead < SIZE
    /\ (\A t \in Tasks : ~Copying(t)) => fresh = Backlog(pRead, pWrite)
    /\ \A t \in Tasks : CallInv(t)

\* Nothing in the locals is out of range, for the arithmetic.
LEMMA LocalTypes ==
  ASSUME TypeOK, NEW t \in Tasks
  PROVE  /\ loc[t].len \in Int /\ loc[t].left \in Int /\ loc[t].remain \in Int
         /\ 0 <= loc[t].left /\ 0 <= loc[t].len /\ loc[t].len < SIZE
         /\ 0 <= loc[t].remain
         /\ loc[t].over \in BOOLEAN /\ loc[t].marked \in BOOLEAN
         /\ SIZE \in Int /\ MAXRX \in Int /\ MAXLEN \in Int
         /\ loc[t].len <= MAXLEN /\ MAXRX < SIZE
  <1>1. loc[t] \in Locals
    BY DEF TypeOK
  <1>2. /\ loc[t].len \in 0 .. MAXLEN /\ loc[t].left \in 0 .. MAXLEN
        /\ loc[t].remain \in 0 .. SIZE + 1
    BY <1>1 DEF Locals
  <1>3. loc[t].over \in BOOLEAN /\ loc[t].marked \in BOOLEAN
    BY <1>1 DEF Locals
  <1> QED
    BY <1>2, <1>3, SizesAssumption

\* With both pointers in the ring some room is left: as much as SIZE, for an
\* empty ring and for a full one.
LEMMA RingRoom ==
  ASSUME NEW r \in Cells, NEW w \in Cells
  PROVE  RemainBuffSize(r, w) \in Int /\ 0 < RemainBuffSize(r, w)
         /\ RemainBuffSize(r, w) <= SIZE
  BY SizesAssumption DEF Cells, RemainBuffSize

\* A character more: the backlog grows by its cell, until the last cell, which
\* makes the ring look empty.
LEMMA FillCell ==
  ASSUME NEW r \in Cells, NEW w \in Cells
  PROVE  /\ w \notin Backlog(r, w)
         /\ RemainBuffSize(r, w) > 1 =>
              /\ Backlog(r, w + 1) = Backlog(r, w) \cup {w}
              /\ RemainBuffSize(r, w + 1) = RemainBuffSize(r, w) - 1
         /\ RemainBuffSize(r, w) = 1 =>
              /\ Backlog(r, w) \cup {w} = Cells
              /\ \/ w + 1 = r /\ RemainBuffSize(r, w + 1) = SIZE
                 \/ w + 1 = SIZE /\ r = 0
  <1>1. /\ r \in Int /\ w \in Int /\ SIZE \in Int
        /\ 0 <= r /\ 0 <= w /\ r < SIZE /\ w < SIZE
    BY SizesAssumption DEF Cells
  <1>2. CASE r > w
    <2>1. Backlog(r, w) = (r .. SIZE - 1) \cup (0 .. w - 1)
          /\ RemainBuffSize(r, w) = r - w
      BY <1>1, <1>2 DEF Backlog, RemainBuffSize
    <2>2. CASE r - w > 1
      <3>1. Backlog(r, w + 1) = (r .. SIZE - 1) \cup (0 .. w)
            /\ RemainBuffSize(r, w + 1) = r - w - 1
        BY <1>1, <2>2 DEF Backlog, RemainBuffSize
      <3> QED
        BY <1>1, <1>2, <2>1, <2>2, <3>1
    <2>3. CASE r - w = 1
      <3>1. RemainBuffSize(r, w + 1) = SIZE /\ w + 1 = r
        BY <1>1, <2>3 DEF RemainBuffSize
      <3> QED
        BY <1>1, <1>2, <2>1, <2>3, <3>1 DEF Cells
    <2> QED
      BY <1>1, <1>2, <2>2, <2>3
  <1>3. CASE r <= w
    <2>1. Backlog(r, w) = r .. w - 1 /\ RemainBuffSize(r, w) = SIZE - (w - r)
      BY <1>1, <1>3 DEF Backlog, RemainBuffSize
    <2>2. Backlog(r, w + 1) = r .. w /\ RemainBuffSize(r, w + 1) = SIZE - (w + 1 - r)
      BY <1>1, <1>3 DEF Backlog, RemainBuffSize
    <2> QED
      BY <1>1, <1>3, <2>1, <2>2 DEF Cells
  <1> QED
    BY <1>1, <1>2, <1>3

\* The wrap of the writer changes neither, unless the reader is at the start.
LEMMA WrapRing ==
  ASSUME NEW r \in Cells, r # 0
  PROVE  /\ Backlog(r, 0) = Backlog(r, SIZE)
         /\ RemainBuffSize(r, 0) = RemainBuffSize(r, SIZE)
  <1>1. r \in Int /\ SIZE \in Int /\ 0 < r /\ r < SIZE
    BY SizesAssumption DEF Cells
  <1>2. Backlog(r, 0) = (r .. SIZE - 1) \cup (0 .. 0 - 1)
        /\ RemainBuffSize(r, 0) = r
    BY <1>1 DEF Backlog, RemainBuffSize
  <1>3. Backlog(r, SIZE) = r .. SIZE - 1 /\ RemainBuffSize(r, SIZE) = r
    BY <1>1 DEF Backlog, RemainBuffSize
  <1> QED
    BY <1>1, <1>2, <1>3

\* A packet takes its characters from the backlog and makes room.
LEMMA SendRing ==
  ASSUME NEW r \in Cells, NEW w \in Cells, NEW k \in Taken(BuffSizeToRead(r, w))
  PROVE  /\ Advance(r, k) \in Cells
         /\ Backlog(Advance(r, k), w) = Backlog(r, w) \ (r .. r + k - 1)
         /\ RemainBuffSize(r, w) <= RemainBuffSize(Advance(r, k), w)
  <1>1. /\ r \in Int /\ w \in Int /\ SIZE \in Int
        /\ 0 <= r /\ 0 <= w /\ r < SIZE /\ w < SIZE
    BY SizesAssumption DEF Cells
  <1>2. BuffSizeToRead(r, w) \in Int
    BY <1>1 DEF BuffSizeToRead
  <1>3. k \in Int /\ 0 <= k /\ (k > 0 => k <= BuffSizeToRead(r, w))
    BY <1>2, TakenBounds
  <1>4. CASE r <= w
    <2>1. BuffSizeToRead(r, w) = w - r
      BY <1>1, <1>4 DEF BuffSizeToRead
    <2>2. r + k <= w
      BY <1>1, <1>3, <1>4, <2>1
    <2>3. Advance(r, k) = r + k
      BY <1>1, <1>3, <2>2 DEF Advance
    <2>4. Backlog(r, w) = r .. w - 1 /\ Backlog(r + k, w) = r + k .. w - 1
          /\ RemainBuffSize(r, w) = SIZE - (w - r)
          /\ RemainBuffSize(r + k, w) = SIZE - (w - (r + k))
      BY <1>1, <1>3, <1>4, <2>2 DEF Backlog, RemainBuffSize
    <2> QED
      BY <1>1, <1>3, <2>2, <2>3, <2>4 DEF Cells
  <1>5. CASE r > w
    <2>1. BuffSizeToRead(r, w) = SIZE - r
      BY <1>1, <1>5 DEF BuffSizeToRead
    <2>2. r + k <= SIZE
      BY <1>1, <1>3, <2>1
    <2>3. Backlog(r, w) = (r .. SIZE - 1) \cup (0 .. w - 1)
          /\ RemainBuffSize(r, w) = r - w
      BY <1>1, <1>5 DEF Backlog, RemainBuffSize
    <2>4. CASE r + k = SIZE
      <3>1. Advance(r, k) = 0
        BY <1>1, <1>3, <2>4 DEF Advance
      <3>2. Backlog(0, w) = 0 .. w - 1 /\ RemainBuffSize(0, w) = SIZE - w
        BY <1>1 DEF Backlog, RemainBuffSize
      <3> QED
        BY <1>1, <1>3, <1>5, <2>3, <2>4, <3>1, <3>2 DEF Cells
    <2>5. CASE r + k < SIZE
      <3>1. Advance(r, k) = r + k
        BY <1>1, <1>3, <2>5 DEF Advance
      <3>2. Backlog(r + k, w) = (r + k .. SIZE - 1) \cup (0 .. w - 1)
            /\ RemainBuffSize(r + k, w) = r + k - w
        BY <1>1, <1>3, <1>5 DEF Backlog, RemainBuffSize
      <3> QED
        BY <1>1, <1>3, <1>5, <2>3, <2>5, <3>1, <3>2 DEF Cells
    <2> QED
      BY <1>1, <1>3, <2>2, <2>4, <2>5
  <1> QED
    BY <1>1, <1>4, <1>5

-----------------------------------------------------------------------------
(* Every step keeps the ring.                                              *)

\* What a stored character leaves alone, and what it does to the ghosts.
LEMMA StoredGhosts ==
  ASSUME TypeOK, NEW t \in Tasks, NEW i \in Cells, Stored(t, i)
  PROVE  /\ fresh' = fresh \cup {i}
         /\ loc'[t].remain = loc[t].remain /\ loc'[t].marked = loc[t].marked
         /\ i \notin fresh => loc'[t].over = loc[t].over
  BY DEF Stored, TypeOK, Locals

\* A character more, in either order of the store and the pointer.
LEMMA StoreKeepsCall ==
  ASSUME MAXLEN < MAXRX, TypeOK, TypeOK', LeftInv, NEW t \in Tasks,
         pRead \in Cells, At(t) \in Cells,
         Stored(t, At(t)), At(t)' = At(t) + 1,
         pRead' = pRead, lowMem' = lowMem, loc[t].left > 0,
         pc[t] \in {"write", "late"}, pc'[t] = "write",
         IF Tight(t) THEN TightInv(t) ELSE AmpleInv(t)
  PROVE  IF Tight(t)' THEN TightInv(t)' ELSE AmpleInv(t)'
  <1> DEFINE a == At(t)
             L == loc[t]
  <1>1. /\ loc'[t].left = L.left - 1 /\ loc'[t].len = L.len
        /\ loc'[t].remain = L.remain /\ loc'[t].marked = L.marked
        /\ (a \notin fresh => loc'[t].over = L.over)
        /\ fresh' = fresh \cup {a} /\ fresh' \subseteq Cells
    BY StoredType, StoredGhosts
  <1>2. /\ L.len \in Int /\ L.left \in Int /\ L.remain \in Int
        /\ 0 < L.left /\ L.left <= L.len /\ L.len < SIZE /\ 0 <= L.remain
        /\ SIZE \in Int /\ MAXRX \in Int
    BY LocalTypes DEF LeftInv
  <1>3. Room(t) = RemainBuffSize(pRead, a) /\ Room(t)' = RemainBuffSize(pRead, a + 1)
        /\ Tight(t)' = Tight(t)
    BY <1>1 DEF Room, Tight
  <1>4. Room(t) \in Int /\ 0 < Room(t) /\ Room(t) <= SIZE
    BY <1>3, RingRoom
  <1>5. Used(t)' = Used(t) + 1 /\ Used(t) \in Int /\ Used(t) + 1 < SIZE + SIZE
        /\ Used(t) = SIZE - L.remain + (L.len - L.left)
    BY <1>1, <1>2 DEF Used
  <1>6. /\ a \notin Backlog(pRead, a)
        /\ Room(t) > 1 => /\ Backlog(pRead, a + 1) = Backlog(pRead, a) \cup {a}
                          /\ Room(t)' = Room(t) - 1
        /\ Room(t) = 1 => /\ Backlog(pRead, a) \cup {a} = Cells
                          /\ \/ a + 1 = pRead /\ Room(t)' = SIZE
                             \/ a + 1 = SIZE /\ pRead = 0
    BY <1>3, FillCell
  <1>7. a < SIZE
    BY <1>2 DEF Cells
  <1>8. At(t)' = a + 1
    OBVIOUS
  <1> HIDE DEF a, L
  <1>9. CASE Tight(t)
    <2>1. TightInv(t)
      BY <1>9
    <2>2. lowMem' /\ L.remain <= SIZE
      BY <2>1 DEF TightInv, L
    <2>3. CASE Used(t) < SIZE
      <3>1. fresh = Backlog(pRead, a) /\ Room(t) = SIZE - Used(t) /\ ~L.over
        BY <2>1, <2>3 DEF TightInv, a, L
      <3>2. CASE Room(t) > 1
        <4>1. Used(t)' < SIZE /\ Room(t)' = SIZE - Used(t)'
          BY <1>2, <1>4, <1>5, <1>6, <3>1, <3>2
        <4>2. fresh' = Backlog(pRead', At(t)') /\ ~loc'[t].over
          BY <1>1, <1>6, <1>8, <3>1, <3>2
        <4>3. ~(Used(t)' >= SIZE)
          BY <1>2, <1>5, <4>1
        <4> QED
          BY <1>1, <1>3, <1>9, <2>2, <4>1, <4>2, <4>3 DEF TightInv
      <3>3. CASE Room(t) = 1
        <4>1. Used(t)' = SIZE /\ ~(Used(t)' < SIZE)
          BY <1>2, <1>5, <3>1, <3>3
        <4>2. fresh' = Cells
          BY <1>1, <1>6, <3>1, <3>3
        <4>3. \/ Room(t)' = 2 * SIZE - Used(t)'
              \/ At(t)' = SIZE /\ pRead' = 0
          BY <1>2, <1>6, <1>8, <3>3, <4>1
        <4> QED
          BY <1>1, <1>3, <1>9, <2>2, <4>1, <4>2, <4>3 DEF TightInv
      <3> QED
        BY <1>4, <3>2, <3>3
    <2>4. CASE Used(t) >= SIZE
      <3>1. fresh = Cells /\ Room(t) = 2 * SIZE - Used(t)
        BY <1>2, <1>7, <2>1, <2>4 DEF TightInv, a
      <3>2. Room(t) > 1
        BY <1>2, <1>4, <1>5, <3>1
      <3>3. Room(t)' = 2 * SIZE - Used(t)' /\ ~(Used(t)' < SIZE)
        BY <1>2, <1>4, <1>5, <1>6, <2>4, <3>1, <3>2
      <3>4. fresh' = Cells
        BY <1>1, <3>1
      <3> QED
        BY <1>1, <1>3, <1>9, <2>2, <3>3, <3>4 DEF TightInv
    <2> QED
      BY <1>2, <1>5, <2>3, <2>4
  <1>10. CASE ~Tight(t)
    <2>1. /\ ~lowMem /\ fresh = Backlog(pRead, a)
          /\ Room(t) > L.left /\ ~L.over
      BY <1>10 DEF AmpleInv, a, L
    <2>2. Room(t)' = Room(t) - 1 /\ fresh' = Backlog(pRead', At(t)') /\ ~loc'[t].over
      BY <1>1, <1>2, <1>4, <1>6, <1>8, <2>1
    <2>3. Room(t)' > loc'[t].left
      BY <1>1, <1>2, <1>4, <2>1, <2>2
    <2> QED
      BY <1>3, <1>10, <2>1, <2>2, <2>3 DEF AmpleInv
  <1> QED
    BY <1>9, <1>10

\* The writer goes back to the start.
LEMMA WrapKeepsCall ==
  ASSUME MAXLEN < MAXRX, TypeOK, LeftInv, NEW t \in Tasks, pRead \in Cells, Wrap(t),
         IF Tight(t) THEN TightInv(t) ELSE AmpleInv(t)
  PROVE  IF Tight(t)' THEN TightInv(t)' ELSE AmpleInv(t)'
  <1>1. /\ pc[t] = "write" /\ pWrite = SIZE /\ pWrite' = 0 /\ pc' = pc /\ loc' = loc
        /\ pRead' = pRead /\ fresh' = fresh /\ lowMem' = lowMem
    BY DEF Wrap
  <1>2. At(t) = SIZE /\ At(t)' = 0
    BY <1>1 DEF At
  <1>3. Used(t)' = Used(t) /\ Tight(t)' = Tight(t)
    BY <1>1 DEF Used, Tight
  <1>4. /\ loc[t].len \in Int /\ loc[t].left \in Int /\ loc[t].remain \in Int
        /\ 0 <= loc[t].left /\ loc[t].left <= loc[t].len /\ loc[t].len < SIZE
        /\ 0 <= loc[t].remain /\ SIZE \in Int /\ 0 < SIZE
    BY LocalTypes, SizesAssumption DEF LeftInv
  <1>5. Used(t) \in Int /\ Used(t) < SIZE + SIZE
    BY <1>4 DEF Used
  <1>6. Room(t) = RemainBuffSize(pRead, SIZE) /\ Room(t)' = RemainBuffSize(pRead, 0)
    BY <1>1, <1>2 DEF Room
  <1>7. RemainBuffSize(0, SIZE) = 0 /\ RemainBuffSize(0, 0) = SIZE
    BY <1>4 DEF RemainBuffSize
  <1>8. pRead # 0 => Backlog(pRead, 0) = Backlog(pRead, SIZE) /\ Room(t)' = Room(t)
    BY <1>6, WrapRing
  <1>9. CASE Tight(t)
    <2>1. TightInv(t)
      BY <1>9
    <2>2. CASE Used(t) < SIZE
      <3>1. pRead # 0
        BY <1>4, <1>5, <1>6, <1>7, <2>1, <2>2 DEF TightInv
      <3>2. ~(Used(t) >= SIZE)
        BY <1>4, <1>5, <2>2
      <3> QED
        BY <1>1, <1>2, <1>3, <1>8, <1>9, <2>1, <2>2, <3>1, <3>2 DEF TightInv
    <2>3. CASE Used(t) >= SIZE
      <3>1. ~(Used(t) < SIZE) /\ fresh = Cells
        BY <1>4, <1>5, <2>1, <2>3 DEF TightInv
      <3>2. Room(t)' = 2 * SIZE - Used(t)
        <4>1. CASE pRead = 0
          <5>1. Used(t) = SIZE
            BY <1>4, <1>5, <1>6, <1>7, <2>1, <2>3, <4>1 DEF TightInv
          <5> QED
            BY <1>4, <1>6, <1>7, <4>1, <5>1
        <4>2. CASE pRead # 0
          BY <1>8, <2>1, <2>3, <4>2 DEF TightInv
        <4> QED
          BY <4>1, <4>2
      <3> QED
        BY <1>1, <1>3, <1>9, <2>1, <3>1, <3>2 DEF TightInv
    <2> QED
      BY <1>4, <1>5, <2>2, <2>3
  <1>10. CASE ~Tight(t)
    <2>1. pRead # 0
      BY <1>4, <1>6, <1>7, <1>10 DEF AmpleInv
    <2> QED
      BY <1>1, <1>2, <1>3, <1>8, <1>10, <2>1 DEF AmpleInv
  <1> QED
    BY <1>9, <1>10

\* A hazard is never forgotten, and a reader is past pTail only after one.
LEMMA HazardStays ==
  ASSUME [Next]_vars, hazard' = {}
  PROVE  hazard = {}
  <1>1. hazard \subseteq hazard'
    BY DEF Next, Step, vars, Printf, Capture, Measure, Flag, SetLow, Test,
           Boost, StoreChar, BumpPointer, StoreLate, Wrap, EndOfText, Check, Compare,
           Mark, Reset, Count, Flush, SetUrgent, Hurry, Release, SendPacketFromInt,
           SetDestination, SwitchOff, StopTimer, SwitchOn, SlowTimer, Upload
  <1> QED
    BY <1>1

\* A step that neither touches the ring nor enters or leaves a copy, nor
\* IsLowMemory while a copy depends on it.
LEMMA AwayKeepsRing ==
  ASSUME TypeOK, RingInv, hazard = {}, NEW t \in Tasks, NEW l \in Labels, Goto(t, l),
         ~Copying(t), l \notin {"flag", "setlow", "test", "boost", "write", "late", "check",
                                "compare", "mark", "reset"},
         pRead' = pRead, pWrite' = pWrite, fresh' = fresh,
         lowMem' = lowMem \/ \A s \in Tasks : pc[s] \notin LowNeeded,
         \A s \in Tasks \ {t} : loc'[s] = loc[s] /\ (mutex = s => mutex' = s),
         l = "measure" => ~loc'[t].over,
         mutex' # t => ~loc'[t].over,
         l \in Ended /\ loc'[t].over => loc'[t].marked
  PROVE  RingInv'
  <1>1. pc'[t] = l /\ \A s \in Tasks \ {t} : pc'[s] = pc[s]
    BY DEF Goto, TypeOK
  <1>2. ~Copying(t)' /\ \A s \in Tasks \ {t} : Copying(s)' <=> Copying(s)
    BY <1>1 DEF Copying
  <1>3. ASSUME NEW s \in Tasks PROVE CallInv(s)'
    <2>1. CASE s = t
      BY <1>1, <1>2, <2>1 DEF CallInv
    <2>2. CASE s # t
      BY <1>1, <1>2, <2>2
      DEF RingInv, CallInv, Tight, TightInv, AmpleInv, Room, At, Used, LowNeeded
    <2> QED
      BY <2>1, <2>2
  <1> QED
    BY <1>2, <1>3 DEF RingInv

\* A step of the owner of the mutex: the other calls are not under way.
LEMMA OwnerKeepsRing ==
  ASSUME IInv, RingInv, hazard = {}, NEW t \in Tasks, pc[t] \notin Outside,
         NEW l \in Labels, pc' = [pc EXCEPT ![t] = l], mutex' = mutex,
         \A s \in Tasks \ {t} : loc'[s] = loc[s],
         pRead' < SIZE, CallInv(t)',
         ~Copying(t)' => fresh' = Backlog(pRead', pWrite')
  PROVE  RingInv'
  <1>1. ASSUME NEW s \in Tasks \ {t} PROVE CallInv(s)' /\ ~Copying(s)'
    <2>1. pc[s] \in Outside
      BY OthersOut
    <2>2. pc'[s] = pc[s]
      BY DEF IInv, TypeOK
    <2> QED
      BY <2>1, <2>2 DEF RingInv, CallInv, Copying, Outside
  <1> QED
    BY <1>1 DEF RingInv

\* The steps of a call that do not touch the ring, while it is under way.
LEMMA ControlKeepsCall ==
  ASSUME TypeOK, NEW t \in Tasks, NEW l \in Labels, Goto(t, l),
         pc[t] # "late", l # "late",
         loc'[t].len = loc[t].len, loc'[t].left = loc[t].left,
         loc'[t].remain = loc[t].remain, pRead' = pRead, pWrite' = pWrite, fresh' = fresh
  PROVE  /\ At(t)' = pWrite /\ At(t) = pWrite /\ Room(t)' = Room(t)
         /\ Used(t)' = Used(t) /\ Tight(t)' = Tight(t)
         /\ pc'[t] = l /\ pc' = [pc EXCEPT ![t] = l]
  <1>1. pc'[t] = l
    BY DEF Goto, TypeOK
  <1>2. At(t)' = pWrite /\ At(t) = pWrite
    BY <1>1 DEF At
  <1> QED
    BY <1>1, <1>2 DEF Room, Used, Tight, Goto

\* What a copy finds when it measures the ring.
LEMMA MeasureKeepsRing ==
  ASSUME MAXLEN < MAXRX, IInv, RoomInv, RingInv, hazard = {}, NEW t \in Tasks, Measure(t)
  PROVE  RingInv'
  <1> DEFINE room == RemainBuffSize(pRead, pWrite)
  <1>1. /\ pc[t] = "measure" /\ Goto(t, "flag") /\ pRead' = pRead /\ pWrite' = pWrite
        /\ fresh' = fresh /\ mutex' = mutex /\ pc[t] \notin Outside
    BY DEF Measure, Outside
  <1>2. TypeOK /\ LeftInv /\ pWrite # SIZE
    BY <1>1, ConfigAssumption DEF IInv, MutexInv, Outside, RoomInv
  <1>3. pRead \in Cells /\ pWrite \in Cells
    BY <1>2, SizesAssumption DEF RingInv, TypeOK, Cells
  <1>4. \A s \in Tasks : ~Copying(s)
    BY <1>1, OthersOut DEF Outside, Copying
  <1>5. fresh = Backlog(pRead, pWrite) /\ ~loc[t].over
    BY <1>1, <1>4 DEF RingInv, CallInv
  <1>6. /\ loc'[t].left = loc[t].left /\ loc'[t].len = loc[t].len
        /\ loc'[t].left = loc'[t].len
        /\ loc'[t].remain = room /\ loc'[t].over = loc[t].over
        /\ \A s \in Tasks \ {t} : loc'[s] = loc[s]
    BY <1>1, <1>2 DEF Measure, TypeOK, Locals, LeftInv
  <1>7. pc' = [pc EXCEPT ![t] = "flag"] /\ pc'[t] = "flag"
    BY <1>1, <1>2 DEF Goto, TypeOK
  <1>8. At(t)' = pWrite /\ Room(t)' = room
    BY <1>1, <1>7 DEF At, Room
  <1>9. room \in Int /\ 0 < room /\ room <= SIZE
    BY <1>3, RingRoom
  <1>10. /\ loc[t].len \in Int /\ 0 <= loc[t].len /\ loc[t].len <= MAXLEN
         /\ MAXLEN \in Int /\ MAXRX \in Int /\ SIZE \in Int
    BY <1>2, LocalTypes
  <1>11. Tight(t)' <=> MAXRX > room
    BY <1>6 DEF Tight
  <1> HIDE DEF room
  <1>12. Used(t)' = SIZE - room
    BY <1>6, <1>9, <1>10 DEF Used
  <1>13. CASE MAXRX > room
    <2>1. Used(t)' < SIZE /\ ~(Used(t)' >= SIZE) /\ room = SIZE - Used(t)'
      BY <1>9, <1>10, <1>12
    <2>2. TightInv(t)'
      BY <1>1, <1>5, <1>6, <1>7, <1>8, <1>9, <2>1 DEF TightInv
    <2>3. CallInv(t)' /\ Copying(t)'
      BY <1>5, <1>6, <1>7, <1>11, <1>13, <2>2 DEF CallInv, Copying, Ended
    <2> QED
      BY <1>1, <1>6, <1>7, <2>3, OwnerKeepsRing DEF RingInv, Labels
  <1>14. CASE ~(MAXRX > room)
    <2>1. room > loc'[t].left
      BY <1>6, <1>9, <1>10, <1>14
    <2>2. AmpleInv(t)'
      BY <1>1, <1>5, <1>6, <1>7, <1>8, <2>1 DEF AmpleInv
    <2>3. CallInv(t)' /\ Copying(t)'
      BY <1>5, <1>6, <1>7, <1>11, <1>14, <2>2 DEF CallInv, Copying, Ended
    <2> QED
      BY <1>1, <1>6, <1>7, <2>3, OwnerKeepsRing DEF RingInv, Labels
  <1> QED
    BY <1>13, <1>14

\* The flag, the timer, and the end of the text.
LEMMA FlagKeepsRing ==
  ASSUME IInv, RingInv, hazard = {}, NEW t \in Tasks,
         Flag(t) \/ SetLow(t) \/ Test(t) \/ Boost(t) \/ EndOfText(t)
  PROVE  RingInv'
  <1>1. PICK l \in {"setlow", "test", "boost", "write", "check"} :
          /\ Goto(t, l)
          /\ pc[t] \in {"flag", "setlow", "test", "boost", "write"}
          /\ pc[t] = "flag" => l = "setlow"
          /\ pc[t] = "setlow" => l = "test" /\ lowMem' = Tight(t)
          /\ pc[t] = "test" => l = (IF lowMem THEN "boost" ELSE "write") /\ lowMem' = lowMem
          /\ pc[t] = "boost" => l = "write" /\ lowMem' = lowMem
          /\ pc[t] = "write" => l = "check" /\ lowMem' = lowMem /\ loc[t].left = 0
    BY DEF Flag, SetLow, Test, Boost, EndOfText, Tight
  <1>2. /\ TypeOK /\ pRead < SIZE /\ CallInv(t) /\ Copying(t) /\ pc[t] \notin Outside
        /\ l \in Labels /\ pc[t] # "late" /\ l # "late"
    BY <1>1 DEF IInv, RingInv, Copying, Outside, Labels
  <1>3. pRead' = pRead /\ pWrite' = pWrite /\ fresh' = fresh /\ mutex' = mutex
    BY DEF Flag, SetLow, Test, Boost, EndOfText
  <1>4. \/ loc' = loc
        \/ \E b : loc' = [loc EXCEPT ![t].byte = b]
    BY DEF Flag, SetLow, Test, Boost, EndOfText
  <1>5. /\ loc'[t].len = loc[t].len /\ loc'[t].left = loc[t].left
        /\ loc'[t].remain = loc[t].remain /\ loc'[t].over = loc[t].over
        /\ loc'[t].marked = loc[t].marked
        /\ \A s \in Tasks \ {t} : loc'[s] = loc[s]
    BY <1>2, <1>4 DEF TypeOK, Locals
  <1>6. /\ At(t)' = At(t) /\ Room(t)' = Room(t)
        /\ Used(t)' = Used(t) /\ Tight(t)' = Tight(t)
        /\ pc'[t] = l /\ pc' = [pc EXCEPT ![t] = l]
    BY <1>1, <1>2, <1>3, <1>5, ControlKeepsCall
  <1>7. Copying(t)' /\ pc'[t] \notin Ended /\ pc'[t] # "measure"
    BY <1>1, <1>6 DEF Copying, Ended
  <1>8. mutex' # t => ~loc'[t].over
    BY <1>2, <1>3, <1>5 DEF CallInv
  <1>9. CASE Tight(t)
    <2>1. TightInv(t)
      BY <1>2, <1>9 DEF CallInv
    <2>2. TightInv(t)'
      BY <1>1, <1>3, <1>5, <1>6, <1>9, <2>1 DEF TightInv
    <2>3. CallInv(t)'
      BY <1>6, <1>7, <1>8, <1>9, <2>2 DEF CallInv
    <2> QED
      BY <1>2, <1>3, <1>5, <1>6, <1>7, <2>3, OwnerKeepsRing
  <1>10. CASE ~Tight(t)
    <2>1. AmpleInv(t)
      BY <1>2, <1>10 DEF CallInv
    <2>2. AmpleInv(t)'
      BY <1>1, <1>3, <1>5, <1>6, <1>10, <2>1 DEF AmpleInv
    <2>3. CallInv(t)'
      BY <1>6, <1>7, <1>8, <1>10, <2>2 DEF CallInv
    <2> QED
      BY <1>2, <1>3, <1>5, <1>6, <1>7, <2>3, OwnerKeepsRing
  <1> QED
    BY <1>9, <1>10

\* The copy.
LEMMA CopyKeepsRing ==
  ASSUME MAXLEN < MAXRX, IInv, IInv', RingInv, hazard = {}, NEW t \in Tasks,
         StoreChar(t) \/ BumpPointer(t) \/ StoreLate(t) \/ Wrap(t)
  PROVE  RingInv'
  <1>1. /\ pc[t] \in {"write", "late"} /\ pRead' = pRead /\ lowMem' = lowMem
        /\ mutex' = mutex /\ pc[t] \notin Outside
    BY DEF StoreChar, BumpPointer, StoreLate, Wrap, CanStore, Outside
  <1>2. TypeOK /\ TypeOK' /\ LeftInv /\ LateInv
    BY DEF IInv
  <1>3. pRead < SIZE /\ pRead \in Cells
    BY <1>2, SizesAssumption DEF RingInv, TypeOK, Cells
  <1>4. CallInv(t) /\ Copying(t)
    BY <1>1 DEF RingInv, Copying
  <1>5. IF Tight(t) THEN TightInv(t) ELSE AmpleInv(t)
    BY <1>4 DEF CallInv
  <1>6. ASSUME NEW l \in {"write", "late"}, pc' = [pc EXCEPT ![t] = l],
               IF Tight(t)' THEN TightInv(t)' ELSE AmpleInv(t)'
        PROVE  RingInv'
    <2>1. pc'[t] = l /\ Copying(t)'
      BY <1>2, <1>6 DEF TypeOK, Copying
    <2>2. mutex' = t
      BY <1>1 DEF IInv, MutexInv
    <2>3. CallInv(t)'
      BY <1>6, <2>1, <2>2 DEF CallInv, Ended
    <2>4. \A s \in Tasks \ {t} : loc'[s] = loc[s]
      BY <1>2 DEF StoreChar, BumpPointer, StoreLate, Wrap, Stored, TypeOK
    <2> QED
      BY <1>1, <1>3, <1>6, <2>1, <2>3, <2>4, OwnerKeepsRing DEF Labels
  <1>7. CASE StoreChar(t)
    <2>1. pc' = pc /\ pc[t] = "write" /\ loc[t].left > 0
          /\ pWrite' = pWrite + 1 /\ Stored(t, pWrite)
      BY <1>7 DEF StoreChar, CanStore
    <2>2. At(t) = pWrite /\ At(t)' = pWrite + 1
      BY <2>1 DEF At
    <2>3. pWrite \in Cells
      BY <1>2, <1>7, SizesAssumption DEF StoreChar, CanStore, TypeOK, Cells
    <2>4. IF Tight(t)' THEN TightInv(t)' ELSE AmpleInv(t)'
      BY <1>1, <1>2, <1>3, <1>5, <2>1, <2>2, <2>3, StoreKeepsCall
    <2>5. pc' = [pc EXCEPT ![t] = "write"]
      BY <1>2, <2>1 DEF TypeOK
    <2> QED
      BY <1>6, <2>4, <2>5
  <1>8. CASE StoreLate(t)
    <2>1. /\ pc' = [pc EXCEPT ![t] = "write"] /\ pc[t] = "late" /\ pWrite' = pWrite
          /\ Stored(t, pWrite - 1) /\ loc[t].left > 0 /\ pWrite > 0
      BY <1>2, <1>8 DEF StoreLate, Goto, LateInv
    <2>2. pc'[t] = "write" /\ pWrite \in Int
      BY <1>2, <2>1, SizesAssumption DEF TypeOK
    <2>3. At(t) = pWrite - 1 /\ At(t)' = At(t) + 1
      BY <2>1, <2>2 DEF At
    <2>4. At(t) \in Cells
      BY <1>2, <2>1, <2>3, SizesAssumption DEF TypeOK, Cells
    <2>5. IF Tight(t)' THEN TightInv(t)' ELSE AmpleInv(t)'
      BY <1>1, <1>2, <1>3, <1>5, <2>1, <2>2, <2>3, <2>4, StoreKeepsCall
    <2> QED
      BY <1>6, <2>1, <2>5
  <1>9. CASE BumpPointer(t)
    <2>1. /\ pc' = [pc EXCEPT ![t] = "late"] /\ pc[t] = "write" /\ pWrite' = pWrite + 1
          /\ loc' = loc /\ fresh' = fresh /\ pWrite \in Int
      BY <1>2, <1>9, SizesAssumption DEF BumpPointer, CanStore, Goto, TypeOK
    <2>2. pc'[t] = "late"
      BY <1>2, <2>1 DEF TypeOK
    <2>3. At(t)' = At(t)
      BY <2>1, <2>2 DEF At
    <2>4. Room(t)' = Room(t) /\ Used(t)' = Used(t) /\ Tight(t)' = Tight(t)
      BY <1>1, <2>1, <2>3 DEF Room, Used, Tight
    <2>5. CASE Tight(t)
      BY <1>1, <1>5, <1>6, <2>1, <2>2, <2>3, <2>4, <2>5 DEF TightInv
    <2>6. CASE ~Tight(t)
      BY <1>1, <1>5, <1>6, <2>1, <2>2, <2>3, <2>4, <2>6 DEF AmpleInv
    <2> QED
      BY <2>5, <2>6
  <1>10. CASE Wrap(t)
    <2>1. pc' = [pc EXCEPT ![t] = "write"]
      BY <1>2, <1>10 DEF Wrap, TypeOK
    <2>2. IF Tight(t)' THEN TightInv(t)' ELSE AmpleInv(t)'
      BY <1>2, <1>3, <1>5, <1>10, WrapKeepsCall
    <2> QED
      BY <1>6, <2>1, <2>2
  <1> QED
    BY <1>7, <1>8, <1>9, <1>10

\* The overrun test finds an overrun exactly when there was one: the room that
\* the message left, or as much more as the ring has cells.
LEMMA TestKeepsRing ==
  ASSUME MAXLEN < MAXRX, IInv, RoomInv, RingInv, hazard = {}, hazard' = {},
         NEW t \in Tasks, Check(t) \/ Compare(t) \/ Mark(t) \/ Reset(t)
  PROVE  RingInv'
  <1>1. /\ pc[t] \in {"check", "compare", "mark", "reset"} /\ pc[t] \notin Outside
        /\ pWrite' = pWrite /\ lowMem' = lowMem /\ mutex' = mutex
    BY DEF Check, Compare, Mark, Reset, Outside
  <1>14. mutex' = t
    BY <1>1 DEF IInv, MutexInv
  <1>2. TypeOK /\ pRead < SIZE /\ CallInv(t) /\ Copying(t) /\ At(t) = pWrite
    BY <1>1 DEF IInv, RingInv, Copying, At
  <1>15. \A s \in Tasks \ {t} : loc'[s] = loc[s]
    BY <1>2 DEF Check, Compare, Mark, Reset, TypeOK
  <1>3. pWrite # SIZE
    BY <1>1, ConfigAssumption DEF IInv, MutexInv, Outside, RoomInv
  <1>4. pRead \in Cells /\ pWrite \in Cells
    BY <1>2, <1>3, SizesAssumption DEF TypeOK, Cells
  <1>5. IF Tight(t) THEN TightInv(t) ELSE AmpleInv(t)
    BY <1>2 DEF CallInv
  <1>6. /\ loc[t].len \in Int /\ loc[t].remain \in Int /\ 0 <= loc[t].len
        /\ loc[t].len < SIZE /\ 0 <= loc[t].remain /\ SIZE \in Int
    BY <1>2, LocalTypes
  <1>7. Tight(t) => Used(t) = SIZE - loc[t].remain + loc[t].len
    BY <1>1, <1>5, <1>6 DEF TightInv, Used
  <1>8. Used(t) < SIZE \/ Used(t) >= SIZE
    <2>1. Used(t) \in Int
      BY <1>2, LocalTypes DEF Used
    <2> QED
      BY <1>6, <2>1
  <1>9. CASE Check(t)
    <2>1. /\ pc[t] = "check" /\ loc' = loc /\ pRead' = pRead /\ fresh' = fresh
          /\ Goto(t, IF lowMem THEN "compare" ELSE "count")
      BY <1>9 DEF Check
    <2>2. CASE Tight(t)
      <3>1. TightInv(t) /\ lowMem
        BY <1>5, <2>1, <2>2 DEF TightInv
      <3>2. Goto(t, "compare")
        BY <2>1, <3>1
      <3>3. /\ At(t)' = At(t) /\ Room(t)' = Room(t) /\ Used(t)' = Used(t)
            /\ Tight(t)' = Tight(t) /\ pc'[t] = "compare"
            /\ pc' = [pc EXCEPT ![t] = "compare"]
        BY <1>1, <1>2, <2>1, <3>2, ControlKeepsCall DEF Labels
      <3>4. TightInv(t)'
        BY <1>1, <2>1, <3>1, <3>3 DEF TightInv
      <3>5. CallInv(t)' /\ Copying(t)'
        BY <1>14, <2>2, <3>3, <3>4 DEF CallInv, Copying, Ended
      <3> QED
        BY <1>1, <1>2, <2>1, <3>3, <3>5, <1>15, OwnerKeepsRing DEF Labels
    <2>3. CASE ~Tight(t)
      <3>1. ~lowMem /\ fresh = Backlog(pRead, pWrite) /\ ~loc[t].over
        BY <1>2, <1>5, <2>1, <2>3 DEF AmpleInv
      <3>2. pc' = [pc EXCEPT ![t] = "count"] /\ pc'[t] = "count"
        BY <1>2, <2>1, <3>1 DEF Goto, TypeOK
      <3>3. CallInv(t)'
        BY <1>14, <2>1, <3>1, <3>2 DEF CallInv, Copying, Ended
      <3> QED
        BY <1>1, <1>2, <2>1, <3>1, <3>2, <3>3, <1>15, OwnerKeepsRing DEF Labels
    <2> QED
      BY <2>2, <2>3
  <1>10. Tight(t) \/ pc[t] = "check"
    BY <1>1, <1>5 DEF AmpleInv
  <1>11. CASE Compare(t)
    <2>1. /\ pc[t] = "compare" /\ loc' = loc /\ pRead' = pRead /\ fresh' = fresh
          /\ Goto(t, IF Room(t) > loc[t].remain THEN "mark" ELSE "count")
      BY <1>2, <1>11 DEF Compare, Room
    <2>2. Tight(t) /\ TightInv(t)
      BY <1>5, <1>10, <2>1
    <2>3. CASE Used(t) < SIZE
      <3>1. /\ fresh = Backlog(pRead, pWrite) /\ ~loc[t].over
            /\ ~(Room(t) > loc[t].remain)
        BY <1>2, <1>6, <1>7, <2>2, <2>3 DEF TightInv
      <3>2. pc' = [pc EXCEPT ![t] = "count"] /\ pc'[t] = "count"
        BY <1>2, <2>1, <3>1 DEF Goto, TypeOK
      <3>3. CallInv(t)'
        BY <1>14, <2>1, <3>1, <3>2 DEF CallInv, Copying, Ended
      <3> QED
        BY <1>1, <1>2, <2>1, <3>1, <3>2, <3>3, <1>15, OwnerKeepsRing DEF Labels
    <2>4. CASE Used(t) >= SIZE
      <3>1. Room(t) > loc[t].remain
        BY <1>2, <1>3, <1>6, <1>7, <2>2, <2>4 DEF TightInv
      <3>2. Goto(t, "mark")
        BY <2>1, <3>1
      <3>3. /\ At(t)' = At(t) /\ Room(t)' = Room(t) /\ Used(t)' = Used(t)
            /\ Tight(t)' = Tight(t) /\ pc'[t] = "mark"
            /\ pc' = [pc EXCEPT ![t] = "mark"]
        BY <1>1, <1>2, <2>1, <3>2, ControlKeepsCall DEF Labels
      <3>4. ~(Used(t) < SIZE)
        BY <1>6, <1>7, <2>2, <2>4
      <3>5. TightInv(t)'
        BY <1>1, <2>1, <2>2, <3>3, <3>4 DEF TightInv
      <3>6. CallInv(t)' /\ Copying(t)'
        BY <1>14, <2>2, <3>3, <3>5 DEF CallInv, Copying, Ended
      <3> QED
        BY <1>1, <1>2, <2>1, <3>3, <3>6, <1>15, OwnerKeepsRing DEF Labels
    <2> QED
      BY <1>8, <2>3, <2>4
  <1>12. CASE Mark(t)
    <2>1. /\ pc[t] = "mark" /\ pRead' = pRead /\ Goto(t, "reset")
          /\ fresh' = fresh \cup ({pRead} \cap Cells)
      BY <1>12 DEF Mark
    <2>2. Tight(t) /\ TightInv(t)
      BY <1>5, <1>10, <2>1
    <2>3. ~(Used(t) < SIZE) /\ Used(t) >= SIZE /\ fresh = Cells
      BY <1>8, <2>1, <2>2 DEF TightInv
    <2>4. /\ loc'[t].len = loc[t].len /\ loc'[t].left = loc[t].left
          /\ loc'[t].remain = loc[t].remain /\ loc'[t].marked = TRUE
      BY <1>2, <1>12 DEF Mark, TypeOK, Locals
    <2>5. pc' = [pc EXCEPT ![t] = "reset"] /\ pc'[t] = "reset"
      BY <1>2, <2>1 DEF Goto, TypeOK
    <2>6. At(t)' = At(t) /\ fresh' = Cells
      BY <1>1, <1>2, <2>1, <2>3, <2>5 DEF At
    <2>7. Room(t)' = Room(t) /\ Used(t)' = Used(t) /\ Tight(t)' = Tight(t)
      BY <2>1, <2>4, <2>6 DEF Room, Used, Tight
    <2>8. TightInv(t)'
      BY <1>1, <2>1, <2>2, <2>3, <2>4, <2>5, <2>6, <2>7 DEF TightInv
    <2>9. CallInv(t)' /\ Copying(t)'
      BY <1>14, <2>2, <2>5, <2>7, <2>8 DEF CallInv, Copying, Ended
    <2> QED
      BY <1>1, <1>2, <2>1, <2>5, <2>9, <1>15, OwnerKeepsRing DEF Labels
  <1>13. CASE Reset(t)
    <2>1. /\ pc[t] = "reset" /\ pRead' = pWrite + 1 /\ Goto(t, "count") /\ loc' = loc
          /\ fresh' = fresh \ {pWrite}
      BY <1>13 DEF Reset
    <2>2. Tight(t) /\ TightInv(t)
      BY <1>5, <1>10, <2>1
    <2>3. fresh = Cells /\ loc[t].marked
      BY <1>8, <2>1, <2>2 DEF TightInv
    <2>4. pWrite + 1 < SIZE
      <3>1. ~(pWrite + 1 >= SIZE)
        BY <1>13 DEF Reset
      <3>2. pWrite \in Int /\ SIZE \in Int
        BY <1>4, <1>6 DEF Cells
      <3> QED
        BY <3>1, <3>2
    <2>5. fresh' = Backlog(pRead', pWrite')
      <3>1. pWrite \in Int /\ 0 <= pWrite /\ SIZE \in Int
        BY <1>4, <1>6 DEF Cells
      <3>2. Backlog(pWrite + 1, pWrite) = (pWrite + 1 .. SIZE - 1) \cup (0 .. pWrite - 1)
        BY <3>1 DEF Backlog
      <3>3. Cells \ {pWrite} = (pWrite + 1 .. SIZE - 1) \cup (0 .. pWrite - 1)
        BY <2>4, <3>1 DEF Cells
      <3> QED
        BY <1>1, <2>1, <2>3, <3>2, <3>3
    <2>6. pc' = [pc EXCEPT ![t] = "count"] /\ pc'[t] = "count"
      BY <1>2, <2>1 DEF Goto, TypeOK
    <2>7. CallInv(t)'
      BY <1>14, <2>1, <2>3, <2>6 DEF CallInv, Copying, Ended
    <2> QED
      BY <1>1, <2>1, <2>4, <2>5, <2>6, <2>7, <1>15, OwnerKeepsRing DEF Labels
  <1> QED
    BY <1>9, <1>11, <1>12, <1>13

\* An interrupt that met no half-done task sends from the backlog what it takes
\* off the ghost, and a message that had room has more.
LEMMA InterruptKeepsRing ==
  ASSUME IInv, RingInv, hazard = {}, hazard' = {}, SendPacketFromInt
  PROVE  RingInv'
  <1>1. TypeOK /\ pc' = pc /\ loc' = loc /\ pWrite' = pWrite /\ ~lowMem' /\ mutex' = mutex
    BY DEF IInv, SendPacketFromInt
  <1>2. Unprotected = {}
    BY DEF SendPacketFromInt
  <1>3. pWrite # SIZE /\ \A t \in Tasks : pc[t] # "late" /\ ~LowBusy(t)
    BY <1>2 DEF Unprotected
  <1>4. pRead \in Cells /\ pWrite \in Cells
    BY <1>1, <1>3, SizesAssumption DEF RingInv, TypeOK, Cells
  <1>5. ASSUME NEW t \in Tasks, Copying(t)
        PROVE  ~Tight(t) /\ AmpleInv(t) /\ At(t) = pWrite /\ At(t)' = pWrite
    BY <1>1, <1>3, <1>5 DEF LowBusy, Copying, Tight, RingInv, CallInv, At
  <1>6. fresh = Backlog(pRead, pWrite)
    <2>1. CASE \E t \in Tasks : Copying(t)
      BY <1>5, <2>1 DEF AmpleInv
    <2>2. CASE \A t \in Tasks : ~Copying(t)
      BY <2>2 DEF RingInv
    <2> QED
      BY <2>1, <2>2
  <1>7. PICK k1 \in Taken(BuffSizeToRead(pRead, pWrite)) :
          LET r1 == Advance(pRead, k1)
              again == dest # "FLASH" /\ pWrite # r1
          IN  \E k2 \in IF again THEN Taken(BuffSizeToRead(r1, pWrite)) ELSE {0} :
                /\ pRead' = Advance(r1, k2)
                /\ fresh' = fresh \ ((pRead .. pRead + k1 - 1) \cup (r1 .. r1 + k2 - 1))
    BY DEF SendPacketFromInt
  <1> DEFINE r1 == Advance(pRead, k1)
             again == dest # "FLASH" /\ pWrite # r1
  <1>8. PICK k2 \in IF again THEN Taken(BuffSizeToRead(r1, pWrite)) ELSE {0} :
          /\ pRead' = Advance(r1, k2)
          /\ fresh' = fresh \ ((pRead .. pRead + k1 - 1) \cup (r1 .. r1 + k2 - 1))
    BY <1>7
  <1>9. /\ r1 \in Cells
        /\ Backlog(r1, pWrite) = Backlog(pRead, pWrite) \ (pRead .. pRead + k1 - 1)
        /\ RemainBuffSize(pRead, pWrite) <= RemainBuffSize(r1, pWrite)
    BY <1>4, SendRing
  <1>10. /\ pRead' \in Cells
         /\ Backlog(pRead', pWrite) = Backlog(r1, pWrite) \ (r1 .. r1 + k2 - 1)
         /\ RemainBuffSize(r1, pWrite) <= RemainBuffSize(pRead', pWrite)
    <2>1. CASE again
      <3>1. k2 \in Taken(BuffSizeToRead(r1, pWrite))
        BY <1>8, <2>1
      <3> HIDE DEF r1
      <3> QED
        BY <1>4, <1>8, <1>9, <3>1, SendRing
    <2>2. CASE ~again
      <3>1. k2 = 0
        BY <1>8, <2>2
      <3> HIDE DEF r1
      <3>2. r1 \in Int /\ RemainBuffSize(r1, pWrite) \in Int
        BY <1>4, <1>9, RingRoom, SizesAssumption DEF Cells
      <3>3. Advance(r1, 0) = r1
        BY <3>2 DEF Advance
      <3>4. r1 .. r1 + 0 - 1 = {}
        BY <3>2
      <3> QED
        BY <1>8, <1>9, <3>1, <3>2, <3>3, <3>4
    <2> QED
      BY <2>1, <2>2
  <1> HIDE DEF r1
  <1>11. fresh' = Backlog(pRead', pWrite)
    BY <1>6, <1>8, <1>9, <1>10
  <1>12. pRead' < SIZE
    BY <1>10, SizesAssumption DEF Cells
  <1>13. RemainBuffSize(pRead, pWrite) <= RemainBuffSize(pRead', pWrite)
    <2>1. /\ RemainBuffSize(pRead, pWrite) \in Int /\ RemainBuffSize(r1, pWrite) \in Int
          /\ RemainBuffSize(pRead', pWrite) \in Int
      BY <1>4, <1>9, <1>10, RingRoom
    <2> QED
      BY <1>9, <1>10, <2>1
  <1>14. ASSUME NEW t \in Tasks PROVE CallInv(t)'
    <2>1. CASE Copying(t)
      <3>1. ~Tight(t)' /\ AmpleInv(t) /\ At(t) = pWrite /\ At(t)' = pWrite
        BY <1>1, <1>5, <2>1 DEF Tight
      <3>2. Room(t) = RemainBuffSize(pRead, pWrite)
            /\ Room(t)' = RemainBuffSize(pRead', pWrite)
        BY <1>1, <3>1 DEF Room
      <3>3. Room(t)' > loc'[t].left
        <4>1. /\ Room(t) \in Int /\ Room(t)' \in Int /\ loc[t].left \in Int
              /\ Room(t) > loc[t].left /\ loc'[t].left = loc[t].left
          BY <1>1, <1>4, <1>10, <3>1, <3>2, RingRoom, LocalTypes DEF AmpleInv
        <4> QED
          BY <1>13, <3>2, <4>1
      <3>4. AmpleInv(t)'
        BY <1>1, <1>11, <3>1, <3>3 DEF AmpleInv
      <3> QED
        BY <1>1, <2>1, <3>1, <3>4 DEF CallInv, Copying, Ended, RingInv
    <2>2. CASE ~Copying(t)
      BY <1>1, <2>2 DEF CallInv, Copying, RingInv
    <2> QED
      BY <2>1, <2>2
  <1> QED
    BY <1>1, <1>11, <1>12, <1>14 DEF RingInv

\* Every step keeps what lies between the pointers.
LEMMA StepKeepsRing ==
  ASSUME MAXLEN < MAXRX, IInv, IInv', RoomInv, RingInv, [Next]_vars
  PROVE  RingInv'
  <1> SUFFICES ASSUME hazard' = {} PROVE RingInv'
    BY DEF RingInv
  <1>1. hazard = {}
    BY HazardStays
  <1>2. TypeOK
    BY DEF IInv
  <1>3. CASE UNCHANGED vars
    BY <1>3 DEF vars, RingInv, CallInv, Copying, Tight, TightInv, AmpleInv, Room, At, Used
  <1>4. CASE SendPacketFromInt
    BY <1>1, <1>4, InterruptKeepsRing
  <1>5. CASE Commands
    BY <1>5, CommandsLeaveRing
    DEF RingInv, CallInv, Copying, Tight, TightInv, AmpleInv, Room, At, Used
  <1>7. CASE Upload
    <2>1. /\ Goto(Manager, "flush") /\ pc[Manager] = "idle" /\ loc' = loc /\ mutex' = mutex
          /\ pRead' = pRead /\ pWrite' = pWrite /\ fresh' = fresh /\ lowMem' = lowMem
      BY <1>7 DEF Upload, Free
    <2>2. Manager \in Tasks
      BY ConfigAssumption
    <2>3. ~loc[Manager].over
      BY <1>1, <2>1, <2>2 DEF IInv, MutexInv, RingInv, CallInv
    <2> QED
      BY <1>1, <1>2, <2>1, <2>2, <2>3, AwayKeepsRing DEF Labels, Copying
  <1>6. ASSUME NEW t \in Tasks, Printf(t) \/ Step(t)
        PROVE  RingInv'
    <2>1. CASE Printf(t)
      <3>1. pc[t] = "idle" /\ Goto(t, "capture") /\ loc' = loc /\ pRead' = pRead
            /\ pWrite' = pWrite /\ fresh' = fresh /\ lowMem' = lowMem /\ mutex' = mutex
        BY <2>1 DEF Printf
      <3>2. ~loc[t].over
        BY <1>1, <3>1 DEF IInv, MutexInv, RingInv, CallInv
      <3> QED
        BY <1>1, <1>2, <3>1, <3>2, AwayKeepsRing DEF Labels, Copying
    <2>2. CASE Capture(t)
      <3>1. pc[t] = "capture" /\ Goto(t, "measure") /\ pRead' = pRead
            /\ pWrite' = pWrite /\ fresh' = fresh /\ lowMem' = lowMem
            /\ mutex = NoTask /\ mutex' = t
        BY <2>2 DEF Capture
      <3>2. ~loc'[t].over /\ \A s \in Tasks \ {t} : loc'[s] = loc[s]
        BY <1>2, <2>2 DEF Capture, Message, TypeOK
      <3> QED
        BY <1>1, <1>2, <3>1, <3>2, ConfigAssumption, AwayKeepsRing DEF Labels, Copying
    <2>3. CASE Measure(t)
      BY <1>1, <2>3, MeasureKeepsRing
    <2>4. CASE Flag(t) \/ SetLow(t) \/ Test(t) \/ Boost(t) \/ EndOfText(t)
      BY <1>1, <2>4, FlagKeepsRing
    <2>5. CASE StoreChar(t) \/ BumpPointer(t) \/ StoreLate(t) \/ Wrap(t)
      BY <1>1, <2>5, CopyKeepsRing
    <2>6. CASE Check(t) \/ Compare(t) \/ Mark(t) \/ Reset(t)
      BY <1>1, <2>6, TestKeepsRing
    <2>7. CASE Count(t) \/ Flush(t) \/ SetUrgent(t) \/ Hurry(t)
      <3>1. /\ pc[t] \in Ended /\ pRead' = pRead /\ pWrite' = pWrite /\ fresh' = fresh
            /\ mutex' = mutex
            /\ lowMem' = lowMem \/ \A s \in Tasks : pc[s] \notin LowNeeded
        BY <2>7, <1>1 DEF Count, Flush, SetUrgent, Hurry, Ended
      <3>2. PICK l \in {"flush", "seturgent", "hurry", "release", "idle"} : Goto(t, l)
        BY <2>7 DEF Count, Flush, SetUrgent, Hurry
      <3>3. /\ loc'[t].over = loc[t].over /\ loc'[t].marked = loc[t].marked
            /\ \A s \in Tasks \ {t} : loc'[s] = loc[s]
        BY <1>2, <2>7 DEF Count, Flush, SetUrgent, Hurry, TypeOK, Locals
      <3>4. (loc[t].over => loc[t].marked) /\ (mutex # t => ~loc[t].over)
        BY <1>1, <3>1 DEF RingInv, CallInv
      <3>5. ~Copying(t)
        BY <3>1 DEF Copying, Ended
      <3> QED
        BY <1>1, <1>2, <3>1, <3>2, <3>3, <3>4, <3>5, AwayKeepsRing DEF Labels
    <2>8. CASE Release(t)
      <3>1. /\ pc[t] = "release" /\ Goto(t, "idle") /\ pRead' = pRead
            /\ pWrite' = pWrite /\ fresh' = fresh /\ lowMem' = lowMem
            /\ \A s \in Tasks \ {t} : loc'[s] = loc[s]
        BY <1>2, <2>8 DEF Release, TypeOK
      <3>2. mutex = t
        BY <3>1 DEF IInv, MutexInv, Outside
      <3>3. ~loc'[t].over
        BY <1>2, <2>8 DEF Release, TypeOK, NoLocals, Message
      <3> QED
        BY <1>1, <1>2, <3>1, <3>2, <3>3, AwayKeepsRing DEF Labels, Copying, Ended
    <2> QED
      BY <1>6, <2>1, <2>2, <2>3, <2>4, <2>5, <2>6, <2>7, <2>8 DEF Step
  <1> QED
    BY <1>3, <1>4, <1>5, <1>6, <1>7 DEF Next, Commands

\* The ring, where no message is as long as the longest the buffer is made for:
\* one of MAXRX characters in exactly MAXRX free cells is not flagged, and
\* fills the ring up to the reader, which then looks empty.
THEOREM RingInvariance == ASSUME MAXLEN < MAXRX PROVE Spec => []RingInv
  <1>1. Init => RingInv /\ RoomInv
    <2> SUFFICES ASSUME Init PROVE RingInv /\ RoomInv
      OBVIOUS
    <2>1. 0 < SIZE /\ SIZE \in Int
      BY SizesAssumption
    <2>2. Backlog(0, 0) = {}
      BY DEF Backlog
    <2>3. RingInv
      BY <2>1, <2>2 DEF Init, RingInv, CallInv, Copying, Ended, NoLocals, Message
    <2>4. RoomInv
      BY <2>1, ConfigAssumption DEF Init, RoomInv
    <2> QED
      BY <2>3, <2>4
  <1>2. IInv /\ IInv' /\ RingInv /\ RoomInv /\ [Next]_vars => RingInv' /\ RoomInv'
    BY StepKeepsRing, StepKeepsRoom
  <1> QED
    BY <1>1, <1>2, Invariance, PTL DEF Spec

\* Nothing is sent twice and nothing is forgotten, between the statements that
\* an interrupt must not meet (CALC_REMAIN_BUFF_SIZE, Logger_SendPacketFromInt).
THEOREM BacklogExact == ASSUME MAXLEN < MAXRX PROVE Spec => []BacklogIsExact
  <1>1. IInv /\ RingInv => BacklogIsExact
    <2> SUFFICES ASSUME IInv, RingInv, Settled PROVE Backlog(pRead, pWrite) = fresh
      BY DEF BacklogIsExact
    <2>1. CASE \E t \in Tasks : Copying(t)
      <3>1. PICK t \in Tasks : Copying(t)
        BY <2>1
      <3>2. hazard = {} /\ pc[t] # "late" /\ ~Tight(t)
        BY <3>1 DEF Settled, LowBusy, Copying, Tight
      <3> QED
        BY <3>1, <3>2 DEF RingInv, CallInv, AmpleInv, At
    <2>2. CASE \A t \in Tasks : ~Copying(t)
      BY <2>2 DEF Settled, RingInv
    <2> QED
      BY <2>1, <2>2
  <1> QED
    BY <1>1, Invariance, RingInvariance, PTL

\* A message that ran over characters nobody had sent leaves the overrun mark
\* (the test on RemainBuffSize in Logger_ParseAndWriteRxMessage).
THEOREM OverrunsAreMarked == ASSUME MAXLEN < MAXRX PROVE Spec => []OverrunIsMarked
  <1>1. RingInv => OverrunIsMarked
    BY DEF RingInv, CallInv, Ended, OverrunIsMarked
  <1> QED
    BY <1>1, RingInvariance, PTL
=============================================================================
