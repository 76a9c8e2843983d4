--------------------------- MODULE DumpLogProofs ---------------------------
(***************************************************************************)
(* Theorems about handing the log file over, for every number of tasks,    *)
(* every size of the segment, its sectors and the chunks, and whatever     *)
(* goes wrong or is asked of the Logger task meanwhile: the invariants of  *)
(* DumpLog, and that the watched call is the copy CopyOut describes.       *)
(***************************************************************************)
EXTENDS DumpLog, Wraparound, SequenceTheorems, TLAPS

\* The chunk that is sent is the one that was read, and there is one.
SendInv ==
  \A d \in Dumpers :
    pc[d] = "send" => left[d] > 0 /\ buff[d] = Bytes(iter[d], ChunkSize(d))

\* Unless a hazard has happened one call copies at a time; without it the call
\* that ends would thaw the log under the other.
OneCopies ==
  hazard = "none" =>
    \A d, e \in Dumpers : pc[d] \in Frozen /\ pc[e] \in Frozen => d = e

\* What the watched call is about to copy is in the log, however much has been
\* added since it was measured, until the reader or the writer is moved.
LeftInv ==
  ~spoilt =>
    /\ pc[Watched] = "measure" /\ want[Watched] # All
       => want[Watched] * KB <= UsageBytes
    /\ pc[Watched] \in {"check", "freeze", "locate"}
       => left[Watched] \in 1 .. UsageBytes

\* Only a copy under way has handed anything over, and it has no result yet.
GhostInv == (~Copying => out = <<>>) /\ (Copying /\ ~spoilt => ~ok)

IInv == TypeOK /\ SendInv /\ FrozenWhileCopying /\ OneCopies /\ LeftInv /\ GhostInv

\* The segment is whole sectors, two of them or more.
LEMMA Sizes ==
  /\ KB \in Nat \ {0} /\ FLASHKB \in Nat \ {0}
  /\ SIZE \in Nat \ {0} /\ SECTOR \in Nat \ {0}
  /\ SIZE % SECTOR = 0 /\ 2 * SECTOR <= SIZE
  <1>1. KB \in Nat \ {0} /\ SECTORKB \in Nat \ {0} /\ FLASHKB \in Nat
        /\ FLASHKB % SECTORKB = 0 /\ FLASHKB >= 2 * SECTORKB
    BY SizesAssumption
  <1>2. SECTOR \in Nat \ {0}
    BY <1>1 DEF SECTOR
  <1>3. FLASHKB \in Nat \ {0} /\ SIZE \in Nat
    BY <1>1 DEF SIZE
  <1>4. PICK k \in Nat : FLASHKB = k * SECTORKB
    BY <1>1, Multiple
  <1>5. SIZE = k * SECTOR
    BY <1>1, <1>4 DEF SIZE, SECTOR
  <1>6. SIZE % SECTOR = 0
    BY <1>2, <1>3, <1>5, Multiple
  <1>7. 2 * SECTOR <= SIZE
    <2>1. (2 * SECTORKB) * KB <= FLASHKB * KB
      BY <1>1, <1>3, Products
    <2> QED
      BY <1>1, <2>1 DEF SIZE, SECTOR
  <1> QED
    BY <1>1, <1>2, <1>3, <1>6, <1>7

\* What is around the end of the segment is in it.
LEMMA Around ==
  ASSUME NEW x \in 0 .. 2 * SIZE - 1
  PROVE  x % SIZE \in Addr /\ x % SIZE = IF x < SIZE THEN x ELSE x - SIZE
  <1>1. x % SIZE = IF x < SIZE THEN x ELSE x - SIZE
    BY Sizes, ModWithin
  <1> QED
    BY <1>1, Sizes DEF Addr

-----------------------------------------------------------------------------
(* Pieces of the log.                                                      *)

\* The bytes from an address, one by one.
LEMMA BytesAre ==
  ASSUME NEW a \in Nat, NEW n \in Nat
  PROVE  /\ Bytes(a, n) \in Seq(Addr) /\ Len(Bytes(a, n)) = n
         /\ \A i \in 1 .. n : Bytes(a, n)[i] = (a + i - 1) % SIZE
  <1>1. \A i \in 1 .. n : (a + i - 1) % SIZE \in Addr
    <2> TAKE i \in 1 .. n
    <2>1. a + i - 1 \in Nat
      OBVIOUS
    <2> QED
      BY <2>1, Sizes, DivMod DEF Addr
  <1> HIDE DEF SIZE
  <1> QED
    BY <1>1, Sizes DEF Bytes

\* A piece of a piece.
LEMMA BytesCut ==
  ASSUME NEW a \in Nat, NEW n \in Nat, NEW k \in 0 .. n
  PROVE  /\ SubSeq(Bytes(a, n), 1, k) = Bytes(a, k)
         /\ SubSeq(Bytes(a, n), k + 1, n) = Bytes(a + k, n - k)
  <1> DEFINE s == Bytes(a, n)
  <1>1. /\ s \in Seq(Addr) /\ Len(s) = n
        /\ \A i \in 1 .. n : s[i] = (a + i - 1) % SIZE /\ s[i] \in Addr
    BY BytesAre, ElementOfSeq
  <1> HIDE DEF s
  <1>2. SubSeq(s, 1, k) = Bytes(a, k)
    <2>1. /\ SubSeq(s, 1, k) \in Seq(Addr) /\ Len(SubSeq(s, 1, k)) = k
          /\ \A i \in 1 .. k : SubSeq(s, 1, k)[i] = s[i]
      BY <1>1, SubSeqProperties
    <2>2. /\ Bytes(a, k) \in Seq(Addr) /\ Len(Bytes(a, k)) = k
          /\ \A i \in 1 .. k : Bytes(a, k)[i] = (a + i - 1) % SIZE
      BY BytesAre
    <2>3. \A i \in 1 .. k : SubSeq(s, 1, k)[i] = Bytes(a, k)[i]
      BY <1>1, <2>1, <2>2
    <2> QED
      BY <2>1, <2>2, <2>3, SeqEqual
  <1>3. SubSeq(s, k + 1, n) = Bytes(a + k, n - k)
    <2> DEFINE t == SubSeq(s, k + 1, n)
    <2>1. /\ t \in Seq(Addr) /\ Len(t) = n - k
          /\ \A i \in 1 .. n - k : t[i] = s[k + i]
      BY <1>1, SubSeqProperties
    <2>2. /\ Bytes(a + k, n - k) \in Seq(Addr) /\ Len(Bytes(a + k, n - k)) = n - k
          /\ \A i \in 1 .. n - k : Bytes(a + k, n - k)[i] = (a + k + i - 1) % SIZE
      <3>1. a + k \in Nat /\ n - k \in Nat
        OBVIOUS
      <3> QED
        BY <3>1, BytesAre
    <2> HIDE DEF t
    <2>3. ASSUME NEW i \in 1 .. n - k PROVE t[i] = Bytes(a + k, n - k)[i]
      <3>1. s[k + i] = (a + (k + i) - 1) % SIZE
        BY <1>1
      <3>2. a + (k + i) - 1 = a + k + i - 1
        OBVIOUS
      <3> QED
        BY <2>1, <2>2, <3>1, <3>2
    <2> QED
      BY <2>1, <2>2, <2>3, SeqEqual DEF t
  <1> QED
    BY <1>2, <1>3 DEF s

\* A piece a lap further on is the same piece.
LEMMA BytesLap ==
  ASSUME NEW a \in Nat, NEW n \in Nat
  PROVE  Bytes(a + SIZE, n) = Bytes(a, n)
  <1>1. \A i \in 1 .. n : (a + SIZE + i - 1) % SIZE = (a + i - 1) % SIZE
    <2> TAKE i \in 1 .. n
    <2>1. a + i - 1 \in Nat /\ a + SIZE + i - 1 = (a + i - 1) + SIZE
      BY Sizes
    <2> QED
      BY <2>1, Sizes, ModLap
  <1>2. a + SIZE \in Nat
    BY Sizes
  <1>3. /\ Bytes(a + SIZE, n) \in Seq(Addr) /\ Len(Bytes(a + SIZE, n)) = n
        /\ \A i \in 1 .. n : Bytes(a + SIZE, n)[i] = (a + SIZE + i - 1) % SIZE
    BY <1>2, BytesAre
  <1>4. /\ Bytes(a, n) \in Seq(Addr) /\ Len(Bytes(a, n)) = n
        /\ \A i \in 1 .. n : Bytes(a, n)[i] = (a + i - 1) % SIZE
    BY BytesAre
  <1>5. \A i \in 1 .. n : Bytes(a + SIZE, n)[i] = Bytes(a, n)[i]
    BY <1>1, <1>3, <1>4
  <1> QED
    BY <1>3, <1>4, <1>5, SeqEqual

-----------------------------------------------------------------------------
(* What a call goes by.                                                    *)

\* What the log holds in bytes, and that so many KB of it are no more.
LEMMA Usage ==
  ASSUME read \in Addr, write \in Addr
  PROVE  /\ UsageBytes \in 0 .. SIZE - 1 /\ UsageKB \in 0 .. FLASHKB
         /\ \A s \in Nat : s < UsageKB => s * KB <= UsageBytes
  <1>1. UsageBytes \in 0 .. SIZE - 1
    BY Sizes DEF UsageBytes, Addr
  <1>2. \A n \in Nat : /\ n \div KB \in Nat
                       /\ (n \div KB) * KB <= n
    <2> TAKE n \in Nat
    <2> DEFINE q == n \div KB
               r == n % KB
    <2>1. q \in Nat /\ r \in 0 .. KB - 1 /\ n = q * KB + r
      BY Sizes, DivMod
    <2> HIDE DEF q, r
    <2>2. q * KB \in Nat
      BY <2>1, Sizes
    <2> QED
      BY <2>1, <2>2, Sizes DEF q
  <1>3. CASE write >= read
    <2> DEFINE n == write - read
               q == n \div KB
    <2>1. n \in Nat /\ n < SIZE
      BY <1>3, Sizes DEF Addr
    <2> HIDE DEF n
    <2>2. q \in Nat /\ q * KB <= n
      BY <1>2, <2>1
    <2> HIDE DEF q
    <2>3. q * KB \in Nat /\ q * KB < FLASHKB * KB
      BY <2>1, <2>2, Sizes DEF SIZE
    <2>4. q < FLASHKB
      BY <2>2, <2>3, Sizes, Products
    <2>5. ASSUME NEW s \in Nat, s < q PROVE s * KB <= n
      BY <2>1, <2>2, <2>5, Sizes, Products
    <2>6. UsageKB = q /\ UsageBytes = n
      BY <1>3 DEF UsageKB, UsageBytes, n, q
    <2> QED
      BY <1>1, <2>2, <2>4, <2>5, <2>6, Sizes
  <1>4. CASE write < read
    <2> DEFINE n == read - write
               q == n \div KB
    <2>1. n \in Nat /\ n < SIZE
      BY <1>4, Sizes DEF Addr
    <2> HIDE DEF n
    <2>2. q \in Nat /\ q * KB <= n
      BY <1>2, <2>1
    <2>3. n < q * KB + KB
      BY <2>1, Sizes, DivMod
    <2> HIDE DEF q
    <2>4. q * KB \in Nat /\ q * KB < FLASHKB * KB
      BY <2>1, <2>2, Sizes DEF SIZE
    <2>5. q < FLASHKB
      BY <2>2, <2>4, Sizes, Products
    <2>6. ASSUME NEW s \in Nat, s < FLASHKB - q PROVE s * KB <= SIZE - n
      <3>1. s + q < FLASHKB /\ s + q \in Nat
        BY <2>2, <2>6, Sizes
      <3>2. (s + q) * KB + KB <= FLASHKB * KB
        BY <3>1, Sizes, Products
      <3>3. (s + q) * KB = s * KB + q * KB /\ s * KB \in Nat
        BY <2>2, Sizes
      <3>4. FLASHKB * KB = SIZE
        BY DEF SIZE
      <3> QED
        BY <2>1, <2>3, <2>4, <3>2, <3>3, <3>4, Sizes
    <2>7. UsageKB = FLASHKB - q /\ UsageBytes = SIZE - n
      BY <1>4 DEF UsageKB, UsageBytes, Addr, n, q
    <2> QED
      BY <1>1, <2>2, <2>5, <2>6, <2>7, Sizes
  <1> QED
    BY <1>3, <1>4, Sizes DEF Addr

\* A chunk is at least a byte, no more than is left, and within the segment.
LEMMA Chunk ==
  ASSUME NEW d, left[d] \in Nat \ {0}, iter[d] \in Addr
  PROVE  ChunkSize(d) \in 1 .. left[d] /\ iter[d] + ChunkSize(d) <= SIZE
  <1>1. ASSUME NEW a \in Nat \ {0}, NEW b \in Nat \ {0}, NEW c \in Nat \ {0}
        PROVE  LET m == Least3(a, b, c) IN m \in {a, b, c} /\ m <= a /\ m <= b /\ m <= c
    <2>1. \E m \in {a, b, c} : m <= a /\ m <= b /\ m <= c
      OBVIOUS
    <2> QED
      BY <2>1 DEF Least3
  <1>2. SIZE - iter[d] \in Nat \ {0} /\ CHUNK \in Nat \ {0}
    BY Sizes, SizesAssumption DEF Addr
  <1> DEFINE m == ChunkSize(d)
             b == left[d]
             c == SIZE - iter[d]
  <1>3. /\ m \in {CHUNK, b, c} /\ m <= b /\ m <= c
        /\ b \in Nat \ {0} /\ c \in Nat \ {0} /\ CHUNK \in Nat \ {0}
    BY <1>1, <1>2 DEF ChunkSize
  <1>4. iter[d] \in Nat /\ SIZE \in Nat /\ c = SIZE - iter[d]
    BY Sizes DEF Addr
  <1> HIDE DEF m, b, c
  <1>5. m \in 1 .. b /\ iter[d] + m <= SIZE
    BY <1>3, <1>4
  <1> QED
    BY <1>5 DEF m, b

-----------------------------------------------------------------------------
(* Type correctness.                                                       *)

\* Where variables begin.
LEMMA Zeros ==
  /\ 0 \in Addr /\ 0 \in Sectors /\ All \in 0 .. All /\ 0 \in 0 .. SIZE
  /\ <<>> \in Seq(Addr)
  <1>1. 0 \in Addr /\ 0 \in 0 .. SIZE /\ All \in 0 .. All
    BY Sizes DEF Addr, All
  <1>2. 0 % SECTOR = 0
    BY Sizes, ModWithin
  <1> QED
    BY <1>1, <1>2, EmptySeq DEF Sectors

\* What the start of a sector has behind it.
LEMMA NextSectorStart ==
  ASSUME NEW a \in Sectors
  PROVE  (a + SECTOR) % SIZE \in Sectors
  <1>1. a \in 0 .. SIZE - 1 /\ a % SECTOR = 0
    BY DEF Sectors, Addr
  <1>2. a + SECTOR <= SIZE /\ (a + SECTOR) % SECTOR = 0
    BY <1>1, Sizes, NextMultiple
  <1>3. a + SECTOR \in 0 .. 2 * SIZE - 1
    BY <1>1, <1>2, Sizes
  <1>4. (a + SECTOR) % SIZE \in Addr
        /\ (a + SECTOR) % SIZE = IF a + SECTOR < SIZE THEN a + SECTOR ELSE a + SECTOR - SIZE
    <2> DEFINE x == a + SECTOR
    <2>1. x \in 0 .. 2 * SIZE - 1
      BY <1>3
    <2> HIDE DEF x
    <2>2. x % SIZE \in Addr /\ x % SIZE = IF x < SIZE THEN x ELSE x - SIZE
      BY <2>1, Around
    <2>3. x = a + SECTOR
      BY DEF x
    <2> QED
      BY <1>1, <2>1, <2>2, <2>3, Sizes
  <1>5. CASE a + SECTOR < SIZE
    BY <1>2, <1>4, <1>5 DEF Sectors
  <1>6. CASE a + SECTOR = SIZE
    <2>1. (a + SECTOR) % SIZE = 0
      BY <1>3, <1>4, <1>6, Sizes
    <2> QED
      BY <2>1, Zeros
  <1> QED
    BY <1>1, <1>2, <1>5, <1>6, Sizes

\* What the interrupt does to the log: without an erase it is a byte longer.
LEMMA Longer ==
  ASSUME TypeOK, AddToLog
  PROVE  /\ read' \in Addr /\ write' \in Addr
         /\ (write + 1) % SIZE # read =>
              read' = read /\ UsageBytes' = UsageBytes + 1
  <1>1. read \in Addr /\ write \in Addr
    BY DEF TypeOK
  <1>2. read' \in Addr
    <2>1. CASE read' = read
      BY <1>1, <2>1
    <2>2. CASE read' # read
      <3>1. read \in Sectors /\ read' = (read + SECTOR) % SIZE
        BY <2>2 DEF AddToLog
      <3> QED
        BY <3>1, NextSectorStart DEF Sectors
    <2> QED
      BY <2>1, <2>2
  <1>3. write + 1 \in 0 .. 2 * SIZE - 1
    BY <1>1, Sizes DEF Addr
  <1>4. /\ write' \in Addr
        /\ write' = IF write + 1 < SIZE THEN write + 1 ELSE write + 1 - SIZE
        /\ (write + 1) % SIZE = write'
    <2> DEFINE x == write + 1
    <2>1. x \in 0 .. 2 * SIZE - 1
      BY <1>3
    <2> HIDE DEF x
    <2>2. x % SIZE \in Addr /\ x % SIZE = IF x < SIZE THEN x ELSE x - SIZE
      BY <2>1, Around
    <2>3. x = write + 1
      BY DEF x
    <2> QED
      BY <1>1, <2>1, <2>2, <2>3, Sizes DEF AddToLog, Addr
  <1>5. ASSUME write' # read
        PROVE  read' = read /\ UsageBytes' = UsageBytes + 1
    <2>1. read' = read
      BY <1>4, <1>5 DEF AddToLog
    <2> QED
      BY <1>1, <1>4, <1>5, <2>1, Sizes DEF UsageBytes, Addr
  <1> QED
    BY <1>2, <1>4, <1>5

\* What the Logger task serves besides dumps leaves the calls alone; where it
\* moves a pointer while the watched one is under way, that is spoilt.
LEMMA CommandFacts ==
  ASSUME TypeOK, Command
  PROVE  /\ read' \in Addr /\ write' \in Addr
         /\ state' \in {"READY", "SENDING", "WAITING"}
         /\ want' = want /\ left' = left /\ iter' = iter /\ buff' = buff
         /\ out' = out /\ ok' = ok
         /\ spoilt' = (spoilt \/ (UnderWay /\ log' # log))
  <1>1. 0 \in Addr /\ read \in Addr /\ write \in Addr
    BY Zeros DEF TypeOK
  <1>2. CASE Reply \/ Closed \/ Configure
    BY <1>1, <1>2 DEF Reply, Closed, Configure, TypeOK, log, local, ghost
  <1>3. CASE InitFlash
    BY <1>1, <1>3 DEF InitFlash, TypeOK, log, local
  <1>4. CASE Resume
    BY <1>1, <1>4 DEF Resume, TypeOK, local
  <1>5. CASE SwitchOn
    BY <1>1, <1>5 DEF SwitchOn, TypeOK, local
  <1> QED
    BY <1>2, <1>3, <1>4, <1>5 DEF Command

\* ... it is outside of every call, and a copy whose State it sets READY is
\* remembered.
LEMMA CommandPC ==
  ASSUME TypeOK, Command
  PROVE  /\ pc' \in [Dumpers -> Outside \cup {"measure", "check", "freeze"} \cup Frozen]
         /\ \A d \in Dumpers :
              pc'[d] = pc[d] \/ (pc[d] \in Outside /\ pc'[d] \in Outside)
         /\ hazard' \in {hazard, "thaw"}
         /\ state' = "READY" => state = "READY" \/ hazard' # "none" \/ Copiers = {}
  <1>1. CASE Reply \/ Closed \/ SwitchOn
    BY <1>1 DEF Reply, Closed, SwitchOn, Meets, TypeOK
  <1>2. CASE Configure \/ InitFlash
    BY <1>2 DEF Configure, InitFlash, Goto, Outside, TypeOK
  <1>3. CASE Resume
    BY <1>3 DEF Resume, Goto, Outside, Meets, TypeOK
  <1> QED
    BY <1>1, <1>2, <1>3 DEF Command

\* The start of a log.
LEMMA InitType == Init => TypeOK
  <1> SUFFICES ASSUME Init PROVE TypeOK
    OBVIOUS
  <1>1. read \in Addr /\ write \in Addr
    <2>1. PICK used \in 0 .. SIZE - SECTOR : write = (read + used) % SIZE
      BY DEF Init
    <2>2. read + used \in 0 .. 2 * SIZE - 1
      BY <2>1, Sizes DEF Init, Sectors, Addr
    <2> QED
      BY <2>1, <2>2, Around DEF Init, Sectors
  <1>2. buff \in [Dumpers -> Seq(Addr)]
    BY Zeros DEF Init
  <1> QED
    BY <1>1, <1>2, Zeros DEF Init, TypeOK, Outside

\* A call that returns.
LEMMA ReturnType ==
  ASSUME TypeOK, NEW d \in Dumpers, Return(d),
         state' \in {"READY", "SENDING", "WAITING"},
         ok' \in BOOLEAN, hazard' \in {"none", "thaw", "both", "nomem"}
  PROVE  TypeOK'
  <1>1. buff' \in [Dumpers -> Seq(Addr)]
    BY Zeros DEF Return, TypeOK
  <1>2. out' \in Seq(Addr) /\ spoilt' \in BOOLEAN
    BY Zeros DEF Return, TypeOK
  <1> QED
    BY <1>1, <1>2, Zeros DEF Return, TypeOK, Goto, log, Outside

\* Every step keeps the types; for the chunk that is sent SendInv is needed.
LEMMA TypeStep == TypeOK /\ SendInv /\ [Next]_vars => TypeOK'
  <1> SUFFICES ASSUME TypeOK, SendInv, [Next]_vars PROVE TypeOK'
    OBVIOUS
  <1>1. CASE AddToLog
    BY <1>1, Longer DEF AddToLog, TypeOK, local
  <1>2. CASE Command
    <2>1. UnderWay \in BOOLEAN /\ spoilt \in BOOLEAN
      BY DEF UnderWay, TypeOK
    <2> QED
      BY <1>2, <2>1, CommandFacts, CommandPC DEF TypeOK
  <1>3. CASE UNCHANGED vars
    BY <1>3 DEF TypeOK, vars
  <1>4. ASSUME NEW d \in Dumpers, Request(d) \/ Step(d)
        PROVE  TypeOK'
    <2>1. /\ want[d] \in 0 .. All /\ left[d] \in 0 .. SIZE /\ iter[d] \in Addr
          /\ read \in Addr /\ write \in Addr
      BY DEF TypeOK
    <2>2. CASE Request(d)
      <3>1. want' \in [Dumpers -> 0 .. All]
        BY <2>2, Zeros DEF Request, TypeOK
      <3> QED
        BY <2>2, <3>1 DEF Request, TypeOK, Goto, log, ghost
    <2>3. CASE Empty(d) \/ NotReady(d) \/ NoMemory(d) \/ Exit(d)
      <3>1. /\ Return(d) /\ state' \in {"READY", "SENDING", "WAITING"} /\ ok' \in BOOLEAN
            /\ hazard' \in {"none", "thaw", "both", "nomem"}
        <4>1. CASE Empty(d)
          BY <4>1 DEF Empty, TypeOK
        <4>2. CASE NotReady(d)
          BY <4>2 DEF NotReady, TypeOK
        <4>3. CASE NoMemory(d)
          BY <4>3 DEF NoMemory, TypeOK
        <4>4. CASE Exit(d)
          <5>1. (left[d] <= 0) \in BOOLEAN
            OBVIOUS
          <5>2. ok' \in BOOLEAN
            BY <4>4, <5>1, Zenon DEF Exit, TypeOK
          <5> QED
            BY <4>4, <5>2 DEF Exit, TypeOK
        <4> QED
          BY <2>3, <4>1, <4>2, <4>3, <4>4
      <3> QED
        BY <3>1, ReturnType
    <2>4. CASE Measure(d)
      <3>1. Size(d) \in 0 .. SIZE
        <4>1. CASE want[d] = All
          BY <2>1, <4>1, Usage, Sizes DEF Size
        <4>2. CASE want[d] # All
          <5>1. want[d] \in Nat /\ want[d] <= FLASHKB
            BY <2>1, <4>2, Sizes DEF All
          <5>2. want[d] * KB \in Nat /\ want[d] * KB <= FLASHKB * KB
            BY <5>1, Sizes, Products
          <5> QED
            BY <4>2, <5>2 DEF Size, SIZE
        <4> QED
          BY <4>1, <4>2
      <3>2. left' \in [Dumpers -> 0 .. SIZE]
        BY <2>4, <3>1 DEF Measure, TypeOK
      <3>3. want' \in [Dumpers -> 0 .. All]
        BY <2>4, Zeros DEF Measure, TypeOK
      <3> QED
        BY <2>4, <3>2, <3>3 DEF Measure, TypeOK, Goto, log, ghost
    <2>5. CASE Ready(d) \/ Freeze(d) \/ ReadFails(d) \/ Busy(d) \/ SendFails(d) \/ AllSent(d)
      BY <2>5 DEF Ready, Freeze, ReadFails, Busy, SendFails, AllSent, TypeOK, Goto,
                  log, local, ghost, Frozen, Meets
    <2>6. CASE Locate(d)
      <3>1. ReadStart(left[d]) \in Addr
        BY <2>1, Sizes DEF ReadStart, Addr
      <3>2. iter' \in [Dumpers -> Addr]
        BY <2>6, <3>1 DEF Locate, TypeOK
      <3> QED
        BY <2>6, <3>2 DEF Locate, TypeOK, Goto, log, ghost, Frozen
    <2>7. CASE ReadFlash(d)
      <3>1. ChunkSize(d) \in Nat /\ iter[d] \in Nat
        BY <2>1, <2>7, Chunk DEF ReadFlash, Addr
      <3>2. Bytes(iter[d], ChunkSize(d)) \in Seq(Addr)
        BY <3>1, BytesAre
      <3>3. buff' \in [Dumpers -> Seq(Addr)]
        BY <2>7, <3>2 DEF ReadFlash, TypeOK
      <3> QED
        BY <2>7, <3>3 DEF ReadFlash, TypeOK, Goto, log, ghost, Frozen
    <2>8. CASE Send(d)
      <3>1. /\ ChunkSize(d) \in 1 .. left[d] /\ iter[d] + ChunkSize(d) <= SIZE
        BY <2>1, <2>8, Chunk DEF Send, SendInv
      <3>2. left' \in [Dumpers -> 0 .. SIZE]
        <4>1. left[d] - ChunkSize(d) \in 0 .. SIZE
          BY <2>1, <3>1, Sizes
        <4> QED
          BY <2>8, <4>1 DEF Send, TypeOK
      <3>3. iter' \in [Dumpers -> Addr]
        <4>1. (IF iter[d] + ChunkSize(d) >= SIZE THEN 0 ELSE iter[d] + ChunkSize(d)) \in Addr
          BY <2>1, <3>1, Sizes DEF Addr
        <4> QED
          BY <2>8, <4>1 DEF Send, TypeOK
      <3>4. out' \in Seq(Addr)
        BY <2>8, ConcatProperties DEF Send, TypeOK
      <3> QED
        BY <2>8, <3>2, <3>3, <3>4 DEF Send, TypeOK, Goto, log, Frozen
    <2> QED
      BY <1>4, <2>2, <2>3, <2>4, <2>5, <2>6, <2>7, <2>8 DEF Step
  <1> QED
    BY <1>1, <1>2, <1>3, <1>4 DEF Next

-----------------------------------------------------------------------------
(* The invariants.                                                         *)

\* A call leaves the variables of another alone.
LEMMA OthersStay ==
  ASSUME TypeOK, NEW d \in Dumpers, Request(d) \/ Step(d), NEW e \in Dumpers, e # d
  PROVE  /\ pc'[e] = pc[e] /\ want'[e] = want[e] /\ left'[e] = left[e]
         /\ iter'[e] = iter[e] /\ buff'[e] = buff[e]
  <1>1. CASE Return(d)
    BY <1>1 DEF Return, Goto, TypeOK
  <1>2. CASE Request(d) \/ Measure(d)
    BY <1>2 DEF Request, Measure, Goto, TypeOK
  <1>3. CASE Ready(d) \/ Freeze(d) \/ ReadFails(d) \/ Busy(d) \/ SendFails(d) \/ AllSent(d)
    BY <1>3 DEF Ready, Freeze, ReadFails, Busy, SendFails, AllSent, Goto, local, TypeOK
  <1>4. CASE Locate(d) \/ ReadFlash(d)
    BY <1>4 DEF Locate, ReadFlash, Goto, TypeOK
  <1>5. CASE Send(d)
    <2>1. left'[e] = left[e]
      BY <1>5 DEF Send, TypeOK
    <2>2. iter'[e] = iter[e]
      BY <1>5 DEF Send, TypeOK
    <2> QED
      BY <1>5, <2>1, <2>2 DEF Send, Goto, TypeOK
  <1>6. Empty(d) \/ NotReady(d) \/ NoMemory(d) \/ Exit(d) => Return(d)
    BY DEF Empty, NotReady, NoMemory, Exit
  <1> QED
    BY <1>1, <1>2, <1>3, <1>4, <1>5, <1>6 DEF Step

\* A chunk is sent after it was read, with nothing in between.
LEMMA SendStep == TypeOK /\ SendInv /\ [Next]_vars => SendInv'
  <1> SUFFICES ASSUME TypeOK, SendInv, [Next]_vars,
                      NEW e \in Dumpers, pc'[e] = "send"
               PROVE  left'[e] > 0 /\ buff'[e] = Bytes(iter'[e], ChunkSize(e)')
    BY DEF SendInv
  <1>1. ASSUME pc'[e] = pc[e], left'[e] = left[e], iter'[e] = iter[e], buff'[e] = buff[e]
        PROVE  left'[e] > 0 /\ buff'[e] = Bytes(iter'[e], ChunkSize(e)')
    BY <1>1 DEF SendInv, ChunkSize
  <1>2. CASE AddToLog \/ UNCHANGED vars
    BY <1>1, <1>2 DEF AddToLog, vars, local
  <1>3. CASE Command
    BY <1>1, <1>3, CommandFacts, CommandPC DEF Outside
  <1>4. ASSUME NEW d \in Dumpers, Request(d) \/ Step(d), d # e
        PROVE  left'[e] > 0 /\ buff'[e] = Bytes(iter'[e], ChunkSize(e)')
    BY <1>1, <1>4, OthersStay
  <1>5. ASSUME Request(e) \/ Step(e)
        PROVE  left'[e] > 0 /\ buff'[e] = Bytes(iter'[e], ChunkSize(e)')
    <2>1. ReadFlash(e)
      BY <1>5 DEF TypeOK, Request, Step, Empty, Measure, NotReady, Ready, Freeze, NoMemory, Locate, ReadFlash,
         ReadFails, Busy, Send, SendFails, AllSent, Exit, Return, Goto, log, local, ghost
    <2>2. left[e] > 0 /\ left' = left /\ iter' = iter
          /\ buff'[e] = Bytes(iter[e], ChunkSize(e))
      BY <2>1 DEF ReadFlash, TypeOK
    <2>3. ChunkSize(e)' = ChunkSize(e)
      BY <2>2 DEF ChunkSize
    <2> QED
      BY <2>2, <2>3
  <1> QED
    BY <1>2, <1>3, <1>4, <1>5 DEF Next

\* Freezing and thawing apart, a step of a call neither brings it where it
\* counts on the log to stay as it is nor touches State.
LEMMA Quiet ==
  ASSUME TypeOK, NEW d \in Dumpers, Request(d) \/ Step(d), ~Freeze(d), ~Exit(d)
  PROVE  /\ state' = state /\ (pc'[d] \in Frozen => pc[d] \in Frozen)
         /\ hazard' = hazard \/ NoMemory(d)
  <1>1. CASE Empty(d) \/ NotReady(d)
    BY <1>1 DEF Empty, NotReady, Return, Goto, TypeOK, Frozen
  <1>2. CASE NoMemory(d)
    BY <1>2 DEF NoMemory, Return, Goto, TypeOK, Frozen
  <1>3. CASE Request(d) \/ Measure(d) \/ Ready(d)
    BY <1>3 DEF Request, Measure, Ready, Goto, TypeOK, Frozen
  <1>4. CASE Locate(d) \/ ReadFlash(d)
    BY <1>4 DEF Locate, ReadFlash, Goto, TypeOK, Frozen
  <1>5. CASE ReadFails(d) \/ Busy(d) \/ Send(d) \/ SendFails(d) \/ AllSent(d)
    BY <1>5 DEF ReadFails, Busy, Send, SendFails, AllSent, Goto, TypeOK, Frozen
  <1> QED
    BY <1>1, <1>2, <1>3, <1>4, <1>5 DEF Step

\* The check of State and the setting of it are two steps: what may come
\* between them is what hazard records.
LEMMA FrozenStep ==
  TypeOK /\ FrozenWhileCopying /\ OneCopies /\ [Next]_vars
    => FrozenWhileCopying' /\ OneCopies'
  <1> SUFFICES ASSUME TypeOK, FrozenWhileCopying, OneCopies, [Next]_vars, hazard' = "none"
               PROVE  /\ \A e \in Dumpers : pc'[e] \in Frozen => state' # "READY"
                      /\ \A e, f \in Dumpers :
                           pc'[e] \in Frozen /\ pc'[f] \in Frozen => e = f
    BY DEF FrozenWhileCopying, OneCopies
  <1> DEFINE Goal == /\ \A e \in Dumpers : pc'[e] \in Frozen => state' # "READY"
                     /\ \A e, f \in Dumpers :
                          pc'[e] \in Frozen /\ pc'[f] \in Frozen => e = f
  <1>1. CASE AddToLog \/ UNCHANGED vars
    BY <1>1 DEF AddToLog, vars, FrozenWhileCopying, OneCopies
  <1>2. CASE Command
    <2>1. hazard = "none" /\ \A e \in Dumpers : pc'[e] \in Frozen => pc[e] \in Frozen
      BY <1>2, CommandPC DEF Outside, Frozen
    <2>2. state' = "READY" => state = "READY" \/ \A e \in Dumpers : pc[e] \notin Frozen
      BY <1>2, CommandPC DEF Copiers
    <2> QED
      BY <2>1, <2>2 DEF FrozenWhileCopying, OneCopies
  <1>3. ASSUME NEW d \in Dumpers, Request(d) \/ Step(d)
        PROVE  Goal
    <2>1. \A e \in Dumpers : e # d => pc'[e] = pc[e]
      BY <1>3, OthersStay
    <2>2. CASE Freeze(d)
      <3>1. hazard = "none" /\ Copiers = {} /\ state' = "SENDING"
        BY <2>2 DEF Freeze, Meets
      <3>2. \A e \in Dumpers : pc[e] \notin Frozen
        BY <3>1 DEF Copiers
      <3> QED
        BY <2>1, <3>1, <3>2
    <2>3. CASE Exit(d)
      <3>1. hazard = "none" /\ pc[d] \in Frozen /\ pc'[d] = "idle"
        BY <2>3 DEF Exit, Return, Goto, TypeOK, Frozen
      <3>2. \A e \in Dumpers : e # d => pc[e] \notin Frozen
        BY <3>1 DEF OneCopies
      <3>3. \A e \in Dumpers : pc'[e] \notin Frozen
        BY <2>1, <3>1, <3>2 DEF Frozen
      <3> QED
        BY <3>3
    <2>4. CASE ~Freeze(d) /\ ~Exit(d)
      <3>1. ~NoMemory(d)
        BY DEF NoMemory
      <3>2. state' = state /\ hazard = "none" /\ (pc'[d] \in Frozen => pc[d] \in Frozen)
        BY <1>3, <2>4, <3>1, Quiet
      <3>3. \A e \in Dumpers : pc'[e] \in Frozen => pc[e] \in Frozen
        BY <2>1, <3>2
      <3> QED
        BY <3>2, <3>3 DEF FrozenWhileCopying, OneCopies
    <2> QED
      BY <2>2, <2>3, <2>4
  <1> QED
    BY <1>1, <1>2, <1>3 DEF Next

\* The calls that are not watched leave the ghosts alone, and every call the
\* log.
LEMMA Unwatched ==
  ASSUME TypeOK, NEW d \in Dumpers, Request(d) \/ Step(d)
  PROVE  /\ read' = read /\ write' = write
         /\ d # Watched => out' = out /\ ok' = ok /\ spoilt' = spoilt
  <1>1. CASE Empty(d) \/ NotReady(d) \/ NoMemory(d) \/ Exit(d)
    <2>1. /\ Return(d) /\ (d # Watched => ok' = ok)
      BY <1>1 DEF Empty, NotReady, NoMemory, Exit
    <2> QED
      BY <2>1 DEF Return, log, TypeOK
  <1>2. CASE Freeze(d)
    BY <1>2 DEF Freeze, log, TypeOK
  <1>3. CASE Request(d) \/ Measure(d) \/ Ready(d) \/ Locate(d) \/ ReadFlash(d)
    BY <1>3 DEF Request, Measure, Ready, Locate, ReadFlash, log, ghost
  <1>4. CASE ReadFails(d) \/ Busy(d) \/ Send(d) \/ SendFails(d) \/ AllSent(d)
    BY <1>4 DEF ReadFails, Busy, Send, SendFails, AllSent, log, ghost
  <1> QED
    BY <1>1, <1>2, <1>3, <1>4 DEF Step

\* Where a call that is watched is after its steps.
LEMMA WatchedPC ==
  ASSUME TypeOK, NEW d \in Dumpers
  PROVE  /\ Request(d) => pc[d] = "idle" /\ pc'[d] = "measure"
         /\ Measure(d) => pc[d] = "measure" /\ pc'[d] = "check"
         /\ Ready(d) => pc[d] = "check" /\ pc'[d] = "freeze"
         /\ Freeze(d) => pc[d] = "freeze" /\ pc'[d] = "locate"
         /\ Locate(d) => pc[d] = "locate" /\ pc'[d] = "copy"
         /\ ReadFlash(d) => pc[d] = "copy" /\ pc'[d] = "send"
         /\ ReadFails(d) \/ AllSent(d) => pc[d] = "copy" /\ pc'[d] = "exit"
         /\ SendFails(d) => pc[d] = "send" /\ pc'[d] = "exit"
         /\ Busy(d) \/ Send(d) => pc[d] = "send" /\ pc'[d] = "copy"
         /\ Empty(d) => pc[d] = "measure" /\ Return(d)
         /\ NotReady(d) => pc[d] = "check" /\ Return(d)
         /\ NoMemory(d) => pc[d] = "locate" /\ Return(d)
         /\ Exit(d) => pc[d] = "exit" /\ Return(d)
         /\ Return(d) => pc'[d] = "idle"
  <1>1. \A l : Goto(d, l) => pc'[d] = l
    BY DEF Goto, TypeOK
  <1> QED
    BY <1>1 DEF Request, Measure, Ready, Freeze, Locate, ReadFlash, ReadFails, AllSent,
                SendFails, Busy, Send, Empty, NotReady, NoMemory, Exit, Return

\* The size that was measured is in the log until the reader is moved.
LEMMA LeftStep == TypeOK /\ LeftInv /\ [Next]_vars => LeftInv'
  <1> SUFFICES ASSUME TypeOK, LeftInv, [Next]_vars, ~spoilt'
               PROVE  /\ pc'[Watched] = "measure" /\ want'[Watched] # All
                         => want'[Watched] * KB <= UsageBytes'
                      /\ pc'[Watched] \in {"check", "freeze", "locate"}
                         => left'[Watched] \in 1 .. UsageBytes'
    BY DEF LeftInv
  <1> DEFINE Goal == /\ pc'[Watched] = "measure" /\ want'[Watched] # All
                        => want'[Watched] * KB <= UsageBytes'
                     /\ pc'[Watched] \in {"check", "freeze", "locate"}
                        => left'[Watched] \in 1 .. UsageBytes'
  <1>1. /\ Watched \in Dumpers /\ want[Watched] \in 0 .. All
        /\ left[Watched] \in 0 .. SIZE /\ read \in Addr /\ write \in Addr
    BY SizesAssumption DEF TypeOK
  <1>2. UsageBytes \in 0 .. SIZE - 1
    BY <1>1, Usage
  <1>3. ASSUME pc'[Watched] = pc[Watched], want'[Watched] = want[Watched],
               left'[Watched] = left[Watched], UsageBytes' = UsageBytes,
               spoilt' = spoilt
        PROVE  Goal
    BY <1>3 DEF LeftInv
  <1>4. CASE AddToLog
    <2>1. /\ ~spoilt /\ pc' = pc /\ want' = want /\ left' = left
          /\ pc[Watched] \in Outside \/ (write + 1) % SIZE # read
      BY <1>4 DEF AddToLog, UnderWay, local, TypeOK
    <2>2. CASE pc[Watched] \in Outside
      BY <2>1, <2>2 DEF Outside
    <2>3. CASE (write + 1) % SIZE # read
      <3>1. UsageBytes' = UsageBytes + 1
        BY <1>4, <2>3, Longer
      <3>2. want[Watched] * KB \in Nat
        BY <1>1, Sizes DEF All
      <3> QED
        BY <1>2, <2>1, <3>1, <3>2, Sizes DEF LeftInv
    <2> QED
      BY <2>1, <2>2, <2>3
  <1>5. CASE UNCHANGED vars
    BY <1>3, <1>5 DEF vars, UsageBytes
  <1>6. CASE Command
    <2>1. ~spoilt /\ (UnderWay => read' = read /\ write' = write)
      BY <1>6, CommandFacts DEF log
    <2>2. CASE UnderWay
      <3>1. pc'[Watched] = pc[Watched] /\ want' = want /\ left' = left
        BY <1>1, <1>6, <2>2, CommandFacts, CommandPC DEF UnderWay
      <3>2. UsageBytes' = UsageBytes
        BY <2>1, <2>2 DEF UsageBytes
      <3> QED
        BY <2>1, <3>1, <3>2 DEF LeftInv
    <2>3. CASE ~UnderWay
      BY <1>1, <1>6, <2>3, CommandPC DEF UnderWay, Outside
    <2> QED
      BY <2>2, <2>3
  <1>7. ASSUME NEW d \in Dumpers, Request(d) \/ Step(d)
        PROVE  Goal
    <2>1. UsageBytes' = UsageBytes
      BY <1>7, Unwatched DEF UsageBytes
    <2>2. CASE d # Watched
      BY <1>1, <1>3, <1>7, <2>1, <2>2, OthersStay, Unwatched
    <2>3. CASE d = Watched /\ Request(Watched)
      <3>1. pc'[Watched] = "measure"
        BY <1>1, <2>3, WatchedPC
      <3>2. PICK s \in 0 .. All :
              want'[Watched] = IF s = All \/ s >= UsageKB THEN All ELSE s
        BY <1>1, <2>3 DEF Request, TypeOK
      <3>3. \A k \in Nat : k < UsageKB => k * KB <= UsageBytes
        BY <1>1, Usage
      <3>4. UsageKB \in 0 .. FLASHKB
        BY <1>1, Usage
      <3> QED
        BY <2>1, <3>1, <3>2, <3>3, <3>4, Sizes DEF All
    <2>4. CASE d = Watched /\ Measure(Watched)
      <3>1. /\ pc[Watched] = "measure" /\ pc'[Watched] = "check" /\ spoilt' = spoilt
            /\ left'[Watched] = Size(Watched) /\ Size(Watched) # 0
        BY <1>1, <2>4, WatchedPC DEF Measure, ghost, TypeOK
      <3>2. want[Watched] * KB \in Nat
        BY <1>1, Sizes DEF All
      <3>3. Size(Watched) \in 1 .. UsageBytes
        BY <1>2, <3>1, <3>2, Sizes DEF LeftInv, Size
      <3> QED
        BY <2>1, <3>1, <3>3
    <2>5. CASE d = Watched /\ (Ready(Watched) \/ Freeze(Watched))
      <3>1. /\ pc[Watched] \in {"check", "freeze"}
            /\ pc'[Watched] \in {"freeze", "locate"}
        BY <1>1, <2>5, WatchedPC
      <3>2. spoilt' = spoilt /\ left' = left
        BY <2>5 DEF Ready, Freeze, local, ghost
      <3> QED
        BY <2>1, <3>1, <3>2 DEF LeftInv
    <2>6. CASE d = Watched /\ pc'[Watched] \notin {"measure", "check", "freeze", "locate"}
      BY <2>6
    <2> QED
      BY <1>1, <1>7, <2>2, <2>3, <2>4, <2>5, <2>6, WatchedPC DEF Step
  <1> QED
    BY <1>4, <1>5, <1>6, <1>7 DEF Next

\* Nothing is handed over but by a copy, and none ends but by its result.
LEMMA GhostStep == TypeOK /\ GhostInv /\ [Next]_vars => GhostInv'
  <1> SUFFICES ASSUME TypeOK, GhostInv, [Next]_vars PROVE GhostInv'
    OBVIOUS
  <1>1. Watched \in Dumpers
    BY SizesAssumption
  <1>2. CASE AddToLog
    BY <1>2 DEF AddToLog, GhostInv, Copying
  <1>3. CASE UNCHANGED vars
    BY <1>3 DEF vars, GhostInv, Copying
  <1>4. CASE Command
    <2>1. Copying' = Copying
      BY <1>1, <1>4, CommandPC DEF Copying, Outside, Frozen
    <2>2. out' = out /\ ok' = ok /\ (spoilt => spoilt')
      BY <1>4, CommandFacts
    <2> QED
      BY <2>1, <2>2 DEF GhostInv
  <1>5. ASSUME NEW d \in Dumpers, Request(d) \/ Step(d)
        PROVE  GhostInv'
    <2>1. CASE d # Watched
      BY <1>1, <1>5, <2>1, OthersStay, Unwatched DEF GhostInv, Copying
    <2>2. CASE d = Watched /\ Return(Watched)
      BY <1>1, <2>2, WatchedPC DEF Return, GhostInv, Copying, Frozen
    <2>3. CASE d = Watched /\ Freeze(Watched)
      <3>1. pc[Watched] = "freeze" /\ pc'[Watched] = "locate"
        BY <1>1, <2>3, WatchedPC
      <3> QED
        BY <2>3, <3>1 DEF Freeze, GhostInv, Copying, Frozen
    <2>4. CASE d = Watched /\ (Request(Watched) \/ Measure(Watched) \/ Ready(Watched))
      <3>1. pc[Watched] \notin Frozen /\ pc'[Watched] \notin Frozen
        BY <1>1, <2>4, WatchedPC DEF Frozen
      <3>2. out' = out
        BY <2>4 DEF Request, Measure, Ready, ghost
      <3> QED
        BY <3>1, <3>2 DEF GhostInv, Copying
    <2>5. CASE d = Watched /\ pc[Watched] \in Frozen /\ pc'[Watched] \in Frozen
               /\ ok' = ok /\ spoilt' = spoilt
      BY <2>5 DEF GhostInv, Copying
    <2>6. Locate(d) \/ ReadFlash(d) \/ ReadFails(d) \/ Busy(d) \/ Send(d) \/ SendFails(d)
          \/ AllSent(d) => ok' = ok /\ spoilt' = spoilt
      BY DEF Locate, ReadFlash, ReadFails, Busy, Send, SendFails, AllSent, ghost
    <2>7. Locate(d) \/ ReadFlash(d) \/ ReadFails(d) \/ Busy(d) \/ Send(d) \/ SendFails(d)
          \/ AllSent(d) => pc[d] \in Frozen /\ pc'[d] \in Frozen
      BY WatchedPC DEF Frozen
    <2> QED
      BY <1>5, <2>1, <2>2, <2>3, <2>4, <2>5, <2>6, <2>7, WatchedPC DEF Step
  <1> QED
    BY <1>2, <1>3, <1>4, <1>5 DEF Next

\* Where n bytes of the log start: with the oldest or with the newest of them,
\* and then, for all of the log or one that has not wrapped, they end where the
\* writer is.
LEMMA Start ==
  ASSUME read \in Addr, write \in Addr, NEW n \in 1 .. UsageBytes
  PROVE  LET U == UsageBytes
             s == ReadStart(n)
         IN  /\ s \in Addr
             /\ \/ s = read
                \/ s = read + (U - n) \/ s + SIZE = read + (U - n)
             /\ n = U \/ read < write => s + n = write \/ s + n = write + SIZE
  <1>1. CASE write > read
    BY <1>1, Sizes DEF ReadStart, UsageBytes, Addr
  <1>2. CASE write < read
    BY <1>2, Sizes DEF ReadStart, UsageBytes, Addr
  <1>3. CASE write = read
    BY <1>3, Sizes DEF UsageBytes, Addr
  <1> QED
    BY <1>1, <1>2, <1>3 DEF Addr

\* ... which is what a dump is to end with.
LEMMA LeftEndsAtNewest == TypeOK /\ LeftInv => EndsAtNewest
  <1> SUFFICES ASSUME TypeOK, LeftInv, pc[Watched] = "locate", ~spoilt,
                      left[Watched] = UsageBytes \/ read < write
               PROVE  (ReadStart(left[Watched]) + left[Watched]) % SIZE = write
    BY DEF EndsAtNewest, EndsAtWriter
  <1> DEFINE n == left[Watched]
             s == ReadStart(n)
             x == s + n
  <1>1. read \in Addr /\ write \in Addr /\ n \in 1 .. UsageBytes
    BY DEF TypeOK, LeftInv
  <1> HIDE DEF n
  <1>2. n = UsageBytes \/ read < write
    BY DEF n
  <1>3. s \in Addr /\ (s + n = write \/ s + n = write + SIZE)
    BY <1>1, <1>2, Start
  <1> HIDE DEF s
  <1>4. UsageBytes \in 0 .. SIZE - 1
    BY <1>1, Usage
  <1>5. x \in 0 .. 2 * SIZE - 1 /\ (x = write \/ x = write + SIZE)
    BY <1>1, <1>3, <1>4, Sizes DEF Addr
  <1> HIDE DEF x
  <1>6. x % SIZE = IF x < SIZE THEN x ELSE x - SIZE
    BY <1>5, Around
  <1>7. x % SIZE = write
    BY <1>1, <1>5, <1>6, Sizes DEF Addr
  <1> QED
    BY <1>7 DEF x, s, n

-----------------------------------------------------------------------------
(* The theorems about the calls.                                           *)

\* What the code starts with satisfies the inductive invariant.
LEMMA InitIInv == Init => IInv
  <1> SUFFICES ASSUME Init PROVE IInv
    OBVIOUS
  <1>1. Watched \in Dumpers
    BY SizesAssumption
  <1>2. \A d \in Dumpers : pc[d] = "idle"
    BY DEF Init
  <1> QED
    BY <1>1, <1>2, InitType DEF Init, IInv, SendInv, FrozenWhileCopying, OneCopies, LeftInv,
                    GhostInv, Copying, Frozen

\* Every state the calls, the Logger task and the interrupt can reach satisfies the invariant.
LEMMA Inductive == Init /\ [][Next]_vars => []IInv
  <1>1. IInv /\ [Next]_vars => IInv'
    BY TypeStep, SendStep, FrozenStep, LeftStep, GhostStep DEF IInv
  <1> QED
    BY InitIInv, <1>1, PTL

\* Every variable holds a value of its kind; pointers, and where each call is
\* in the log, stay in the segment.
THEOREM TypeCorrect == Spec => []TypeOK
  <1>1. IInv => TypeOK
    BY DEF IInv
  <1> QED
    BY <1>1, Inductive, PTL DEF Spec

\* No chunk reaches past the end of the segment (the assertion on Iter in
\* Logger_SendDebugLog).
THEOREM ReadsInSegment == Spec => []ReadInSegment
  <1>1. ASSUME IInv PROVE ReadInSegment
    <2> SUFFICES ASSUME NEW d \in Dumpers, pc[d] = "send"
                 PROVE  iter[d] + Len(buff[d]) <= SIZE
      BY DEF ReadInSegment
    <2>1. /\ left[d] \in Nat \ {0} /\ iter[d] \in Addr
          /\ buff[d] = Bytes(iter[d], ChunkSize(d))
      BY <1>1 DEF IInv, TypeOK, SendInv
    <2>2. ChunkSize(d) \in 1 .. left[d] /\ iter[d] + ChunkSize(d) <= SIZE
      BY <2>1, Chunk
    <2>3. iter[d] \in Nat /\ ChunkSize(d) \in Nat
      BY <2>1, <2>2 DEF Addr
    <2>4. Len(Bytes(iter[d], ChunkSize(d))) = ChunkSize(d)
      BY <2>3, BytesAre
    <2> QED
      BY <2>1, <2>2, <2>4
  <1> QED
    BY <1>1, Inductive, PTL DEF Spec

\* Unless the Logger task set State READY under it, or two calls passed the check of it,
\* the interrupt is kept off the log that is copied.
THEOREM StaysFrozen == Spec => []FrozenWhileCopying
  <1>1. IInv => FrozenWhileCopying
    BY DEF IInv
  <1> QED
    BY <1>1, Inductive, PTL DEF Spec

\* Logger_GetFlashReadStartAddress: a dump ends with the newest byte.
THEOREM DumpEndsAtNewest == Spec => []EndsAtNewest
  <1>1. IInv => EndsAtNewest
    BY LeftEndsAtNewest DEF IInv
  <1> QED
    BY <1>1, Inductive, PTL DEF Spec

-----------------------------------------------------------------------------
(* The watched call is a copy.                                             *)

\* The variables of CopyOut, as Copy maps them.
Log  == Bytes(read, UsageBytes)
From == IF pc[Watched] = "locate" THEN ReadStart(left[Watched]) ELSE iter[Watched]
Todo == IF Copying /\ ~spoilt THEN Bytes(From, left[Watched]) ELSE <<>>
St   == IF ~Copying THEN "idle" ELSE IF spoilt THEN "void" ELSE "copying"

\* The log is a sequence of bytes.
LEMMA LogIs ==
  ASSUME TypeOK
  PROVE  /\ read \in Addr /\ write \in Addr /\ UsageBytes \in 0 .. SIZE - 1
         /\ Log \in Seq(Addr) /\ Len(Log) = UsageBytes
  <1>1. read \in Addr /\ write \in Addr
    BY DEF TypeOK
  <1>2. UsageBytes \in 0 .. SIZE - 1
    BY <1>1, Usage
  <1>3. read \in Nat /\ UsageBytes \in Nat
    BY <1>1, <1>2, Sizes DEF Addr
  <1> QED
    BY <1>1, <1>2, <1>3, BytesAre DEF Log

\* A piece of the log as long as it is asked for is at one of its ends.
LEMMA StartIsAnEnd ==
  ASSUME TypeOK, NEW n \in 1 .. UsageBytes
  PROVE  \/ Bytes(ReadStart(n), n) = SubSeq(Log, 1, n)
         \/ Bytes(ReadStart(n), n) = SubSeq(Log, Len(Log) - n + 1, Len(Log))
  <1> DEFINE U == UsageBytes
             s == ReadStart(n)
             k == U - n
  <1>1. /\ read \in Addr /\ write \in Addr /\ U \in 0 .. SIZE - 1 /\ Len(Log) = U
    BY LogIs
  <1>2. s \in Addr /\ (s = read \/ s = read + k \/ s + SIZE = read + k)
    BY <1>1, Start
  <1> HIDE DEF U, s
  <1>3. U \in Nat /\ n \in 0 .. U /\ k \in 0 .. U /\ read \in Nat /\ s \in Nat
        /\ U - k = n /\ k + 1 = U - n + 1
    BY <1>1, <1>2, Sizes DEF Addr, U
  <1> HIDE DEF k
  <1>4. SubSeq(Bytes(read, U), 1, n) = Bytes(read, n)
    BY <1>3, BytesCut
  <1>5. SubSeq(Bytes(read, U), k + 1, U) = Bytes(read + k, U - k)
    BY <1>3, BytesCut
  <1>6. Bytes(s + SIZE, n) = Bytes(s, n)
    BY <1>3, BytesLap
  <1>7. CASE s = read
    BY <1>4, <1>7 DEF Log, U, s
  <1>8. CASE s = read + k
    BY <1>1, <1>3, <1>5, <1>8 DEF Log, U, s
  <1>9. CASE s + SIZE = read + k
    BY <1>1, <1>3, <1>5, <1>6, <1>9 DEF Log, U, s
  <1> QED
    BY <1>2, <1>7, <1>8, <1>9

\* A log that is idle begins as the abstract one does.
LEMMA InitCopies == Init => Copy!Init
  <1> SUFFICES ASSUME Init PROVE Copy!Init
    OBVIOUS
  <1>1. TypeOK /\ Watched \in Dumpers
    BY InitType, SizesAssumption
  <1>2. ~Copying
    BY <1>1 DEF Init, Copying, Frozen
  <1> QED
    BY <1>1, <1>2, LogIs DEF Init, Copy!Init, Log

\* It is so after every step that leaves the pointers in the segment.
LEMMA LogStays ==
  ASSUME read' \in Addr, write' \in Addr
  PROVE  Log' \in Seq(Addr)
  <1>1. UsageBytes' \in 0 .. SIZE - 1
    <2>1. UsageBytes' = IF write' >= read' THEN write' - read' ELSE SIZE - (read' - write')
      BY DEF UsageBytes
    <2>2. read' \in 0 .. SIZE - 1 /\ write' \in 0 .. SIZE - 1
      BY DEF Addr
    <2>3. \A r, w \in 0 .. SIZE - 1 :
            (IF w >= r THEN w - r ELSE SIZE - (r - w)) \in 0 .. SIZE - 1
      BY Sizes
    <2> QED
      BY <2>1, <2>2, <2>3
  <1>2. read' \in Nat /\ UsageBytes' \in Nat
    BY <1>1, Sizes DEF Addr
  <1>3. Bytes(read', UsageBytes') \in Seq(Addr)
    BY <1>2, BytesAre
  <1> QED
    BY <1>3 DEF Log

\* The interrupt writes the log of a copy that is idle, or spoils it.
LEMMA AddToLogCopies ==
  ASSUME IInv, AddToLog
  PROVE  Copy!Write \/ Copy!Spoil
  <1>1. Log' \in Seq(Addr)
    BY Longer, LogStays DEF IInv
  <1>2. Copying' = Copying /\ out' = out /\ ok' = ok
    BY DEF AddToLog, Copying
  <1>3. CASE ~Copying
    <2>1. Todo = <<>> /\ Todo' = <<>> /\ St = "idle" /\ St' = "idle"
      BY <1>2, <1>3 DEF Todo, St
    <2> QED
      BY <1>1, <1>2, <2>1 DEF Copy!Write, Log, Todo, St, From
  <1>4. CASE Copying
    <2>1. spoilt'
      BY <1>4 DEF AddToLog, Copying
    <2>2. Todo' = <<>> /\ St \in {"copying", "void"} /\ St' = "void"
      BY <1>2, <1>4, <2>1 DEF Todo, St
    <2> QED
      BY <1>1, <1>2, <2>2 DEF Copy!Spoil, Log, Todo, St, From
  <1> QED
    BY <1>3, <1>4

\* What the Logger task serves writes the log, spoils the copy, or is nothing
\* to it.
LEMMA CommandCopies ==
  ASSUME IInv, Command
  PROVE  Copy!Write \/ Copy!Spoil \/ UNCHANGED Copy!vars
  <1>1. TypeOK /\ Watched \in Dumpers
    BY SizesAssumption DEF IInv
  <1>2. Log' \in Seq(Addr)
    BY <1>1, CommandFacts, LogStays
  <1>3. Copying' = Copying /\ (Copying => pc'[Watched] = pc[Watched])
    BY <1>1, CommandPC DEF Copying, Outside, Frozen
  <1>4. /\ out' = out /\ ok' = ok /\ left' = left /\ iter' = iter
        /\ spoilt' = (spoilt \/ (UnderWay /\ log' # log))
    BY <1>1, CommandFacts
  <1>5. CASE ~Copying
    <2>1. Todo = <<>> /\ Todo' = <<>> /\ St = "idle" /\ St' = "idle"
      BY <1>3, <1>5 DEF Todo, St
    <2> QED
      BY <1>2, <1>4, <2>1 DEF Copy!Write, Log, Todo, St, From
  <1>6. CASE Copying /\ log' # log
    <2>1. spoilt'
      BY <1>4, <1>6 DEF Copying, UnderWay, Frozen, Outside
    <2>2. Todo' = <<>> /\ St \in {"copying", "void"} /\ St' = "void"
      BY <1>3, <1>6, <2>1 DEF Todo, St
    <2> QED
      BY <1>2, <1>4, <2>2 DEF Copy!Spoil, Log, Todo, St, From
  <1>7. CASE Copying /\ log' = log
    <2>1. read' = read /\ write' = write /\ spoilt' = spoilt
      BY <1>1, <1>4, <1>7 DEF log, TypeOK
    <2>2. Log' = Log /\ Todo' = Todo /\ St' = St
      BY <1>3, <1>4, <1>7, <2>1
         DEF Log, Todo, St, From, Bytes, UsageBytes, ReadStart
    <2> QED
      BY <1>4, <2>2 DEF Copy!vars, Log, Todo, St, From
  <1> QED
    BY <1>5, <1>6, <1>7

\* The watched call begins a copy when it freezes the log.
LEMMA FreezeCopies ==
  ASSUME IInv, Freeze(Watched)
  PROVE  Copy!Begin \/ Copy!BeginVoid
  <1> DEFINE n == left[Watched]
  <1>1. TypeOK /\ LeftInv /\ GhostInv /\ Watched \in Dumpers
    BY SizesAssumption DEF IInv
  <1>2. pc[Watched] = "freeze" /\ pc'[Watched] = "locate" /\ ~Copying /\ Copying'
    BY <1>1, WatchedPC DEF Copying, Frozen
  <1>3. /\ read' = read /\ write' = write /\ left' = left /\ iter' = iter
        /\ out' = out /\ spoilt' = spoilt /\ ~ok'
        /\ UsageBytes' = UsageBytes
    BY DEF Freeze, log, local, UsageBytes
  <1>4. Log' = Log /\ St = "idle" /\ Todo = <<>>
    BY <1>2, <1>3 DEF Log, Bytes, St, Todo
  <1>5. ok' = FALSE
    BY SizesAssumption DEF Freeze
  <1>6. CASE spoilt
    <2>1. Todo' = <<>> /\ St' = "void"
      BY <1>2, <1>3, <1>6 DEF Todo, St
    <2> QED
      BY <1>3, <1>4, <1>5, <2>1 DEF Copy!BeginVoid, Log, Todo, St, From
  <1>7. CASE ~spoilt
    <2>1. n \in 1 .. UsageBytes
      BY <1>1, <1>2, <1>7 DEF LeftInv
    <2>2. Todo' = Bytes(ReadStart(n), n) /\ St' = "copying"
      BY <1>2, <1>3, <1>7 DEF Todo, St, From, ReadStart
    <2>3. n \in 1 .. Len(Log)
      BY <1>1, <2>1, LogIs
    <2>4. \/ Todo' = SubSeq(Log, 1, n)
          \/ Todo' = SubSeq(Log, Len(Log) - n + 1, Len(Log))
      BY <1>1, <2>1, <2>2, StartIsAnEnd
    <2> HIDE DEF n
    <2>5. \E k \in 1 .. Len(Log) : \/ Todo' = SubSeq(Log, 1, k)
                                   \/ Todo' = SubSeq(Log, Len(Log) - k + 1, Len(Log))
      BY <2>3, <2>4
    <2> QED
      BY <1>3, <1>4, <1>5, <2>2, <2>5
         DEF Copy!Begin, Copy!Oldest, Copy!Newest, Log, Todo, St, From
  <1> QED
    BY <1>6, <1>7

\* A chunk that the destination takes is handed over.
LEMMA SendCopies ==
  ASSUME IInv, Send(Watched)
  PROVE  Copy!HandOver \/ UNCHANGED Copy!vars
  <1> DEFINE n == left[Watched]
             a == iter[Watched]
             k == ChunkSize(Watched)
  <1>1. TypeOK /\ SendInv /\ Watched \in Dumpers
    BY SizesAssumption DEF IInv
  <1>2. pc[Watched] = "send" /\ pc'[Watched] = "copy" /\ Copying /\ Copying'
    BY <1>1, WatchedPC DEF Copying, Frozen
  <1>3. n \in Nat \ {0} /\ a \in Addr /\ buff[Watched] = Bytes(a, k)
    BY <1>1, <1>2 DEF TypeOK, SendInv
  <1>4. k \in 1 .. n /\ a + k <= SIZE
    BY <1>3, Chunk
  <1>5. /\ read' = read /\ write' = write /\ spoilt' = spoilt /\ ok' = ok
        /\ UsageBytes' = UsageBytes /\ Log' = Log
        /\ left'[Watched] = n - k
        /\ iter'[Watched] = IF a + k >= SIZE THEN 0 ELSE a + k
        /\ out' = IF ~spoilt THEN out \o buff[Watched] ELSE out
    BY <1>1 DEF Send, log, TypeOK, UsageBytes, Log, Bytes
  <1> HIDE DEF n, a, k
  <1>6. CASE spoilt
    <2>1. Todo = <<>> /\ Todo' = <<>> /\ St = "void" /\ St' = "void" /\ out' = out
      BY <1>2, <1>5, <1>6 DEF Todo, St
    <2> QED
      BY <1>5, <2>1 DEF Copy!vars, Log, Todo, St, From
  <1>7. CASE ~spoilt
    <2>1. Todo = Bytes(a, n) /\ St = "copying" /\ St' = "copying"
      BY <1>2, <1>5, <1>7 DEF Todo, St, From, n, a
    <2>2. Todo' = Bytes(iter'[Watched], n - k)
      BY <1>2, <1>5, <1>7 DEF Todo, From
    <2>3. a \in Nat /\ n \in Nat /\ k \in 0 .. n /\ n - k \in Nat
      BY <1>3, <1>4, Sizes DEF Addr
    <2>4. SubSeq(Bytes(a, n), 1, k) = Bytes(a, k)
      BY <2>3, BytesCut
    <2>5. SubSeq(Bytes(a, n), k + 1, n) = Bytes(a + k, n - k)
      BY <2>3, BytesCut
    <2>6. Len(Bytes(a, n)) = n
      BY <2>3, BytesAre
    <2>7. Bytes(iter'[Watched], n - k) = Bytes(a + k, n - k)
      <3>1. CASE a + k >= SIZE
        <4>1. iter'[Watched] = 0 /\ a + k = 0 + SIZE
          BY <1>3, <1>4, <1>5, <3>1, Sizes DEF Addr
        <4>2. Bytes(0 + SIZE, n - k) = Bytes(0, n - k)
          BY <2>3, BytesLap
        <4> QED
          BY <4>1, <4>2
      <3>2. CASE ~(a + k >= SIZE)
        BY <1>5, <3>2
      <3> QED
        BY <3>1, <3>2
    <2>8. /\ k \in 1 .. Len(Todo) /\ out' = out \o SubSeq(Todo, 1, k)
          /\ Todo' = SubSeq(Todo, k + 1, Len(Todo))
      BY <1>3, <1>4, <1>5, <1>7, <2>1, <2>2, <2>4, <2>5, <2>6, <2>7
    <2>9. \E i \in 1 .. Len(Todo) : /\ out' = out \o SubSeq(Todo, 1, i)
                                    /\ Todo' = SubSeq(Todo, i + 1, Len(Todo))
      BY <2>8
    <2> QED
      BY <1>5, <2>1, <2>9 DEF Copy!HandOver, Log, Todo, St, From
  <1> QED
    BY <1>6, <1>7

\* A call that leaves after it froze the log completes its copy when nothing is
\* left, and gives up otherwise.
LEMMA LeaveCopies ==
  ASSUME IInv, Exit(Watched) \/ NoMemory(Watched)
  PROVE  Copy!Complete \/ Copy!GiveUp \/ Copy!EndVoid
  <1>1. TypeOK /\ TypeOK' /\ GhostInv /\ Watched \in Dumpers
    BY TypeStep, SizesAssumption DEF IInv, Next, Step
  <1>2. /\ pc[Watched] \in {"locate", "exit"} /\ pc'[Watched] = "idle"
        /\ Return(Watched) /\ Copying /\ ~Copying'
    BY <1>1, WatchedPC DEF Copying, Frozen
  <1>3. /\ read' = read /\ write' = write /\ out' = <<>> /\ ok' \in BOOLEAN
        /\ UsageBytes' = UsageBytes /\ Log' = Log
    BY <1>1, <1>2 DEF Return, log, TypeOK, UsageBytes, Log, Bytes
  <1>4. Todo' = <<>> /\ St' = "idle"
    BY <1>2 DEF Todo, St
  <1>5. CASE spoilt
    <2>1. Todo = <<>> /\ St = "void"
      BY <1>2, <1>5 DEF Todo, St
    <2> QED
      BY <1>3, <1>4, <2>1 DEF Copy!EndVoid, Log, Todo, St, From
  <1>6. CASE ~spoilt /\ ok' = ok
    <2>1. St = "copying"
      BY <1>2, <1>6 DEF St
    <2> QED
      BY <1>3, <1>4, <1>6, <2>1 DEF Copy!GiveUp, Log, Todo, St, From
  <1>7. CASE ~spoilt /\ ok' # ok
    <2>1. ok' = TRUE /\ ok = FALSE
      BY <1>1, <1>2, <1>7 DEF TypeOK, GhostInv
    <2>2. Exit(Watched) /\ left[Watched] <= 0
      BY <1>7, <2>1 DEF Exit, NoMemory
    <2>3. left[Watched] = 0 /\ iter[Watched] \in Nat /\ pc[Watched] = "exit"
      <3>1. left[Watched] \in 0 .. SIZE /\ iter[Watched] \in Addr
        BY <1>1 DEF TypeOK
      <3>2. left[Watched] = 0 /\ iter[Watched] \in Nat
        BY <2>2, <3>1, Sizes DEF Addr
      <3>3. pc[Watched] = "exit"
        BY <2>2, WatchedPC DEF Exit
      <3> QED
        BY <3>2, <3>3
    <2>4. Todo = Bytes(iter[Watched], 0) /\ St = "copying"
      BY <1>2, <1>7, <2>3 DEF Todo, St, From
    <2>5. Todo = <<>>
      BY <2>3, <2>4, BytesAre, EmptySeq
    <2> QED
      BY <1>3, <1>4, <2>1, <2>4, <2>5 DEF Copy!Complete, Log, Todo, St, From
  <1> QED
    BY <1>5, <1>6, <1>7

\* Everything else the watched call does, and all the other calls do, is
\* nothing to the copy.
LEMMA RestStutters ==
  ASSUME IInv, NEW d \in Dumpers, Request(d) \/ Step(d),
         d # Watched \/ ~(Freeze(d) \/ Send(d) \/ Exit(d) \/ NoMemory(d))
  PROVE  UNCHANGED Copy!vars
  <1>1. TypeOK /\ GhostInv /\ Watched \in Dumpers
    BY SizesAssumption DEF IInv
  <1>2. /\ read' = read /\ write' = write /\ UsageBytes' = UsageBytes /\ Log' = Log
    BY <1>1, Unwatched DEF UsageBytes, Log, Bytes
  <1>3. ASSUME Todo' = Todo, out' = out, St' = St, ok' = ok
        PROVE  UNCHANGED Copy!vars
    BY <1>2, <1>3 DEF Copy!vars, Log, Todo, St, From
  <1>4. CASE d # Watched
    <2>1. /\ pc'[Watched] = pc[Watched] /\ left'[Watched] = left[Watched]
          /\ iter'[Watched] = iter[Watched] /\ out' = out /\ ok' = ok
          /\ spoilt' = spoilt
      BY <1>1, <1>4, OthersStay, Unwatched
    <2>2. From' = From /\ Copying' = Copying
      BY <1>2, <2>1 DEF From, ReadStart, Copying
    <2>3. Todo' = Todo /\ St' = St
      BY <2>1, <2>2 DEF Todo, St, Bytes
    <2> QED
      BY <1>3, <2>1, <2>3
  <1>5. CASE d = Watched /\ (Request(d) \/ Measure(d) \/ Ready(d) \/ Empty(d) \/ NotReady(d))
    <2>1. ~Copying /\ ~Copying'
      BY <1>1, <1>5, WatchedPC DEF Copying, Frozen
    <2>2. out' = out /\ ok' = ok
      BY <1>1, <1>5, <2>1
         DEF Request, Measure, Ready, Empty, NotReady, Return, ghost, GhostInv
    <2>3. Todo' = Todo /\ St' = St
      BY <2>1 DEF Todo, St
    <2> QED
      BY <1>3, <2>2, <2>3
  <1>6. CASE d = Watched /\ (Locate(d) \/ ReadFlash(d) \/ ReadFails(d) \/ Busy(d)
                             \/ SendFails(d) \/ AllSent(d))
    <2>1. Copying /\ Copying'
      BY <1>1, <1>6, WatchedPC DEF Copying, Frozen
    <2>2. out' = out /\ ok' = ok /\ spoilt' = spoilt /\ left' = left
      BY <1>6 DEF Locate, ReadFlash, ReadFails, Busy, SendFails, AllSent, ghost, local
    <2>3. From' = From
      <3>1. CASE Locate(d)
        <4>1. /\ pc[Watched] = "locate" /\ pc'[Watched] = "copy"
              /\ iter'[Watched] = ReadStart(left[Watched])
          BY <1>1, <1>6, <3>1, WatchedPC DEF Locate, TypeOK
        <4> QED
          BY <4>1 DEF From
      <3>2. CASE ~Locate(d)
        <4>1. pc[Watched] # "locate" /\ pc'[Watched] # "locate"
          BY <1>1, <1>6, <3>2, WatchedPC
        <4>2. iter' = iter
          BY <1>6, <3>2 DEF ReadFlash, ReadFails, Busy, SendFails, AllSent, local
        <4> QED
          BY <4>1, <4>2 DEF From
      <3> QED
        BY <3>1, <3>2
    <2>4. Todo' = Todo /\ St' = St
      BY <2>1, <2>2, <2>3 DEF Todo, St, Bytes
    <2> QED
      BY <1>3, <2>2, <2>4
  <1> QED
    BY <1>4, <1>5, <1>6 DEF Step

\* Every step of the calls and of the interrupt is a step of a copy, or none.
LEMMA NextCopies == IInv /\ [Next]_vars => [Copy!Next]_(Copy!vars)
  <1> SUFFICES ASSUME IInv, [Next]_vars
               PROVE  Copy!Next \/ UNCHANGED Copy!vars
    OBVIOUS
  <1>1. CASE AddToLog
    BY <1>1, AddToLogCopies DEF Copy!Next
  <1>2. CASE Command
    BY <1>2, CommandCopies DEF Copy!Next
  <1>3. CASE UNCHANGED vars
    <2>1. /\ read' = read /\ write' = write /\ pc' = pc /\ left' = left /\ iter' = iter
          /\ out' = out /\ ok' = ok /\ spoilt' = spoilt
      BY <1>3 DEF vars
    <2>2. Log' = Log /\ Todo' = Todo /\ St' = St
      BY <2>1 DEF Log, Todo, St, From, Bytes, UsageBytes, ReadStart, Copying
    <2> QED
      BY <2>1, <2>2 DEF Copy!vars, Log, Todo, St, From
  <1>4. ASSUME NEW d \in Dumpers, Request(d) \/ Step(d)
        PROVE  Copy!Next \/ UNCHANGED Copy!vars
    <2>1. CASE d = Watched /\ Freeze(d)
      BY <2>1, FreezeCopies DEF Copy!Next
    <2>2. CASE d = Watched /\ Send(d)
      BY <2>2, SendCopies DEF Copy!Next
    <2>3. CASE d = Watched /\ (Exit(d) \/ NoMemory(d))
      BY <2>3, LeaveCopies DEF Copy!Next
    <2>4. CASE d # Watched \/ ~(Freeze(d) \/ Send(d) \/ Exit(d) \/ NoMemory(d))
      BY <1>4, <2>4, RestStutters
    <2> QED
      BY <2>1, <2>2, <2>3, <2>4
  <1> QED
    BY <1>1, <1>2, <1>3, <1>4 DEF Next

\* Logger_SendDebugLog hands over every byte of the piece asked for once and in
\* order, over the end of the segment and however often the destination is
\* busy, and succeeds only then; of a log that is written, erased or moved under
\* it, as the Logger task may do to an upload, nothing is promised.
THEOREM DumpIsACopy == Spec => Implements
  <1>1. Init /\ [][Next]_vars => Copy!Init /\ [][Copy!Next]_(Copy!vars)
    BY InitCopies, NextCopies, Inductive, PTL
  <1> QED
    BY <1>1, PTL DEF Spec, Implements, Copy!Spec
=============================================================================
