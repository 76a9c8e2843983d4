--------------------------- MODULE RxParseProofs ---------------------------
(***************************************************************************)
(* What is proved of the formatter, for every size of the ring and of a    *)
(* message, and for every set of numbers that are ints.                    *)
(***************************************************************************)
EXTENDS RxParse, Wraparound, TLAPS

-----------------------------------------------------------------------------
(* The inductive invariant: what a message that starts at b has done to the *)
(* cursor c once p cells have been stored.                                 *)

\* The i-th cell from b, around the ring.
Cell(b, i) == IF b + i < SIZE THEN b + i ELSE b + i - SIZE

\* FirstPart, of a message that starts at b.
Front(b) == IF SIZE - b < MAXRX THEN SIZE - b ELSE MAXRX

Cursors == [w : Nat, max : Nat, k : Nat, ring : [Cells -> Int]]

\* The iterator is p cells past b.  These cells hold characters in their order
\* or blanks, and no other cell holds anything.
Trail(b, c, p) ==
  /\ 0 <= p /\ p < SIZE
  /\ c.w <= SIZE /\ (c.w = b + p \/ c.w = b + p - SIZE)
  /\ \A i \in Cells : i < p => /\ c.ring[Cell(b, i)] # Old
                               /\ Pad <= c.ring[Cell(b, i)]
                               /\ c.ring[Cell(b, i)] <= c.k
  /\ \A i \in Cells : p <= i => c.ring[Cell(b, i)] = Old
  /\ \A i, j \in Cells :
       i < j /\ j < p /\ c.ring[Cell(b, i)] # Pad /\ c.ring[Cell(b, j)] # Pad
       => c.ring[Cell(b, i)] < c.ring[Cell(b, j)]
  /\ p <= c.k + 1
  /\ (\A i \in Cells : i < p => c.ring[Cell(b, i)] # Pad) => p <= c.k

\* All the characters are there, and nothing else.
Whole(b, c, p) ==
  /\ c.k = p
  /\ \A i \in Cells : i < p => c.ring[Cell(b, i)] = i + 1

\* MaxSize is what is left in front of pTail, or of the limit ...
First(b, c, p) == c.w = b + p /\ c.max = Front(b) - p

\* ... and, after a wrap, what is left of the limit.
Second(b, c, p) ==
  /\ b + Front(b) = SIZE /\ Front(b) < MAXRX /\ Front(b) <= p
  /\ c.w = b + p - SIZE /\ c.max = MAXRX - p

Room(b, c, p) == p <= c.k /\ 0 < c.max /\ (First(b, c, p) \/ Second(b, c, p))

\* There is room, unless a conversion that does not renew MaxSize met pTail
\* (r), and until then nothing is missing.
SoundAt(b, c, r, p) ==
  /\ Trail(b, c, p)
  /\ Room(b, c, p) \/ (c.max = 0 /\ r)
  /\ ~r => Whole(b, c, p)

Sound(b, c, r) == \E p \in Cells : SoundAt(b, c, r, p)

\* Every message is shorter than the limit.
Short == MAXMSG < MAXRX

ParseInv ==
  /\ Short
  /\ base \in Nat /\ base <= SIZE /\ at \in Cursors /\ at.k <= MAXMSG
  /\ pc \in Conversions \cup {"text", "done"}
  /\ cut \in BOOLEAN /\ risky \in BOOLEAN
  /\ Sound(base, at, risky)
  /\ at.max = 0 => pc \in {"text", "done"}
  /\ ~risky => ~cut

-----------------------------------------------------------------------------
(* The cursor.                                                             *)

\* What the assumption says of the sizes.
LEMMA Sizes ==
  /\ SIZE \in Nat /\ MAXRX \in Nat /\ DATELEN \in Nat
  /\ 0 < DATELEN /\ DATELEN < MAXRX /\ MAXRX < SIZE /\ MAXMSG \in Nat
  BY SizesAssumption

\* The remainder of what is less than twice the divisor, or negative.
LEMMA OneLap ==
  ASSUME NEW S \in Nat \ {0}, NEW x \in Int
  PROVE  /\ 0 <= x /\ x < S + S => x % S = IF x < S THEN x ELSE x - S
         /\ -S <= x /\ x < 0 => x % S = x + S
  OBVIOUS

\* A cell is a number below SIZE.
LEMMA InCells ==
  ASSUME NEW i \in Cells
  PROVE  i \in Nat /\ i < SIZE
  BY Sizes DEF Cells

\* The cells around the ring are its cells.
LEMMA CellInRing ==
  ASSUME NEW b \in Nat, b <= SIZE, NEW i \in Cells
  PROVE  Cell(b, i) \in Cells /\ Cell(b, i) = (b + i) % SIZE
  <1>1. SIZE \in Nat \ {0} /\ i \in Nat /\ i < SIZE
    BY Sizes DEF Cells
  <1>2. b + i \in Nat /\ b + i < SIZE + SIZE
    BY <1>1
  <1>3. (b + i) % SIZE = IF b + i < SIZE THEN b + i ELSE b + i - SIZE
    BY <1>1, <1>2
  <1> QED
    BY <1>1, <1>3 DEF Cell, Cells

\* What the message may still store behind pHead.
LEMMA Parts ==
  ASSUME base \in Nat, base <= SIZE
  PROVE  /\ FirstPart = Front(base) /\ Front(base) \in Nat /\ Front(base) <= MAXRX
         /\ base + Front(base) <= SIZE
         /\ Front(base) < MAXRX => base + Front(base) = SIZE
         /\ LeftOver \in Nat
         /\ 0 < Front(base) => LeftOver = MAXRX - Front(base)
  <1>1. /\ FirstPart = Front(base) /\ Front(base) \in Nat /\ Front(base) <= MAXRX
        /\ base + Front(base) <= SIZE
        /\ Front(base) < MAXRX => base + Front(base) = SIZE
    BY Sizes DEF FirstPart, Front
  <1>2. MAXRX \in Nat \ {0} /\ MAXRX - Front(base) \in Nat
    BY <1>1, Sizes
  <1>3. LeftOver = (MAXRX - Front(base)) % MAXRX
    BY <1>1 DEF LeftOver
  <1>4. LeftOver \in Nat
    BY <1>2, <1>3, DivMod
  <1>5. ASSUME 0 < Front(base) PROVE LeftOver = MAXRX - Front(base)
    <2>1. MAXRX - Front(base) < MAXRX /\ MAXRX - Front(base) < MAXRX + MAXRX
      BY <1>1, <1>2, <1>5, Sizes
    <2> QED
      BY <2>1, <1>2, <1>3, OneLap
  <1> QED
    BY <1>1, <1>4, <1>5

\* Put stores characters in the cells from the iterator on.
LEMMA PutCursor ==
  ASSUME NEW c \in Cursors, NEW n \in Nat, n <= c.max
  PROVE  /\ Put(c, n) \in Cursors
         /\ Put(c, n).w = c.w + n /\ Put(c, n).max = c.max - n
         /\ Put(c, n).k = c.k + n
         /\ \A x \in Cells :
              Put(c, n).ring[x] = IF c.w <= x /\ x < c.w + n
                                  THEN c.k + 1 + (x - c.w) ELSE c.ring[x]
  <1>1. /\ c.w \in Nat /\ c.max \in Nat /\ c.k \in Nat /\ c.ring \in [Cells -> Int]
        /\ Cells \subseteq Int
    BY Sizes DEF Cursors, Cells
  <1>2. c.w + n \in Nat /\ c.max - n \in Nat /\ c.k + n \in Nat
    BY <1>1
  <1>3. ASSUME NEW x \in Cells
        PROVE  /\ x \in c.w .. c.w + n - 1 <=> c.w <= x /\ x < c.w + n
               /\ (IF x \in c.w .. c.w + n - 1 THEN c.k + 1 + (x - c.w)
                   ELSE c.ring[x]) \in Int
    BY <1>1, <1>3
  <1> QED
    BY <1>1, <1>2, <1>3 DEF Put, Cursors

\* These are the next cells of the message, and hold characters in their order.
LEMMA PutTrail ==
  ASSUME NEW b \in Nat, b <= SIZE, NEW c \in Cursors, NEW p \in Nat, NEW n \in Nat,
         Trail(b, c, p), n <= c.max, c.w + n <= SIZE, p + n < SIZE
  PROVE  Trail(b, Put(c, n), p + n)
  <1> DEFINE d == Put(c, n)
             Seen(i) == c.ring[Cell(b, i)]
             Left(i) == d.ring[Cell(b, i)]
  <1>1. /\ c.w \in Nat /\ c.k \in Nat /\ c.ring \in [Cells -> Int] /\ SIZE \in Nat
        /\ Cells \subseteq Nat
    BY Sizes DEF Cursors, Cells
  <1>2. d.w = c.w + n /\ d.k = c.k + n
    BY PutCursor
  <1>3. c.w = b + p \/ c.w = b + p - SIZE
    BY DEF Trail
  <1>4. ASSUME NEW i \in Cells
        PROVE  /\ Seen(i) \in Int /\ i \in Nat
               /\ Left(i) = IF p <= i /\ i < p + n THEN c.k + 1 + (i - p) ELSE Seen(i)
    <2>1. /\ c.w <= Cell(b, i) /\ Cell(b, i) < c.w + n <=> p <= i /\ i < p + n
          /\ p <= i /\ i < p + n => Cell(b, i) - c.w = i - p
      BY <1>1, <1>3, InCells DEF Cell
    <2>2. Cell(b, i) \in Cells
      BY CellInRing
    <2>3. Left(i) = IF c.w <= Cell(b, i) /\ Cell(b, i) < c.w + n
                    THEN c.k + 1 + (Cell(b, i) - c.w) ELSE Seen(i)
      BY <2>2, PutCursor
    <2> QED
      BY <1>1, <2>1, <2>2, <2>3
  <1>5. /\ \A i \in Cells : i < p => Seen(i) # Old /\ Pad <= Seen(i) /\ Seen(i) <= c.k
        /\ \A i \in Cells : p <= i => Seen(i) = Old
        /\ \A i, j \in Cells : i < j /\ j < p /\ Seen(i) # Pad /\ Seen(j) # Pad
                               => Seen(i) < Seen(j)
        /\ p <= c.k + 1
        /\ (\A i \in Cells : i < p => Seen(i) # Pad) => p <= c.k
    BY DEF Trail
  <1> HIDE DEF d, Seen, Left
  <1>6. ASSUME NEW i \in Cells, i < p + n
        PROVE  Left(i) # Old /\ Pad <= Left(i) /\ Left(i) <= d.k
    BY <1>1, <1>2, <1>4, <1>5, <1>6 DEF Old, Pad
  <1>7. ASSUME NEW i \in Cells, p + n <= i PROVE Left(i) = Old
    BY <1>1, <1>4, <1>5, <1>7
  <1>8. ASSUME NEW i \in Cells, NEW j \in Cells, i < j, j < p + n,
               Left(i) # Pad, Left(j) # Pad
        PROVE  Left(i) < Left(j)
    <2>1. CASE j < p
      BY <1>1, <1>4, <1>5, <1>8, <2>1
    <2>2. CASE p <= j /\ i < p
      BY <1>1, <1>4, <1>5, <1>8, <2>2
    <2>3. CASE p <= j /\ p <= i
      BY <1>1, <1>4, <1>8, <2>3
    <2> QED
      BY <1>1, <2>1, <2>2, <2>3
  <1>9. d.w <= SIZE /\ (d.w = b + (p + n) \/ d.w = b + (p + n) - SIZE)
    BY <1>1, <1>2, <1>3
  <1>10. p + n <= d.k + 1
    BY <1>1, <1>2, <1>5
  <1>11. ASSUME \A i \in Cells : i < p + n => Left(i) # Pad
         PROVE  p + n <= d.k
    <2>1. ASSUME NEW i \in Cells, i < p PROVE Seen(i) # Pad
      <3>1. i < p + n /\ Left(i) = Seen(i)
        BY <1>4, <2>1
      <3> QED
        BY <1>11, <3>1
    <2> QED
      BY <1>1, <1>2, <1>5, <2>1
  <1> QED
    BY <1>6, <1>7, <1>8, <1>9, <1>10, <1>11 DEF Trail, d, Left

\* They hold the very next characters, when none was missing before.
LEMMA PutWhole ==
  ASSUME NEW b \in Nat, b <= SIZE, NEW c \in Cursors, NEW p \in Nat, NEW n \in Nat,
         Trail(b, c, p), Whole(b, c, p), n <= c.max, c.w + n <= SIZE, p + n < SIZE
  PROVE  Whole(b, Put(c, n), p + n)
  <1>1. /\ c.w \in Nat /\ c.k = p /\ c.ring \in [Cells -> Int] /\ SIZE \in Nat
        /\ Cells \subseteq Nat
    BY Sizes DEF Cursors, Cells, Whole
  <1>2. c.w = b + p \/ c.w = b + p - SIZE
    BY DEF Trail
  <1>3. ASSUME NEW i \in Cells, i < p + n
        PROVE  Put(c, n).ring[Cell(b, i)] = i + 1
    <2>1. /\ c.w <= Cell(b, i) /\ Cell(b, i) < c.w + n <=> p <= i /\ i < p + n
          /\ p <= i /\ i < p + n => Cell(b, i) - c.w = i - p
      BY <1>1, <1>2, InCells DEF Cell
    <2>2. Cell(b, i) \in Cells
      BY CellInRing
    <2>3. Put(c, n).ring[Cell(b, i)] = IF c.w <= Cell(b, i) /\ Cell(b, i) < c.w + n
                    THEN c.k + 1 + (Cell(b, i) - c.w) ELSE c.ring[Cell(b, i)]
      BY <2>2, PutCursor
    <2>4. i < p => c.ring[Cell(b, i)] = i + 1
      BY DEF Whole
    <2>5. CASE i < p
      BY <1>1, <2>1, <2>3, <2>4, <2>5
    <2>6. CASE p <= i
      BY <1>1, <1>3, <2>1, <2>3, <2>6
    <2> QED
      BY <1>1, <2>5, <2>6
  <1>4. Put(c, n).k = p + n
    BY <1>1, PutCursor
  <1> QED
    BY <1>3, <1>4 DEF Whole

\* The fields after GoOnAtHead.
LEMMA GoOnRecord ==
  ASSUME NEW c \in Cursors, NEW m \in Nat
  PROVE  GoOnAtHead(c, m) = [w |-> 0, max |-> m, k |-> c.k, ring |-> c.ring]
  <1>1. GoOnAtHead(c, m) = [[c EXCEPT !.w = 0] EXCEPT !.max = m]
    BY Zenon DEF GoOnAtHead
  <1>2. [c EXCEPT !.w = 0] = [w |-> 0, max |-> c.max, k |-> c.k, ring |-> c.ring]
    BY DEF Cursors
  <1> QED
    BY <1>1, <1>2

\* Going on at pHead, with m characters allowed, leaves what was stored.
LEMMA WrapTrail ==
  ASSUME NEW b \in Nat, b <= SIZE, NEW c \in Cursors, NEW p \in Nat, NEW m \in Nat,
         Trail(b, c, p), c.w = SIZE
  PROVE  /\ b + p = SIZE
         /\ GoOnAtHead(c, m) \in Cursors /\ Trail(b, GoOnAtHead(c, m), p)
         /\ Whole(b, c, p) => Whole(b, GoOnAtHead(c, m), p)
         /\ GoOnAtHead(c, m).w = 0 /\ GoOnAtHead(c, m).max = m
         /\ GoOnAtHead(c, m).k = c.k /\ GoOnAtHead(c, m).ring = c.ring
  <1>1. GoOnAtHead(c, m) = [w |-> 0, max |-> m, k |-> c.k, ring |-> c.ring]
    BY GoOnRecord
  <1>2. GoOnAtHead(c, m) \in Cursors
    BY <1>1 DEF Cursors
  <1>3. b + p = SIZE
    BY Sizes DEF Trail
  <1>4. Trail(b, GoOnAtHead(c, m), p)
    BY <1>1, <1>3, Sizes DEF Trail
  <1>5. Whole(b, c, p) => Whole(b, GoOnAtHead(c, m), p)
    BY <1>1 DEF Whole
  <1> QED
    BY <1>1, <1>2, <1>3, <1>4, <1>5

\* So does the wrap at pTail, which keeps MaxSize.
LEMMA WrapAtTailCursor ==
  ASSUME NEW c \in Cursors
  PROVE  WrapAtTail(c) = IF c.w = SIZE THEN GoOnAtHead(c, c.max) ELSE c
  BY DEF WrapAtTail, GoOnAtHead, Cursors

\* The fields after PadOne.
LEMMA PadRecord ==
  ASSUME NEW c \in Cursors
  PROVE  PadOne(c) = [w |-> c.w + 1, max |-> c.max - 1, k |-> c.k,
                      ring |-> [c.ring EXCEPT ![c.w] = Pad]]
  <1> DEFINE f == [c EXCEPT !.w = c.w + 1]
             g == [f EXCEPT !.max = c.max - 1]
             r == [c.ring EXCEPT ![c.w] = Pad]
  <1>1. f = [w |-> c.w + 1, max |-> c.max, k |-> c.k, ring |-> c.ring]
    BY DEF Cursors
  <1>2. PadOne(c) = [g EXCEPT !.ring = r]
    BY Zenon DEF PadOne
  <1> HIDE DEF f, r
  <1>3. g = [w |-> c.w + 1, max |-> c.max - 1, k |-> c.k, ring |-> c.ring]
    BY <1>1
  <1> HIDE DEF g
  <1>4. PadOne(c) = [w |-> c.w + 1, max |-> c.max - 1, k |-> c.k, ring |-> r]
    BY <1>2, <1>3
  <1> QED
    BY <1>4 DEF r

\* A blank is stored like a character, but has no number.
LEMMA PadTrail ==
  ASSUME NEW b \in Nat, b <= SIZE, NEW c \in Cursors, NEW p \in Nat,
         Trail(b, c, p), p <= c.k, 1 <= c.max, c.w + 1 <= SIZE, p + 1 < SIZE
  PROVE  /\ PadOne(c) \in Cursors /\ Trail(b, PadOne(c), p + 1)
         /\ PadOne(c).w = c.w + 1 /\ PadOne(c).max = c.max - 1
         /\ PadOne(c).k = c.k
  <1> DEFINE d == PadOne(c)
             Seen(i) == c.ring[Cell(b, i)]
             Left(i) == d.ring[Cell(b, i)]
  <1>1. /\ c.w \in Nat /\ c.max \in Nat /\ c.k \in Nat /\ c.ring \in [Cells -> Int]
        /\ SIZE \in Nat /\ Cells \subseteq Nat
    BY Sizes DEF Cursors, Cells
  <1>2. d = [w |-> c.w + 1, max |-> c.max - 1, k |-> c.k,
             ring |-> [c.ring EXCEPT ![c.w] = Pad]]
    BY PadRecord
  <1>3. d \in Cursors
    <2>1. Pad \in Int /\ c.w + 1 \in Nat /\ c.max - 1 \in Nat
      BY <1>1 DEF Pad
    <2>2. [c.ring EXCEPT ![c.w] = Pad] \in [Cells -> Int]
      BY <1>1, <2>1
    <2> HIDE DEF d
    <2> QED
      BY <1>1, <1>2, <2>1, <2>2 DEF Cursors
  <1>4. c.w = b + p \/ c.w = b + p - SIZE
    BY DEF Trail
  <1>5. ASSUME NEW i \in Cells
        PROVE  /\ Seen(i) \in Int /\ i \in Nat
               /\ Left(i) = IF i = p THEN Pad ELSE Seen(i)
    <2>1. c.w <= Cell(b, i) /\ Cell(b, i) < c.w + 1 <=> p <= i /\ i < p + 1
      BY <1>1, <1>4, InCells DEF Cell
    <2>2. Cell(b, i) \in Cells
      BY CellInRing
    <2>3. Cell(b, i) = c.w <=> i = p
      <3>1. Cell(b, i) \in Nat /\ i \in Nat
        BY <1>1, <2>2
      <3> QED
        BY <1>1, <2>1, <3>1
    <2>4. Left(i) = [c.ring EXCEPT ![c.w] = Pad][Cell(b, i)]
      BY <1>2
    <2>5. Left(i) = IF Cell(b, i) = c.w THEN Pad ELSE Seen(i)
      BY <1>1, <2>2, <2>4
    <2>6. Seen(i) \in Int /\ i \in Nat
      BY <1>1, <2>2
    <2> HIDE DEF Left, Seen
    <2> QED
      BY <2>3, <2>5, <2>6
  <1>6. /\ \A i \in Cells : i < p => Seen(i) # Old /\ Pad <= Seen(i) /\ Seen(i) <= c.k
        /\ \A i \in Cells : p <= i => Seen(i) = Old
        /\ \A i, j \in Cells : i < j /\ j < p /\ Seen(i) # Pad /\ Seen(j) # Pad
                               => Seen(i) < Seen(j)
    BY DEF Trail
  <1>7. d.w = c.w + 1 /\ d.max = c.max - 1 /\ d.k = c.k
    BY <1>2
  <1> HIDE DEF d, Seen, Left
  <1>8. ASSUME NEW i \in Cells, i < p + 1
        PROVE  Left(i) # Old /\ Pad <= Left(i) /\ Left(i) <= d.k
    BY <1>1, <1>5, <1>6, <1>7, <1>8 DEF Old, Pad
  <1>9. ASSUME NEW i \in Cells, p + 1 <= i PROVE Left(i) = Old
    BY <1>1, <1>5, <1>6, <1>9
  <1>10. ASSUME NEW i \in Cells, NEW j \in Cells, i < j, j < p + 1,
                Left(i) # Pad, Left(j) # Pad
         PROVE  Left(i) < Left(j)
    BY <1>1, <1>5, <1>6, <1>10
  <1>11. d.w <= SIZE /\ (d.w = b + (p + 1) \/ d.w = b + (p + 1) - SIZE)
    BY <1>1, <1>4, <1>7
  <1>12. p + 1 <= d.k + 1
    BY <1>1, <1>7
  <1>13. p \in Cells /\ p < p + 1 /\ Left(p) = Pad
    BY <1>1, <1>5, Sizes DEF Cells
  <1>14. Trail(b, d, p + 1)
    BY <1>8, <1>9, <1>10, <1>11, <1>12, <1>13 DEF Trail, Left
  <1> QED
    BY <1>3, <1>7, <1>14 DEF d

\* The numbers go on from those of the characters printed, stored or not.
LEMMA MovedTrail ==
  ASSUME NEW b \in Nat, b <= SIZE, NEW c \in Cursors, NEW p \in Nat, NEW k \in Nat,
         Trail(b, c, p), c.k <= k
  PROVE  /\ [c EXCEPT !.k = k] \in Cursors /\ Trail(b, [c EXCEPT !.k = k], p)
         /\ [c EXCEPT !.k = k] = [w |-> c.w, max |-> c.max, k |-> k, ring |-> c.ring]
  <1>1. [c EXCEPT !.k = k] = [w |-> c.w, max |-> c.max, k |-> k, ring |-> c.ring]
    BY DEF Cursors
  <1>2. [c EXCEPT !.k = k] \in Cursors
    BY <1>1 DEF Cursors
  <1>3. c.k \in Nat /\ c.ring \in [Cells -> Int]
    BY DEF Cursors
  <1>4. ASSUME NEW i \in Cells, i < p PROVE c.ring[Cell(b, i)] <= k
    <2>1. c.ring[Cell(b, i)] <= c.k /\ c.ring[Cell(b, i)] \in Int
      BY <1>3, <1>4, CellInRing DEF Trail
    <2> QED
      BY <1>3, <2>1
  <1>5. /\ p <= k + 1
        /\ (\A i \in Cells : i < p => c.ring[Cell(b, i)] # Pad) => p <= k
    BY <1>3 DEF Trail
  <1>6. Trail(b, [c EXCEPT !.k = k], p)
    BY <1>1, <1>4, <1>5 DEF Trail
  <1> QED
    BY <1>1, <1>2, <1>6

\* A record is its fields.
LEMMA Fields ==
  ASSUME NEW c \in Cursors
  PROVE  /\ c = [w |-> c.w, max |-> c.max, k |-> c.k, ring |-> c.ring]
         /\ c.w \in Nat /\ c.max \in Nat /\ c.k \in Nat
         /\ c.ring \in [Cells -> Int]
  BY DEF Cursors

\* To put no character is to leave the cursor alone.
LEMMA PutNothing ==
  ASSUME NEW c \in Cursors
  PROVE  Put(c, 0) = c
  <1>1. /\ c = [w |-> c.w, max |-> c.max, k |-> c.k, ring |-> c.ring]
        /\ c.w \in Nat /\ c.max \in Nat /\ c.k \in Nat /\ c.ring \in [Cells -> Int]
    BY Fields
  <1> DEFINE r == [x \in Cells |-> IF x \in c.w .. c.w + 0 - 1 THEN c.k + 1 + (x - c.w)
                                   ELSE c.ring[x]]
  <1>2. r = c.ring
    <2>1. ASSUME NEW x \in Cells PROVE x \notin c.w .. c.w + 0 - 1
      BY <1>1
    <2> QED
      BY <1>1, <2>1
  <1>3. Put(c, 0) = [w |-> c.w + 0, max |-> c.max - 0, k |-> c.k + 0, ring |-> r]
    BY DEF Put
  <1> HIDE DEF r
  <1> QED
    BY <1>1, <1>2, <1>3

\* Nor does counting them change what room there is.
LEMMA MovedSound ==
  ASSUME NEW b \in Nat, b <= SIZE, NEW d \in Cursors, NEW r \in BOOLEAN,
         NEW p \in Cells, SoundAt(b, d, r, p),
         NEW k \in Nat, d.k <= k, r \/ d.k = k
  PROVE  /\ [d EXCEPT !.k = k] \in Cursors /\ [d EXCEPT !.k = k].k = k
         /\ Sound(b, [d EXCEPT !.k = k], r)
  <1> DEFINE m == [d EXCEPT !.k = k]
  <1>1. p \in Nat /\ d.k \in Nat
    BY InCells DEF Cursors
  <1>2. m \in Cursors /\ Trail(b, m, p)
    BY <1>1, MovedTrail DEF SoundAt
  <1>3. m = [w |-> d.w, max |-> d.max, k |-> k, ring |-> d.ring]
    BY DEF Cursors
  <1> HIDE DEF m
  <1>4. m.w = d.w /\ m.max = d.max /\ m.k = k /\ m.ring = d.ring
    BY <1>3
  <1>5. Room(b, m, p) \/ (m.max = 0 /\ r)
    BY <1>1, <1>4 DEF SoundAt, Room, First, Second
  <1>6. ~r => Whole(b, m, p)
    BY <1>4 DEF SoundAt, Whole
  <1> QED
    BY <1>2, <1>4, <1>5, <1>6 DEF Sound, SoundAt, m

-----------------------------------------------------------------------------
(* A conversion of n characters either fits in what is left of MaxSize, or *)
(* meets pTail.                                                            *)

\* What is known of the place of a message when n more characters come.
LEMMA RoomFor ==
  ASSUME NEW b \in Nat, b <= SIZE, NEW c \in Cursors, NEW p \in Cells, NEW n \in Nat,
         Trail(b, c, p), Room(b, c, p), c.k + n < MAXRX
  PROVE  /\ c.w + c.max <= SIZE /\ p + n < MAXRX
         /\ n >= c.max => /\ b + Front(b) = SIZE /\ Front(b) < MAXRX /\ 0 < Front(b)
                          /\ Front(b) \in Nat
                          /\ c.w + c.max = SIZE /\ p + c.max = Front(b)
                          /\ n - c.max < MAXRX - Front(b)
  <1>1. /\ c.w \in Nat /\ c.max \in Nat /\ c.k \in Nat /\ p \in Nat /\ p < SIZE
    BY InCells DEF Cursors
  <1>2. /\ Front(b) \in Nat /\ Front(b) <= MAXRX /\ b + Front(b) <= SIZE
        /\ Front(b) < MAXRX => b + Front(b) = SIZE
    BY Sizes DEF Front
  <1>3. p <= c.k /\ 0 < c.max
    BY DEF Room
  <1>4. CASE First(b, c, p)
    <2>1. c.w = b + p /\ c.max = Front(b) - p
      BY <1>4 DEF First
    <2> QED
      BY <1>1, <1>2, <1>3, <2>1, Sizes
  <1>5. CASE Second(b, c, p)
    <2>1. /\ c.w = b + p - SIZE /\ c.max = MAXRX - p
      BY <1>5 DEF Second
    <2> QED
      BY <1>1, <1>2, <1>3, <2>1, Sizes
  <1> QED
    BY <1>4, <1>5 DEF Room

\* It fits.
LEMMA PutFits ==
  ASSUME NEW b \in Nat, b <= SIZE, NEW c \in Cursors, NEW r \in BOOLEAN,
         NEW p \in Cells, NEW n \in Nat,
         SoundAt(b, c, r, p), n < c.max, c.k + n < MAXRX
  PROVE  /\ Put(c, n) \in Cursors /\ Put(c, n).w < SIZE /\ 0 < Put(c, n).max
         /\ Put(c, n).k = c.k + n /\ p + n \in Cells
         /\ SoundAt(b, Put(c, n), r, p + n)
  <1> DEFINE d == Put(c, n)
  <1>1. /\ c.w \in Nat /\ c.max \in Nat /\ c.k \in Nat /\ p \in Nat /\ p < SIZE
    BY InCells DEF Cursors
  <1>2. Trail(b, c, p) /\ Room(b, c, p) /\ (~r => Whole(b, c, p))
    BY <1>1 DEF SoundAt
  <1>3. c.w + c.max <= SIZE /\ p + n < MAXRX
    BY <1>2, RoomFor
  <1>4. n <= c.max /\ c.w + n < SIZE /\ c.w + n <= SIZE /\ p + n < SIZE
        /\ 0 < c.max - n
    BY <1>1, <1>3, Sizes
  <1>5. d \in Cursors /\ d.w = c.w + n /\ d.max = c.max - n /\ d.k = c.k + n
    BY <1>4, PutCursor
  <1>6. Trail(b, d, p + n)
    BY <1>1, <1>2, <1>4, PutTrail
  <1>7. ~r => Whole(b, d, p + n)
    BY <1>1, <1>2, <1>4, PutWhole
  <1> HIDE DEF d
  <1>8. Room(b, d, p + n)
    <2>1. p <= c.k /\ (First(b, c, p) \/ Second(b, c, p))
      BY <1>2 DEF Room
    <2>2. p + n <= d.k /\ 0 < d.max
      BY <1>1, <1>4, <1>5, <2>1
    <2>3. Front(b) \in Nat
      BY Sizes DEF Front
    <2>4. First(b, c, p) => First(b, d, p + n)
      BY <1>1, <1>5, <2>3 DEF First
    <2>5. Second(b, c, p) => Second(b, d, p + n)
      BY <1>1, <1>5, <2>3, Sizes DEF Second
    <2> QED
      BY <2>1, <2>2, <2>4, <2>5 DEF Room
  <1>9. p + n \in Cells
    BY <1>1, <1>4, Sizes DEF Cells
  <1> QED
    BY <1>4, <1>5, <1>6, <1>7, <1>8, <1>9 DEF SoundAt, d

\* It does not: the cells up to pTail get its first characters ...
LEMMA PutFills ==
  ASSUME NEW b \in Nat, b <= SIZE, NEW c \in Cursors, NEW r \in BOOLEAN,
         NEW p \in Cells, NEW n \in Nat,
         SoundAt(b, c, r, p), 0 < c.max, c.max <= n, c.k + n < MAXRX
  PROVE  /\ Put(c, c.max) \in Cursors /\ Put(c, c.max).w = SIZE
         /\ Put(c, c.max).max = 0 /\ Put(c, c.max).k = c.k + c.max
         /\ Front(b) \in Cells /\ Front(b) < MAXRX
         /\ b + Front(b) = SIZE /\ p + c.max = Front(b) /\ p <= c.k
         /\ c.w + c.max = SIZE /\ n - c.max < MAXRX - Front(b)
         /\ Trail(b, Put(c, c.max), Front(b))
         /\ ~r => Whole(b, Put(c, c.max), Front(b)) /\ c.k = p
  <1>1. /\ c.w \in Nat /\ c.max \in Nat /\ c.k \in Nat /\ p \in Nat /\ p < SIZE
    BY InCells DEF Cursors
  <1>2. Trail(b, c, p) /\ Room(b, c, p) /\ (~r => Whole(b, c, p)) /\ p <= c.k
    BY <1>1 DEF SoundAt, Room
  <1>3. /\ b + Front(b) = SIZE /\ Front(b) < MAXRX /\ Front(b) \in Nat
        /\ c.w + c.max = SIZE /\ p + c.max = Front(b)
        /\ n - c.max < MAXRX - Front(b)
    BY <1>1, <1>2, RoomFor
  <1>4. c.max <= c.max /\ c.w + c.max <= SIZE /\ p + c.max < SIZE
    BY <1>1, <1>3, Sizes
  <1>5. /\ Put(c, c.max) \in Cursors /\ Put(c, c.max).w = SIZE
        /\ Put(c, c.max).max = 0 /\ Put(c, c.max).k = c.k + c.max
    BY <1>1, <1>3, <1>4, PutCursor
  <1>6. Trail(b, Put(c, c.max), p + c.max)
    BY <1>1, <1>2, <1>4, PutTrail
  <1>7. ~r => Whole(b, Put(c, c.max), p + c.max)
    BY <1>1, <1>2, <1>4, PutWhole
  <1>8. ~r => c.k = p
    BY <1>2 DEF Whole
  <1>9. Front(b) \in Cells
    BY <1>3, Sizes DEF Cells
  <1> QED
    BY <1>2, <1>3, <1>5, <1>6, <1>7, <1>8, <1>9

\* ... and those from pHead on the others, n of them, where m are allowed.
LEMMA PutBehind ==
  ASSUME NEW b \in Nat, b <= SIZE, NEW d \in Cursors, NEW q \in Nat,
         Trail(b, d, q), d.w = SIZE, b + q = SIZE,
         NEW m \in Nat, NEW n \in Nat, n <= m, q + n < SIZE
  PROVE  /\ Put(GoOnAtHead(d, m), n) \in Cursors
         /\ Put(GoOnAtHead(d, m), n).w = n /\ Put(GoOnAtHead(d, m), n).max = m - n
         /\ Put(GoOnAtHead(d, m), n).k = d.k + n
         /\ Trail(b, Put(GoOnAtHead(d, m), n), q + n)
         /\ Whole(b, d, q) => Whole(b, Put(GoOnAtHead(d, m), n), q + n)
  <1> DEFINE g == GoOnAtHead(d, m)
  <1>1. /\ g \in Cursors /\ Trail(b, g, q) /\ (Whole(b, d, q) => Whole(b, g, q))
        /\ g.w = 0 /\ g.max = m /\ g.k = d.k
    BY WrapTrail
  <1> HIDE DEF g
  <1>2. n <= g.max /\ g.w + n <= SIZE /\ 0 + n = n
    BY <1>1
  <1>3. /\ Put(g, n) \in Cursors /\ Put(g, n).w = n
        /\ Put(g, n).max = m - n /\ Put(g, n).k = d.k + n
    BY <1>1, <1>2, PutCursor
  <1>4. Trail(b, Put(g, n), q + n)
    BY <1>1, <1>2, PutTrail
  <1>5. Whole(b, d, q) => Whole(b, Put(g, n), q + n)
    BY <1>1, <1>2, PutWhole
  <1> QED
    BY <1>3, <1>4, <1>5 DEF g

\* Together: a conversion that renews MaxSize at the wrap, as %s, %d, %x and the
\* date do, has stored all of its n characters.
LEMMA PutRenewed ==
  ASSUME base \in Nat, base <= SIZE, NEW c \in Cursors, NEW r \in BOOLEAN,
         NEW p \in Cells, NEW n \in Nat,
         SoundAt(base, c, r, p), 0 < c.max, c.max <= n, c.k + n < MAXRX,
         NEW e, e = Put(GoOnAtHead(Put(c, c.max), LeftOver), n - c.max)
  PROVE  /\ 0 < LeftOver /\ n - c.max \in Nat /\ n - c.max < LeftOver
         /\ e \in Cursors /\ e.w < SIZE /\ 0 < e.max
         /\ e.k = c.k + n /\ p + n \in Cells
         /\ SoundAt(base, e, r, p + n)
  <1> DEFINE d == Put(c, c.max)
             q == Front(base)
  <1>1. /\ c.w \in Nat /\ c.max \in Nat /\ c.k \in Nat /\ p \in Nat /\ p < SIZE
    BY InCells DEF Cursors
  <1>2. /\ d \in Cursors /\ d.w = SIZE /\ d.k = c.k + c.max
        /\ q \in Cells /\ q < MAXRX /\ base + q = SIZE /\ p + c.max = q /\ p <= c.k
        /\ n - c.max < MAXRX - q
        /\ Trail(base, d, q) /\ (~r => Whole(base, d, q) /\ c.k = p)
    BY PutFills
  <1>3. /\ q \in Nat /\ LeftOver = MAXRX - q /\ LeftOver \in Nat
    BY <1>1, <1>2, InCells, Parts
  <1> HIDE DEF d, q
  <1>4. /\ 0 < LeftOver /\ n - c.max \in Nat /\ n - c.max < LeftOver
        /\ n - c.max <= LeftOver /\ q + (n - c.max) < SIZE
        /\ q + (n - c.max) = p + n /\ p + n < MAXRX /\ p + n < SIZE
    BY <1>1, <1>2, <1>3, Sizes
  <1>5. /\ e \in Cursors /\ e.w = n - c.max /\ e.max = LeftOver - (n - c.max)
        /\ e.k = d.k + (n - c.max) /\ Trail(base, e, q + (n - c.max))
        /\ Whole(base, d, q) => Whole(base, e, q + (n - c.max))
    BY <1>2, <1>3, <1>4, PutBehind DEF d
  <1>6. /\ e.w < SIZE /\ 0 < e.max /\ e.k = c.k + n /\ e.max = MAXRX - (p + n)
    BY <1>1, <1>2, <1>3, <1>4, <1>5, Sizes
  <1>7. Trail(base, e, p + n) /\ (~r => Whole(base, e, p + n))
    BY <1>2, <1>4, <1>5
  <1>8. Second(base, e, p + n)
    <2>1. q <= p + n /\ e.w = base + (p + n) - SIZE
      BY <1>1, <1>2, <1>3, <1>4, <1>5, Sizes
    <2> QED
      BY <1>2, <1>6, <2>1 DEF Second, q
  <1>9. Room(base, e, p + n) /\ p + n \in Cells
    BY <1>1, <1>2, <1>4, <1>6, <1>8, Sizes DEF Room, Cells
  <1> QED
    BY <1>4, <1>5, <1>6, <1>7, <1>9 DEF SoundAt

-----------------------------------------------------------------------------
(* The conversions, one after the other.                                   *)

\* The cursor after a step that ends with character k.
Ends(b, d, k, r) ==
  /\ [d EXCEPT !.k = k] \in Cursors /\ [d EXCEPT !.k = k].k = k
  /\ Sound(b, [d EXCEPT !.k = k], r)

\* %s, and the text between conversions: n characters.  The wrap at the last
\* one renews MaxSize too.
LEMMA StringStored ==
  ASSUME base \in Nat, base <= SIZE, NEW c \in Cursors, NEW r \in BOOLEAN,
         NEW n \in Nat, NEW more \in BOOLEAN,
         Sound(base, c, r), 0 < c.max, c.k + n < MAXRX
  PROVE  /\ Ends(base, String(c, n, more), c.k + n, r)
         /\ 0 < String(c, n, more).max /\ String(c, n, more).k = c.k + n
  <1>1. c.w \in Nat /\ c.max \in Nat /\ c.k \in Nat /\ c.k + n \in Nat
    BY DEF Cursors
  <1>2. PICK p \in Cells : SoundAt(base, c, r, p)
    BY DEF Sound
  <1> DEFINE a == Lesser(n, c.max)
             d == Put(c, a)
             f == IF LeftOver # 0 /\ d.max = 0 /\ (a < n \/ more)
                  THEN Put(GoOnAtHead(d, LeftOver), Lesser(n - a, LeftOver)) ELSE d
             e == WrapAtTail(f)
  <1>3. String(c, n, more) = IF e.max = 0 THEN [e EXCEPT !.max = LeftOver] ELSE e
    BY Zenon DEF String
  <1>4. CASE n < c.max
    <2>1. a = n
      BY <1>4 DEF Lesser
    <2>2. /\ Put(c, n) \in Cursors /\ Put(c, n).w < SIZE /\ 0 < Put(c, n).max
          /\ Put(c, n).k = c.k + n /\ p + n \in Cells
          /\ SoundAt(base, Put(c, n), r, p + n)
      BY <1>1, <1>2, <1>4, PutFits
    <2>3. d.max # 0 /\ d.w # SIZE /\ d = Put(c, n)
      BY <2>1, <2>2, Sizes DEF Cursors
    <2> HIDE DEF d, a
    <2>4. f = d
      BY <2>3
    <2>5. e = d
      BY <2>2, <2>3, <2>4, WrapAtTailCursor
    <2>6. String(c, n, more) = Put(c, n)
      BY <1>3, <2>3, <2>5
    <2>7. Ends(base, Put(c, n), c.k + n, r)
      BY <1>1, <2>2, MovedSound DEF Ends
    <2> QED
      BY <2>2, <2>6, <2>7
  <1>5. CASE c.max <= n
    <2>1. a = c.max
      BY <1>1, <1>5 DEF Lesser
    <2> DEFINE g == Put(GoOnAtHead(d, LeftOver), n - c.max)
    <2>2. /\ d \in Cursors /\ d.w = SIZE /\ d.max = 0
      BY <1>1, <1>2, <1>5, <2>1, PutFills
    <2>3. d = Put(c, c.max)
      BY <2>1
    <2>4. g = Put(GoOnAtHead(Put(c, c.max), LeftOver), n - c.max)
      BY <2>3
    <2> HIDE DEF g, d, a
    <2>5. /\ 0 < LeftOver /\ n - c.max \in Nat /\ n - c.max < LeftOver
          /\ g \in Cursors /\ g.w < SIZE /\ 0 < g.max
          /\ g.k = c.k + n /\ p + n \in Cells
          /\ SoundAt(base, g, r, p + n)
      BY <1>1, <1>2, <1>5, <2>4, PutRenewed
    <2>6. LeftOver \in Nat
      BY Parts
    <2>7. String(c, n, more) = g
      <3>1. CASE a < n \/ more
        <4>1. Lesser(n - a, LeftOver) = n - c.max
          BY <1>1, <2>1, <2>5, <2>6 DEF Lesser
        <4>2. LeftOver # 0
          BY <2>5, <2>6
        <4>3. f = g
          BY <2>2, <3>1, <4>1, <4>2 DEF g
        <4>4. g.max # 0 /\ g.w # SIZE
          BY <2>5, Sizes DEF Cursors
        <4>5. e = g
          BY <2>5, <4>3, <4>4, WrapAtTailCursor
        <4> QED
          BY <1>3, <4>4, <4>5
      <3>2. CASE ~(a < n \/ more)
        <4>1. n - c.max = 0
          BY <1>1, <1>5, <2>1, <3>2
        <4>2. f = d
          BY <3>2
        <4>3. e = GoOnAtHead(d, 0)
          BY <2>2, <4>2, WrapAtTailCursor
        <4>4. d = [w |-> d.w, max |-> d.max, k |-> d.k, ring |-> d.ring]
          BY <2>2, Fields
        <4>5. /\ GoOnAtHead(d, 0) = [w |-> 0, max |-> 0, k |-> d.k, ring |-> d.ring]
              /\ GoOnAtHead(d, LeftOver)
                   = [w |-> 0, max |-> LeftOver, k |-> d.k, ring |-> d.ring]
          BY <2>2, <2>6, GoOnRecord
        <4> HIDE DEF e, f
        <4>6. String(c, n, more) = GoOnAtHead(d, LeftOver)
          BY <1>3, <4>3, <4>5
        <4>7. GoOnAtHead(d, LeftOver) \in Cursors
          BY <2>2, <2>6, <4>5 DEF Cursors
        <4> QED
          BY <4>1, <4>6, <4>7, PutNothing DEF g
      <3> QED
        BY <3>1, <3>2
    <2>8. Ends(base, g, c.k + n, r)
      BY <1>1, <2>5, MovedSound DEF Ends
    <2> QED
      BY <2>5, <2>7, <2>8
  <1> QED
    BY <1>1, <1>4, <1>5

\* %d and %x: n digits.
LEMMA NumberStored ==
  ASSUME base \in Nat, base <= SIZE, NEW c \in Cursors, NEW r \in BOOLEAN,
         NEW n \in Nat,
         Sound(base, c, r), 0 < c.max, c.k + n < MAXRX
  PROVE  Ends(base, Number(c, n), c.k + n, r)
  <1>1. c.w \in Nat /\ c.max \in Nat /\ c.k \in Nat /\ c.k + n \in Nat
    BY DEF Cursors
  <1>2. PICK p \in Cells : SoundAt(base, c, r, p)
    BY DEF Sound
  <1>3. CASE n < c.max
    <2>1. /\ Put(c, n) \in Cursors /\ Put(c, n).w < SIZE
          /\ Put(c, n).k = c.k + n /\ p + n \in Cells
          /\ SoundAt(base, Put(c, n), r, p + n)
      BY <1>1, <1>2, <1>3, PutFits
    <2>2. Put(c, n).w # SIZE
      BY <2>1, Sizes DEF Cursors
    <2>3. Number(c, n) = Put(c, n)
      BY <1>3, <2>1, <2>2, WrapAtTailCursor DEF Number
    <2> QED
      BY <1>1, <2>1, <2>3, MovedSound DEF Ends
  <1>4. CASE c.max <= n
    <2> DEFINE d == Put(c, c.max)
               g == Put(GoOnAtHead(d, LeftOver), n - c.max)
    <2>1. /\ 0 < LeftOver /\ n - c.max \in Nat /\ n - c.max < LeftOver
          /\ g \in Cursors /\ g.w < SIZE /\ g.k = c.k + n /\ p + n \in Cells
          /\ SoundAt(base, g, r, p + n)
      BY <1>1, <1>2, <1>4, PutRenewed
    <2>2. Lesser(n - c.max, LeftOver) = n - c.max
      BY <2>1, Parts DEF Lesser
    <2>3. Number(c, n) = WrapAtTail(Put(GoOnAtHead(d, LeftOver), Lesser(n - c.max, LeftOver)))
      BY <1>1, <1>4 DEF Number
    <2> HIDE DEF g, d
    <2>4. g.w # SIZE
      BY <2>1, Sizes DEF Cursors
    <2>5. Number(c, n) = g
      BY <2>1, <2>2, <2>3, <2>4, WrapAtTailCursor DEF g
    <2> QED
      BY <1>1, <2>1, <2>5, MovedSound DEF Ends
  <1> QED
    BY <1>1, <1>3, <1>4

\* The date: there is always room for it when the message is below the limit.
LEMMA DateStored ==
  ASSUME base \in Nat, base <= SIZE, NEW c \in Cursors, NEW r \in BOOLEAN,
         Sound(base, c, r), 0 < c.max, c.k + DATELEN < MAXRX
  PROVE  Ends(base, TimeAndDate(c), c.k + DATELEN, r)
  <1> DEFINE n == DATELEN
             a == Lesser(n, c.max)
             d == Put(c, a)
  <1>1. c.w \in Nat /\ c.max \in Nat /\ c.k \in Nat /\ n \in Nat /\ c.k + n \in Nat
    BY Sizes DEF Cursors
  <1>2. PICK p \in Cells : SoundAt(base, c, r, p)
    BY DEF Sound
  <1>3. LeftOver \in Nat
    BY Parts
  <1>4. TimeAndDate(c) = IF c.max + LeftOver < n THEN c
                         ELSE WhenFull(Put(WhenFull(d), n - a))
    BY DEF TimeAndDate
  <1> HIDE DEF n, d
  <1>5. CASE n < c.max
    <2>1. a = n
      BY <1>5 DEF Lesser
    <2>2. /\ Put(c, n) \in Cursors /\ 0 < Put(c, n).max
          /\ Put(c, n).k = c.k + n /\ p + n \in Cells
          /\ SoundAt(base, Put(c, n), r, p + n)
      BY <1>1, <1>2, <1>5, PutFits DEF n
    <2>3. d = Put(c, n)
      BY <2>1 DEF d
    <2> HIDE DEF a
    <2>4. ~(c.max + LeftOver < n) /\ n - a = 0
      BY <1>1, <1>3, <1>5, <2>1
    <2>5. WhenFull(d) = d
      BY <2>2, <2>3 DEF WhenFull
    <2>6. Put(WhenFull(d), n - a) = d
      BY <2>2, <2>3, <2>4, <2>5, PutNothing
    <2>7. TimeAndDate(c) = Put(c, n)
      BY <1>4, <2>3, <2>4, <2>5, <2>6
    <2> QED
      BY <1>1, <2>2, <2>7, MovedSound DEF Ends, n
  <1>6. CASE c.max <= n
    <2>1. a = c.max
      BY <1>1, <1>6 DEF Lesser
    <2>2. d = Put(c, c.max)
      BY <2>1 DEF d
    <2> DEFINE g == Put(GoOnAtHead(d, LeftOver), n - c.max)
    <2>3. d \in Cursors /\ d.max = 0
      BY <1>1, <1>2, <1>6, <2>2, PutFills DEF n
    <2>4. g = Put(GoOnAtHead(Put(c, c.max), LeftOver), n - c.max)
      BY <2>2
    <2> HIDE DEF g, a
    <2>5. /\ 0 < LeftOver /\ n - c.max \in Nat /\ n - c.max < LeftOver
          /\ g \in Cursors /\ 0 < g.max
          /\ g.k = c.k + n /\ p + n \in Cells
          /\ SoundAt(base, g, r, p + n)
      BY <1>1, <1>2, <1>6, <2>4, PutRenewed DEF n
    <2>6. ~(c.max + LeftOver < n)
      BY <1>1, <1>3, <2>5
    <2>7. WhenFull(d) = GoOnAtHead(d, LeftOver)
      BY <2>3 DEF WhenFull
    <2>8. Put(WhenFull(d), n - a) = g
      BY <2>1, <2>7 DEF g
    <2>9. WhenFull(g) = g
      BY <2>5 DEF WhenFull
    <2>10. TimeAndDate(c) = g
      BY <1>4, <2>6, <2>8, <2>9
    <2> QED
      BY <1>1, <2>5, <2>10, MovedSound DEF Ends, n
  <1> QED
    BY <1>1, <1>5, <1>6

\* A conversion that leaves MaxSize at 0 when it meets pTail.
LEMMA EndsFull ==
  ASSUME NEW b \in Nat, b <= SIZE, NEW d \in Cursors, NEW q \in Cells,
         Trail(b, d, q), d.max = 0, NEW k \in Nat, d.k <= k
  PROVE  Ends(b, d, k, TRUE)
  <1>1. SoundAt(b, d, TRUE, q)
    BY DEF SoundAt
  <1> QED
    BY <1>1, MovedSound DEF Ends

\* What Meets says of the conversion.
Met(c, n) == c.w + c.max = SIZE /\ n >= c.max

\* One that fits leaves room.
LEMMA EndsPut ==
  ASSUME NEW b \in Nat, b <= SIZE, NEW c \in Cursors, NEW r \in BOOLEAN,
         NEW p \in Cells, NEW n \in Nat,
         SoundAt(b, c, r, p), n < c.max, c.k + n < MAXRX
  PROVE  Ends(b, Put(c, n), c.k + n, r) /\ ~Met(c, n) /\ Put(c, n).w # SIZE
  <1>1. c.max \in Nat /\ c.k \in Nat /\ c.k + n \in Nat
    BY DEF Cursors
  <1>2. /\ Put(c, n) \in Cursors /\ Put(c, n).w < SIZE
        /\ Put(c, n).k = c.k + n /\ p + n \in Cells
        /\ SoundAt(b, Put(c, n), r, p + n)
    BY PutFits
  <1>3. Put(c, n).w # SIZE
    BY <1>2, Sizes DEF Cursors
  <1>4. ~Met(c, n)
    BY <1>1 DEF Met
  <1> QED
    BY <1>1, <1>2, <1>3, <1>4, MovedSound DEF Ends

\* %c.
LEMMA CharStored ==
  ASSUME base \in Nat, base <= SIZE, NEW c \in Cursors, NEW r \in BOOLEAN,
         Sound(base, c, r), 0 < c.max, c.k + 1 < MAXRX
  PROVE  Ends(base, Put(c, 1), c.k + 1, r \/ Met(c, 1))
  <1>1. c.w \in Nat /\ c.max \in Nat /\ c.k \in Nat /\ c.k + 1 \in Nat /\ 1 \in Nat
    BY DEF Cursors
  <1>2. PICK p \in Cells : SoundAt(base, c, r, p)
    BY DEF Sound
  <1>3. CASE 1 < c.max
    BY <1>1, <1>2, <1>3, EndsPut
  <1>4. CASE c.max <= 1
    <2>1. c.max = 1
      BY <1>1, <1>4
    <2>2. /\ Put(c, 1) \in Cursors /\ Put(c, 1).max = 0 /\ Put(c, 1).k = c.k + 1
          /\ Front(base) \in Cells /\ c.w + c.max = SIZE
          /\ Trail(base, Put(c, 1), Front(base))
      BY <1>1, <1>2, <1>4, <2>1, PutFills
    <2>3. Met(c, 1)
      BY <2>1, <2>2 DEF Met
    <2>4. Put(c, 1).k <= c.k + 1
      BY <1>1, <2>2
    <2>5. Ends(base, Put(c, 1), c.k + 1, TRUE)
      BY <1>1, <2>2, <2>4, EndsFull
    <2> QED
      BY <2>3, <2>5
  <1> QED
    BY <1>1, <1>3, <1>4

\* '%' and a character that is no conversion.
LEMMA OtherStored ==
  ASSUME base \in Nat, base <= SIZE, NEW c \in Cursors, NEW r \in BOOLEAN,
         Sound(base, c, r), 0 < c.max, c.k + 2 < MAXRX
  PROVE  Ends(base, NoConversion(c), c.k + 2, r \/ Met(c, 2))
  <1>1. c.w \in Nat /\ c.max \in Nat /\ c.k \in Nat /\ c.k + 2 \in Nat /\ 2 \in Nat
    BY DEF Cursors
  <1>2. PICK p \in Cells : SoundAt(base, c, r, p)
    BY DEF Sound
  <1>3. CASE 2 < c.max
    <2>1. NoConversion(c) = Put(c, 2)
      BY <1>1, <1>3 DEF NoConversion
    <2> QED
      BY <1>1, <1>2, <1>3, <2>1, EndsPut
  <1>4. CASE c.max <= 2
    <2>1. /\ Put(c, c.max) \in Cursors /\ Put(c, c.max).max = 0
          /\ Put(c, c.max).k = c.k + c.max
          /\ Front(base) \in Cells /\ c.w + c.max = SIZE
          /\ Trail(base, Put(c, c.max), Front(base))
      BY <1>1, <1>2, <1>4, PutFills
    <2>2. Met(c, 2)
      BY <1>1, <1>4, <2>1 DEF Met
    <2>3. CASE c.max = 2
      <3>1. NoConversion(c) = Put(c, c.max)
        BY <2>3 DEF NoConversion
      <3>2. Put(c, c.max).k <= c.k + 2
        BY <1>1, <2>1, <2>3
      <3>3. Ends(base, Put(c, c.max), c.k + 2, TRUE)
        BY <1>1, <2>1, <3>2, EndsFull
      <3> QED
        BY <2>2, <3>1, <3>3
    <2>4. CASE c.max = 1
      <3>1. NoConversion(c) = c
        BY <2>4 DEF NoConversion
      <3>2. SoundAt(base, c, TRUE, p)
        BY <1>2 DEF SoundAt
      <3>3. c.k <= c.k + 2
        BY <1>1
      <3>4. Ends(base, c, c.k + 2, TRUE)
        BY <1>1, <1>2, <3>2, <3>3, MovedSound DEF Ends
      <3> QED
        BY <2>2, <3>1, <3>4
    <2> QED
      BY <1>1, <1>4, <2>3, <2>4
  <1> QED
    BY <1>1, <1>3, <1>4

\* %b.
LEMMA BinStored ==
  ASSUME base \in Nat, base <= SIZE, NEW c \in Cursors, NEW r \in BOOLEAN,
         NEW n \in Nat,
         Sound(base, c, r), 0 < c.max, c.k + n < MAXRX
  PROVE  Ends(base, BinBuff(c, n), c.k + n, r \/ Met(c, n))
  <1>1. c.w \in Nat /\ c.max \in Nat /\ c.k \in Nat /\ c.k + n \in Nat
    BY DEF Cursors
  <1>2. PICK p \in Cells : SoundAt(base, c, r, p)
    BY DEF Sound
  <1>3. BinBuff(c, n) =
          IF n <= c.max THEN WrapAtTail(Put(c, n))
          ELSE LET d == Put(c, c.max)
                   m == Lesser(n - c.max, LeftOver)
               IN  IF d.w = SIZE THEN Put(GoOnAtHead(d, m), m) ELSE d
    <2>1. Lesser(n, MAXRX) = n
      BY <1>1, Sizes DEF Lesser
    <2> QED
      BY <2>1, Zenon DEF BinBuff
  <1>4. CASE n < c.max
    <2>1. Ends(base, Put(c, n), c.k + n, r) /\ ~Met(c, n) /\ Put(c, n).w # SIZE
      BY <1>1, <1>2, <1>4, EndsPut
    <2>2. Put(c, n) \in Cursors
      BY <1>1, <1>2, <1>4, PutFits
    <2>3. BinBuff(c, n) = Put(c, n)
      BY <1>1, <1>3, <1>4, <2>1, <2>2, WrapAtTailCursor
    <2> QED
      BY <2>1, <2>3
  <1>5. CASE c.max <= n
    <2> DEFINE d == Put(c, c.max)
               q == Front(base)
    <2>1. /\ d \in Cursors /\ d.w = SIZE /\ d.max = 0 /\ d.k = c.k + c.max
          /\ q \in Cells /\ q < MAXRX /\ base + q = SIZE /\ p + c.max = q
          /\ c.w + c.max = SIZE /\ n - c.max < MAXRX - q /\ Trail(base, d, q)
      BY <1>1, <1>2, <1>5, PutFills
    <2>2. q \in Nat /\ 0 < q /\ LeftOver \in Nat /\ LeftOver = MAXRX - q
      <3>1. q \in Nat /\ p \in Nat
        BY <2>1, InCells
      <3>2. 0 < q
        BY <1>1, <2>1, <3>1
      <3> QED
        BY <3>1, <3>2, Parts
    <2>3. Met(c, n)
      BY <1>1, <1>5, <2>1 DEF Met
    <2>4. CASE n = c.max
      <3>1. BinBuff(c, n) = WrapAtTail(d)
        BY <1>1, <1>3, <2>4
      <3> HIDE DEF d, q
      <3>2. WrapAtTail(d) = GoOnAtHead(d, 0)
        BY <2>1, WrapAtTailCursor
      <3>3. /\ GoOnAtHead(d, 0) \in Cursors /\ Trail(base, GoOnAtHead(d, 0), q)
            /\ GoOnAtHead(d, 0).max = 0 /\ GoOnAtHead(d, 0).k = d.k
        BY <2>1, <2>2, WrapTrail
      <3>4. GoOnAtHead(d, 0).k <= c.k + n
        BY <1>1, <2>1, <2>4, <3>3
      <3>5. Ends(base, GoOnAtHead(d, 0), c.k + n, TRUE)
        BY <1>1, <2>1, <3>3, <3>4, EndsFull
      <3> QED
        BY <2>3, <3>1, <3>2, <3>5
    <2>5. CASE c.max < n
      <3> DEFINE m == n - c.max
                 e == Put(GoOnAtHead(d, m), m)
      <3>1. m \in Nat /\ m < LeftOver /\ m <= m /\ q + m < SIZE /\ q + m \in Cells
        BY <1>1, <2>1, <2>2, <2>5, Sizes DEF Cells
      <3>2. Lesser(m, LeftOver) = m
        BY <3>1 DEF Lesser
      <3>3. BinBuff(c, n) = e
        <4>1. BinBuff(c, n) = IF d.w = SIZE
                THEN Put(GoOnAtHead(d, Lesser(m, LeftOver)), Lesser(m, LeftOver)) ELSE d
          BY <1>1, <1>3, <2>5
        <4> QED
          BY <2>1, <3>2, <4>1
      <3> HIDE DEF d, q, m
      <3>4. /\ e \in Cursors /\ e.max = m - m /\ e.k = d.k + m /\ Trail(base, e, q + m)
        BY <2>1, <2>2, <3>1, PutBehind
      <3> HIDE DEF e
      <3>5. e.max = 0 /\ e.k <= c.k + n
        BY <1>1, <2>1, <3>1, <3>4 DEF m
      <3>6. Ends(base, e, c.k + n, TRUE)
        BY <1>1, <3>1, <3>4, <3>5, EndsFull
      <3> QED
        BY <2>3, <3>3, <3>6
    <2> QED
      BY <1>1, <1>5, <2>4, <2>5
  <1> QED
    BY <1>1, <1>4, <1>5

\* %r: the digits of n bytes, of which none is split.
LEMMA RawStored ==
  ASSUME base \in Nat, base <= SIZE, NEW c \in Cursors, NEW r \in BOOLEAN,
         NEW n \in Nat,
         Sound(base, c, r), 0 < c.max, c.k + 2 * n < MAXRX
  PROVE  Ends(base, RawData(c, n), c.k + 2 * n, r \/ Met(c, 2 * n))
  <1>1. /\ c.w \in Nat /\ c.max \in Nat /\ c.k \in Nat
        /\ 2 * n \in Nat /\ c.k + 2 * n \in Nat
    BY DEF Cursors
  <1>2. PICK p \in Cells : SoundAt(base, c, r, p)
    BY DEF Sound
  <1>3. CASE 2 * n < c.max
    <2>1. /\ Ends(base, Put(c, 2 * n), c.k + 2 * n, r)
          /\ ~Met(c, 2 * n) /\ Put(c, 2 * n).w # SIZE
      BY <1>1, <1>2, <1>3, EndsPut
    <2>2. Put(c, 2 * n) \in Cursors
      BY <1>1, <1>2, <1>3, PutFits
    <2>3. RawData(c, n) = Put(c, 2 * n)
      BY <1>1, <1>3, <2>1, <2>2, WrapAtTailCursor DEF RawData
    <2> QED
      BY <2>1, <2>3
  <1>4. CASE c.max <= 2 * n
    <2> DEFINE d == Put(c, c.max)
               q == Front(base)
    <2>1. /\ d \in Cursors /\ d.w = SIZE /\ d.max = 0 /\ d.k = c.k + c.max
          /\ q \in Cells /\ q < MAXRX /\ base + q = SIZE /\ p + c.max = q /\ p <= c.k
          /\ c.w + c.max = SIZE /\ 2 * n - c.max < MAXRX - q /\ Trail(base, d, q)
      BY <1>1, <1>2, <1>4, PutFills
    <2>2. /\ q \in Nat /\ p \in Nat /\ p < SIZE /\ q < SIZE
          /\ LeftOver \in Nat /\ LeftOver = MAXRX - q
      <3>1. q \in Nat /\ p \in Nat /\ p < SIZE /\ q < SIZE
        BY <2>1, InCells
      <3>2. 0 < q
        BY <1>1, <2>1, <3>1
      <3> QED
        BY <3>1, <3>2, Parts
    <2>3. Met(c, 2 * n)
      BY <1>1, <1>4, <2>1 DEF Met
    <2>4. CASE 2 * n = c.max
      <3>1. RawData(c, n) = WrapAtTail(d)
        BY <1>1, <2>4 DEF RawData
      <3> HIDE DEF d, q
      <3>2. WrapAtTail(d) = GoOnAtHead(d, 0)
        BY <2>1, WrapAtTailCursor
      <3>3. /\ GoOnAtHead(d, 0) \in Cursors /\ Trail(base, GoOnAtHead(d, 0), q)
            /\ GoOnAtHead(d, 0).max = 0 /\ GoOnAtHead(d, 0).k = d.k
        BY <2>1, <2>2, WrapTrail
      <3>4. GoOnAtHead(d, 0).k <= c.k + 2 * n
        BY <1>1, <2>1, <2>4, <3>3
      <3>5. Ends(base, GoOnAtHead(d, 0), c.k + 2 * n, TRUE)
        BY <1>1, <2>1, <3>3, <3>4, EndsFull
      <3> QED
        BY <2>3, <3>1, <3>2, <3>5
    <2>5. CASE c.max < 2 * n
      <3> DEFINE even == IF c.max % 2 = 1 THEN PadOne(c) ELSE c
                 f    == Put(even, even.max)
                 rest == Lesser(LeftOver, 2 * n - even.max)
                 m    == 2 * n - even.max
                 e    == Put(GoOnAtHead(f, m), m)
      <3> HIDE DEF d, q
      <3>1. RawData(c, n) = IF f.w = SIZE
                            THEN Put(GoOnAtHead(f, rest), 2 * (rest \div 2)) ELSE f
        <4>1. ~(2 * n <= c.max)
          BY <1>1, <2>5
        <4> QED
          BY <4>1, Zenon DEF RawData
      <3>2. PICK u \in Nat : /\ even \in Cursors /\ Trail(base, even, u)
                             /\ even.w + even.max = SIZE /\ u + even.max = q
                             /\ u <= p + 1 /\ even.k = c.k /\ even.max <= c.max
                             /\ even.max % 2 = 0
        <4>1. CASE c.max % 2 = 1
          <5>1. even = PadOne(c)
            BY <4>1
          <5>2. p <= c.k /\ 1 <= c.max /\ c.w + 1 <= SIZE /\ p + 1 < SIZE
            BY <1>1, <2>1, <2>2
          <5>3. Trail(base, c, p)
            BY <1>2 DEF SoundAt
          <5>4. /\ even \in Cursors /\ Trail(base, even, p + 1)
                /\ even.w = c.w + 1 /\ even.max = c.max - 1 /\ even.k = c.k
            BY <2>2, <5>1, <5>2, <5>3, PadTrail
          <5> HIDE DEF even
          <5>5. /\ even.w + even.max = SIZE /\ (p + 1) + even.max = q
                /\ p + 1 <= p + 1 /\ even.max <= c.max /\ p + 1 \in Nat
            BY <1>1, <2>1, <2>2, <5>4
          <5>6. even.max % 2 = 0
            BY <1>1, <4>1, <5>4
          <5> QED
            BY <5>4, <5>5, <5>6
        <4>2. CASE c.max % 2 # 1
          <5>1. even = c
            BY <4>2
          <5>2. Trail(base, c, p)
            BY <1>2 DEF SoundAt
          <5>3. c.max % 2 = 0
            BY <1>1, <4>2
          <5> QED
            BY <1>1, <2>1, <2>2, <5>1, <5>2, <5>3
        <4> QED
          BY <4>1, <4>2
      <3> HIDE DEF even
      <3>3. even.w \in Nat /\ even.max \in Nat /\ even.k \in Nat
        BY <3>2, Fields
      <3>4. /\ even.max <= even.max /\ even.w + even.max <= SIZE
            /\ u + even.max < SIZE /\ even.max < 2 * n
        BY <1>1, <2>1, <2>2, <2>5, <3>2, <3>3
      <3>5. /\ f \in Cursors /\ f.w = SIZE /\ f.k = c.k + even.max
        BY <3>2, <3>3, <3>4, PutCursor
      <3>6. Trail(base, f, q)
        BY <3>2, <3>3, <3>4, PutTrail
      <3> HIDE DEF f
      <3>7. /\ m \in Nat /\ m <= LeftOver /\ q + m < SIZE /\ q + m \in Nat
        BY <1>1, <2>1, <2>2, <3>2, <3>3, <3>4, Sizes
      <3>8. rest = m
        BY <2>2, <3>7 DEF Lesser
      <3>9. 2 * (m \div 2) = m
        BY <1>1, <3>2, <3>3, <3>7
      <3>10. RawData(c, n) = e
        BY <3>1, <3>5, <3>8, <3>9
      <3>11. c.k + even.max + m = c.k + 2 * n
        BY <1>1, <3>3
      <3> HIDE DEF m, rest
      <3>12. /\ e \in Cursors /\ e.max = m - m /\ e.k = f.k + m /\ Trail(base, e, q + m)
        BY <2>1, <2>2, <3>5, <3>6, <3>7, PutBehind
      <3> HIDE DEF e
      <3>13. e.max = 0 /\ e.k <= c.k + 2 * n
        BY <1>1, <3>3, <3>5, <3>7, <3>11, <3>12
      <3>14. q + m \in Cells
        BY <3>7, Sizes DEF Cells
      <3>15. Ends(base, e, c.k + 2 * n, TRUE)
        BY <1>1, <3>12, <3>13, <3>14, EndsFull
      <3> QED
        BY <2>3, <3>10, <3>15
    <2> QED
      BY <1>1, <1>4, <2>4, <2>5
  <1> QED
    BY <1>1, <1>3, <1>4

-----------------------------------------------------------------------------
(* The digits of a number.  The recursion of Quotients ends after ten       *)
(* divisions, which are written out.                                       *)

\* A division by the base takes the last digit away.
LEMMA Division ==
  ASSUME NEW x \in Nat, NEW b \in {10, 16}
  PROVE  /\ x \div b \in Nat /\ x % b \in Nat /\ x = (x \div b) * b + (x % b)
         /\ x \div b = 0 => x % b = x
         /\ \A m \in Nat : x <= 10 * m + 9 => x \div b <= m
  <1>1. CASE b = 10
    BY <1>1
  <1>2. CASE b = 16
    BY <1>2
  <1> QED
    BY <1>1, <1>2

\* Quotients is what its definition says, though it is recursive: the ten
\* divisions make a function that satisfies it.
LEMMA QuotientsDef ==
  ASSUME NEW v \in Int, NEW b \in {10, 16}
  PROVE  Quotients(v, b) = [i \in 0 .. 10 |-> IF i = 0 THEN v
                                             ELSE Quotients(v, b)[i - 1] \div b]
  <1> DEFINE q1 == v \div b
             q2 == q1 \div b
             q3 == q2 \div b
             q4 == q3 \div b
             q5 == q4 \div b
             q6 == q5 \div b
             q7 == q6 \div b
             q8 == q7 \div b
             q9 == q8 \div b
             q10 == q9 \div b
             F(q) == [i \in 0 .. 10 |-> IF i = 0 THEN v ELSE q[i - 1] \div b]
             w == [i \in 0 .. 10 |->
                     IF i = 0 THEN v ELSE IF i = 1 THEN q1 ELSE IF i = 2 THEN q2
                     ELSE IF i = 3 THEN q3 ELSE IF i = 4 THEN q4
                     ELSE IF i = 5 THEN q5 ELSE IF i = 6 THEN q6
                     ELSE IF i = 7 THEN q7 ELSE IF i = 8 THEN q8
                     ELSE IF i = 9 THEN q9 ELSE q10]
  <1>1. w = F(w)
    <2> HIDE DEF q1, q2, q3, q4, q5, q6, q7, q8, q9, q10
    <2>1. ASSUME NEW i \in 0 .. 10 PROVE w[i] = F(w)[i]
      <3>1. CASE i = 0
        BY <3>1
      <3>2. CASE i = 1
        BY <3>2 DEF q1
      <3>3. CASE i = 2
        BY <3>3 DEF q2
      <3>4. CASE i = 3
        BY <3>4 DEF q3
      <3>5. CASE i = 4
        BY <3>5 DEF q4
      <3>6. CASE i = 5
        BY <3>6 DEF q5
      <3>7. CASE i = 6
        BY <3>7 DEF q6
      <3>8. CASE i = 7
        BY <3>8 DEF q7
      <3>9. CASE i = 8
        BY <3>9 DEF q8
      <3>10. CASE i = 9
        BY <3>10 DEF q9
      <3>11. CASE i = 10
        BY <3>11 DEF q10
      <3> QED
        BY <3>1, <3>2, <3>3, <3>4, <3>5, <3>6, <3>7, <3>8, <3>9, <3>10, <3>11
    <2> QED
      BY <2>1
  <1> HIDE DEF w
  <1>2. \E q : q = F(q)
    BY <1>1
  <1>3. Quotients(v, b) = CHOOSE q : q = F(q)
    BY DEF Quotients
  <1> HIDE DEF F
  <1>4. Quotients(v, b) = F(Quotients(v, b))
    BY <1>2, <1>3
  <1> QED
    BY <1>4 DEF F

\* The quotients of an int that is not negative, one from the other; the tenth
\* is 0.
LEMMA QuotientsFall ==
  ASSUME NEW v \in Nat, v <= MaxInt, NEW b \in {10, 16}
  PROVE  /\ \A i \in 0 .. 10 : Quotients(v, b)[i] \in Nat
         /\ Quotients(v, b)[0] = v
         /\ \A i \in 1 .. 10 : Quotients(v, b)[i] = Quotients(v, b)[i - 1] \div b
         /\ Quotients(v, b)[10] = 0
  <1> DEFINE Q == Quotients(v, b)
  <1>1. Q = [i \in 0 .. 10 |-> IF i = 0 THEN v ELSE Q[i - 1] \div b]
    BY QuotientsDef
  <1> HIDE DEF Q
  <1>2. Q[0] = v
    BY <1>1
  <1>3. ASSUME NEW i \in 1 .. 10 PROVE Q[i] = Q[i - 1] \div b
    BY <1>1
  <1>4. Q[1] \in Nat /\ Q[1] <= 214748364
    <2>1. Q[1] = Q[0] \div b
      BY <1>3
    <2>2. Q[0] \in Nat /\ Q[0] <= 10 * 214748364 + 9
      BY <1>2, SMT DEF MaxInt
    <2> QED
      BY <2>1, <2>2, Division, SMT
  <1>5. Q[2] \in Nat /\ Q[2] <= 21474836
    <2>1. Q[2] = Q[1] \div b
      BY <1>3
    <2>2. Q[1] \in Nat /\ Q[1] <= 10 * 21474836 + 9
      BY <1>4, SMT
    <2> QED
      BY <2>1, <2>2, Division, SMT
  <1>6. Q[3] \in Nat /\ Q[3] <= 2147483
    <2>1. Q[3] = Q[2] \div b
      BY <1>3
    <2>2. Q[2] \in Nat /\ Q[2] <= 10 * 2147483 + 9
      BY <1>5, SMT
    <2> QED
      BY <2>1, <2>2, Division, SMT
  <1>7. Q[4] \in Nat /\ Q[4] <= 214748
    <2>1. Q[4] = Q[3] \div b
      BY <1>3
    <2>2. Q[3] \in Nat /\ Q[3] <= 10 * 214748 + 9
      BY <1>6, SMT
    <2> QED
      BY <2>1, <2>2, Division, SMT
  <1>8. Q[5] \in Nat /\ Q[5] <= 21474
    <2>1. Q[5] = Q[4] \div b
      BY <1>3
    <2>2. Q[4] \in Nat /\ Q[4] <= 10 * 21474 + 9
      BY <1>7, SMT
    <2> QED
      BY <2>1, <2>2, Division, SMT
  <1>9. Q[6] \in Nat /\ Q[6] <= 2147
    <2>1. Q[6] = Q[5] \div b
      BY <1>3
    <2>2. Q[5] \in Nat /\ Q[5] <= 10 * 2147 + 9
      BY <1>8, SMT
    <2> QED
      BY <2>1, <2>2, Division, SMT
  <1>10. Q[7] \in Nat /\ Q[7] <= 214
    <2>1. Q[7] = Q[6] \div b
      BY <1>3
    <2>2. Q[6] \in Nat /\ Q[6] <= 10 * 214 + 9
      BY <1>9, SMT
    <2> QED
      BY <2>1, <2>2, Division, SMT
  <1>11. Q[8] \in Nat /\ Q[8] <= 21
    <2>1. Q[8] = Q[7] \div b
      BY <1>3
    <2>2. Q[7] \in Nat /\ Q[7] <= 10 * 21 + 9
      BY <1>10, SMT
    <2> QED
      BY <2>1, <2>2, Division, SMT
  <1>12. Q[9] \in Nat /\ Q[9] <= 2
    <2>1. Q[9] = Q[8] \div b
      BY <1>3
    <2>2. Q[8] \in Nat /\ Q[8] <= 10 * 2 + 9
      BY <1>11, SMT
    <2> QED
      BY <2>1, <2>2, Division, SMT
  <1>13. Q[10] \in Nat /\ Q[10] <= 0
    <2>1. Q[10] = Q[9] \div b
      BY <1>3
    <2>2. Q[9] \in Nat /\ Q[9] <= 10 * 0 + 9
      BY <1>12, SMT
    <2> QED
      BY <2>1, <2>2, Division, SMT
  <1>14. ASSUME NEW i \in 0 .. 10 PROVE Q[i] \in Nat
    BY <1>2, <1>4, <1>5, <1>6, <1>7, <1>8, <1>9, <1>10, <1>11, <1>12, <1>13,
       SMT
  <1> QED
    BY <1>2, <1>3, <1>13, <1>14, SMT DEF Q

\* So the loop that counts the digits ends.
LEMMA DigitsCounted ==
  ASSUME NEW v \in Nat, v <= MaxInt, NEW b \in {10, 16}
  PROVE  /\ DigitCount(v, b) \in 0 .. 10
         /\ Quotients(v, b)[DigitCount(v, b)] = 0
         /\ \/ DigitCount(v, b) = 0
            \/ Quotients(v, b)[DigitCount(v, b) - 1] # 0
  <1> DEFINE Q == Quotients(v, b)
             P(i) == Q[i] = 0 /\ (i = 0 \/ Q[i - 1] # 0)
  <1>1. Q[10] = 0
    BY QuotientsFall
  <1> HIDE DEF Q
  <1>2. \E i \in 0 .. 10 : P(i)
    <2>1. CASE Q[0] = 0
      BY <2>1
    <2>2. CASE Q[0] # 0 /\ Q[1] = 0
      <3>1. 1 \in 0 .. 10 /\ 1 - 1 = 0
        OBVIOUS
      <3> QED
        BY <2>2, <3>1
    <2>3. CASE Q[1] # 0 /\ Q[2] = 0
      <3>1. 2 \in 0 .. 10 /\ 2 - 1 = 1
        OBVIOUS
      <3> QED
        BY <2>3, <3>1
    <2>4. CASE Q[2] # 0 /\ Q[3] = 0
      <3>1. 3 \in 0 .. 10 /\ 3 - 1 = 2
        OBVIOUS
      <3> QED
        BY <2>4, <3>1
    <2>5. CASE Q[3] # 0 /\ Q[4] = 0
      <3>1. 4 \in 0 .. 10 /\ 4 - 1 = 3
        OBVIOUS
      <3> QED
        BY <2>5, <3>1
    <2>6. CASE Q[4] # 0 /\ Q[5] = 0
      <3>1. 5 \in 0 .. 10 /\ 5 - 1 = 4
        OBVIOUS
      <3> QED
        BY <2>6, <3>1
    <2>7. CASE Q[5] # 0 /\ Q[6] = 0
      <3>1. 6 \in 0 .. 10 /\ 6 - 1 = 5
        OBVIOUS
      <3> QED
        BY <2>7, <3>1
    <2>8. CASE Q[6] # 0 /\ Q[7] = 0
      <3>1. 7 \in 0 .. 10 /\ 7 - 1 = 6
        OBVIOUS
      <3> QED
        BY <2>8, <3>1
    <2>9. CASE Q[7] # 0 /\ Q[8] = 0
      <3>1. 8 \in 0 .. 10 /\ 8 - 1 = 7
        OBVIOUS
      <3> QED
        BY <2>9, <3>1
    <2>10. CASE Q[8] # 0 /\ Q[9] = 0
      <3>1. 9 \in 0 .. 10 /\ 9 - 1 = 8
        OBVIOUS
      <3> QED
        BY <2>10, <3>1
    <2>11. CASE Q[9] # 0 /\ Q[10] = 0
      <3>1. 10 \in 0 .. 10 /\ 10 - 1 = 9
        OBVIOUS
      <3> QED
        BY <2>11, <3>1
    <2> QED
      BY <1>1, <2>1, <2>2, <2>3, <2>4, <2>5, <2>6, <2>7, <2>8, <2>9, <2>10, <2>11
  <1>3. DigitCount(v, b) = CHOOSE i \in 0 .. 10 : P(i)
    BY DEF DigitCount, Q
  <1> HIDE DEF P
  <1>4. DigitCount(v, b) \in 0 .. 10 /\ P(DigitCount(v, b))
    BY <1>2, <1>3
  <1> QED
    BY <1>4 DEF P, Q

\* An int is a number.
LEMMA IntSize == MaxInt \in Nat
  BY SMT DEF MaxInt

\* What the assumption says of a number that is printed.
LEMMA NumberBounds ==
  ASSUME NEW v \in Numbers
  PROVE  v \in Int /\ -MaxInt <= v /\ v <= MaxInt
  BY NumbersAssumption

\* A number that is not negative has the digits that are counted; 0, and in base
\* 16 a number of one digit, have zeros in front.
LEMMA LengthOfNatural ==
  ASSUME NEW v \in Nat, v <= MaxInt, NEW b \in {10, 16}
  PROVE  /\ ItoaLength(v, b) \in 1 .. 10
         /\ Quotients(v, b)[ItoaLength(v, b)] = 0
         /\ b = 10 /\ 0 < v => Quotients(v, b)[ItoaLength(v, b) - 1] # 0
  <1> DEFINE Q == Quotients(v, b)
             D == DigitCount(v, b)
             len == ItoaLength(v, b)
  <1>1. D \in 0 .. 10 /\ Q[D] = 0 /\ (D = 0 \/ Q[D - 1] # 0)
    BY DigitsCounted
  <1>2. /\ Q[0] = v /\ Q[1] = Q[0] \div b /\ Q[2] = Q[1] \div b
    <2>1. \A i \in 1 .. 10 : Q[i] = Q[i - 1] \div b
      BY QuotientsFall
    <2> HIDE DEF Q
    <2>2. Q[1] = Q[0] \div b /\ Q[2] = Q[1] \div b
      BY <2>1
    <2> QED
      BY <2>2, QuotientsFall DEF Q
  <1>3. len = IF b = 16 /\ D < 2 THEN 2 ELSE IF D = 0 THEN 1 ELSE D
    <2>1. ~(b = 10 /\ v < 0)
      OBVIOUS
    <2> QED
      BY <2>1 DEF ItoaLength
  <1> HIDE DEF Q, D, len
  <1>4. 0 \div b = 0
    BY Division
  <1>5. CASE D = 0
    <2>1. Q[0] = 0 /\ Q[1] = 0 /\ Q[2] = 0 /\ v = 0
      BY <1>1, <1>2, <1>4, <1>5
    <2>2. len \in {1, 2}
      BY <1>3, <1>5
    <2> QED
      BY <2>1, <2>2 DEF Q, len
  <1>6. CASE D = 1 /\ b = 16
    <2>1. Q[2] = 0 /\ len = 2
      BY <1>1, <1>2, <1>3, <1>4, <1>6
    <2> QED
      BY <1>6, <2>1 DEF Q, len
  <1>7. CASE D # 0 /\ ~(D = 1 /\ b = 16)
    <2>1. len = D /\ D \in 1 .. 10
      BY <1>1, <1>3, <1>7
    <2> QED
      BY <1>1, <2>1 DEF Q, len
  <1> QED
    BY <1>5, <1>6, <1>7

\* The length that is returned is the number of characters that are stored, and
\* no more than the buffer of mini_itoa's caller holds.
LEMMA ItoaLen ==
  ASSUME NEW v \in Int, -MaxInt <= v, v <= MaxInt, NEW b \in {10, 16}
  PROVE  Len(Itoa(v, b)) = ItoaLength(v, b) /\ ItoaLength(v, b) \in 1 .. 10
  <1> DEFINE len == ItoaLength(v, b)
             signed == b = 10 /\ v < 0
             Q == Quotients(IF signed THEN -v ELSE v, b)
  <1>1. len \in 1 .. 10 /\ (signed => len \in 2 .. 10)
    <2>1. CASE v >= 0
      <3>1. v \in Nat
        BY <2>1
      <3> QED
        BY <2>1, <3>1, LengthOfNatural
    <2>2. CASE v < 0 /\ b = 16
      <3>1. DigitCount(v, b) = 8 /\ ~signed
        BY <2>2 DEF DigitCount
      <3>2. len = 8
        BY <2>2, <3>1 DEF ItoaLength
      <3> QED
        BY <3>1, <3>2
    <2>3. CASE v < 0 /\ b = 10
      <3> DEFINE D == DigitCount(-v, b)
      <3>1. -v \in Nat /\ -v <= MaxInt /\ -v # 0
        BY <2>3, IntSize
      <3>2. /\ D \in 0 .. 10 /\ Quotients(-v, b)[D] = 0 /\ Quotients(-v, b)[0] = -v
        BY <3>1, DigitsCounted, QuotientsFall
      <3>3. D # 0
        BY <3>1, <3>2
      <3>4. len = Lesser(D + 1, 10)
        <4> HIDE DEF D
        <4>1. len = IF b = 16 /\ D < 2 THEN 2 ELSE IF D = 0 THEN 1
                    ELSE Lesser(D + 1, 10)
          BY <2>3 DEF ItoaLength, D
        <4> QED
          BY <2>3, <3>3, <4>1
      <3> HIDE DEF D, len
      <3> QED
        BY <3>2, <3>3, <3>4 DEF Lesser
    <2> QED
      BY <2>1, <2>2, <2>3
  <1> HIDE DEF len
  <1>2. Itoa(v, b) = IF signed
                     THEN <<"-">> \o [j \in 1 .. len - 1 |-> Q[len - j] % b]
                     ELSE [j \in 1 .. len |-> Q[len - j] % b]
    BY DEF Itoa, len
  <1> HIDE DEF Q, signed
  <1>3. CASE signed
    <2> DEFINE f == [j \in 1 .. len - 1 |-> Q[len - j] % b]
               T == {f[j] : j \in 1 .. len - 1} \cup {"-"}
    <2>1. len - 1 \in Nat
      BY <1>1
    <2>2. f \in Seq(T) /\ Len(f) = len - 1
      BY <2>1
    <2>3. <<"-">> \in Seq(T) /\ Len(<<"-">>) = 1
      OBVIOUS
    <2>4. Itoa(v, b) = <<"-">> \o f
      BY <1>2, <1>3
    <2> HIDE DEF f, T
    <2>5. Len(<<"-">> \o f) = 1 + (len - 1)
      BY <2>2, <2>3
    <2> QED
      BY <1>1, <2>4, <2>5 DEF len
  <1>4. CASE ~signed
    <2> DEFINE f == [j \in 1 .. len |-> Q[len - j] % b]
    <2>1. Len(f) = len
      BY <1>1
    <2> QED
      BY <1>1, <1>2, <1>4, <2>1 DEF len
  <1> QED
    BY <1>3, <1>4

\* The digits of a number that is not negative, as remainders of its quotients.
LEMMA DigitsOfNatural ==
  ASSUME NEW v \in Nat, v <= MaxInt, NEW b \in {10, 16}
  PROVE  /\ Len(Itoa(v, b)) = ItoaLength(v, b)
         /\ \A j \in 1 .. ItoaLength(v, b) :
              Itoa(v, b)[j] = Quotients(v, b)[ItoaLength(v, b) - j] % b
  <1>1. ~(b = 10 /\ v < 0) /\ v \in Int /\ -MaxInt <= v
    BY IntSize
  <1>2. Itoa(v, b) = [j \in 1 .. ItoaLength(v, b) |->
                        Quotients(v, b)[ItoaLength(v, b) - j] % b]
    BY <1>1 DEF Itoa
  <1>3. Len(Itoa(v, b)) = ItoaLength(v, b)
    BY <1>1, ItoaLen
  <1> QED
    BY <1>2, <1>3

\* The value that is read back: the recursion of ValueOf takes one digit after
\* the other, and v without its last len - j digits is what it has after j.
LEMMA ReadBack ==
  ASSUME NEW v \in Nat, v <= MaxInt, NEW b \in {10, 16}
  PROVE  ValueOf(Itoa(v, b), b) = v
  <1> DEFINE Q == Quotients(v, b)
             len == ItoaLength(v, b)
             s == Itoa(v, b)
             F(q) == [j \in 0 .. len |-> IF j = 0 THEN 0 ELSE q[j - 1] * b + s[j]]
             w == [j \in 0 .. len |-> Q[len - j]]
             value == CHOOSE q : q = F(q)
  <1>1. len \in 1 .. 10 /\ Q[len] = 0
    BY LengthOfNatural
  <1>2. Len(s) = len /\ \A j \in 1 .. len : s[j] = Q[len - j] % b
    BY DigitsOfNatural
  <1>3. /\ \A i \in 0 .. 10 : Q[i] \in Nat
        /\ Q[0] = v
        /\ \A i \in 1 .. 10 : Q[i] = Q[i - 1] \div b
    BY QuotientsFall
  <1>4. ValueOf(s, b) = value[len]
    BY <1>2, Zenon DEF ValueOf
  <1> HIDE DEF Q, len, s
  <1>5. ASSUME NEW j \in 1 .. len
        PROVE  Q[len - (j - 1)] * b + s[j] = Q[len - j]
    <2>1. /\ len - j \in 0 .. 10 /\ len - (j - 1) \in 1 .. 10
          /\ (len - (j - 1)) - 1 = len - j
      BY <1>1
    <2>2. Q[len - j] \in Nat /\ Q[len - (j - 1)] = Q[len - j] \div b
      BY <1>3, <2>1
    <2>3. s[j] = Q[len - j] % b
      BY <1>2
    <2> DEFINE x == Q[len - j]
    <2> HIDE DEF x
    <2>4. x \in Nat /\ Q[len - (j - 1)] = x \div b /\ s[j] = x % b
      BY <2>2, <2>3 DEF x
    <2>5. (x \div b) * b + (x % b) = x
      BY <2>4, Division
    <2> QED
      BY <2>4, <2>5 DEF x
  <1>6. w = F(w)
    <2>1. ASSUME NEW j \in 0 .. len PROVE w[j] = F(w)[j]
      <3>1. CASE j = 0
        BY <1>1, <3>1
      <3>2. CASE j # 0
        <4>1. j \in 1 .. len /\ j - 1 \in 0 .. len
          BY <1>1, <3>2
        <4> QED
          BY <1>5, <3>2, <4>1
      <3> QED
        BY <3>1, <3>2
    <2> QED
      BY <2>1
  <1> HIDE DEF w
  <1>7. value = F(value)
    <2>1. \E q : q = F(q)
      BY <1>6
    <2> HIDE DEF F
    <2> QED
      BY <2>1
  <1> HIDE DEF value
  <1>8. value[0] = Q[len]
    BY <1>1, <1>7
  <1>9. ASSUME NEW j \in 1 .. len, value[j - 1] = Q[len - (j - 1)]
        PROVE  value[j] = Q[len - j]
    <2>1. value[j] = value[j - 1] * b + s[j]
      BY <1>1, <1>7
    <2> QED
      BY <1>5, <1>9, <2>1
  <1> DEFINE R(j) == j <= len => value[j] = Q[len - j]
  <1>10. ASSUME NEW i \in 0 .. 9, R(i) PROVE R(i + 1)
    <2>1. SUFFICES ASSUME i + 1 <= len PROVE value[i + 1] = Q[len - (i + 1)]
      OBVIOUS
    <2>2. i + 1 \in 1 .. len /\ (i + 1) - 1 = i /\ i <= len
      BY <1>1, <2>1
    <2> QED
      BY <1>9, <1>10, <2>2
  <1>11. R(0)
    BY <1>8, <1>1
  <1> HIDE DEF R
  <1>12. R(1)
    BY <1>10, <1>11, 0 \in 0 .. 9, 0 + 1 = 1
  <1>13. R(2)
    BY <1>10, <1>12, 1 \in 0 .. 9, 1 + 1 = 2
  <1>14. R(3)
    BY <1>10, <1>13, 2 \in 0 .. 9, 2 + 1 = 3
  <1>15. R(4)
    BY <1>10, <1>14, 3 \in 0 .. 9, 3 + 1 = 4
  <1>16. R(5)
    BY <1>10, <1>15, 4 \in 0 .. 9, 4 + 1 = 5
  <1>17. R(6)
    BY <1>10, <1>16, 5 \in 0 .. 9, 5 + 1 = 6
  <1>18. R(7)
    BY <1>10, <1>17, 6 \in 0 .. 9, 6 + 1 = 7
  <1>19. R(8)
    BY <1>10, <1>18, 7 \in 0 .. 9, 7 + 1 = 8
  <1>20. R(9)
    BY <1>10, <1>19, 8 \in 0 .. 9, 8 + 1 = 9
  <1>21. R(10)
    BY <1>10, <1>20, 9 \in 0 .. 9, 9 + 1 = 10
  <1>22. R(len)
    BY <1>1, <1>12, <1>13, <1>14, <1>15, <1>16, <1>17, <1>18, <1>19, <1>20, <1>21
  <1>23. value[len] = Q[0]
    BY <1>1, <1>22 DEF R
  <1> QED
    BY <1>3, <1>4, <1>23 DEF s

\* The first digit in base 10 is what the quotients before it leave.
LEMMA LeadingDigit ==
  ASSUME NEW v \in Nat, v <= MaxInt, 0 < v
  PROVE  Itoa(v, 10)[1] # 0
  <1> DEFINE Q == Quotients(v, 10)
             len == ItoaLength(v, 10)
  <1>1. 10 \in {10, 16}
    OBVIOUS
  <1>2. len \in 1 .. 10 /\ Q[len] = 0 /\ Q[len - 1] # 0
    BY <1>1, LengthOfNatural
  <1>3. Itoa(v, 10)[1] = Q[len - 1] % 10
    BY <1>1, <1>2, DigitsOfNatural
  <1>4. Q[len - 1] \in Nat /\ Q[len] = Q[len - 1] \div 10
    <2>1. len - 1 \in 0 .. 10 /\ len \in 1 .. 10
      BY <1>2
    <2> HIDE DEF len
    <2> QED
      BY <1>1, <2>1, QuotientsFall
  <1> HIDE DEF Q, len
  <1>5. Q[len - 1] % 10 = Q[len - 1]
    BY <1>1, <1>2, <1>4, Division
  <1> QED
    BY <1>2, <1>3, <1>5

\* What mini_itoa prints of a number that is not negative denotes it, and in base
\* 10 nothing is printed in front of it.
LEMMA DigitsDenote ==
  ASSUME NEW v \in Numbers, NEW b \in {10, 16}, v >= 0
  PROVE  /\ ValueOf(Itoa(v, b), b) = v
         /\ b = 10 /\ v > 0 => Itoa(v, b)[1] # 0
  <1>1. v \in Nat /\ v <= MaxInt
    BY NumberBounds
  <1>2. ValueOf(Itoa(v, b), b) = v
    BY <1>1, ReadBack
  <1>3. ASSUME b = 10, v > 0 PROVE Itoa(v, b)[1] # 0
    BY <1>1, <1>3, LeadingDigit
  <1> QED
    BY <1>2, <1>3

\* Wherever the formatter is about to convert a number that is not negative, the
\* digits it gets for it denote that number.
THEOREM NumbersRead == Spec => []NumbersReadBack
  <1>1. NumbersReadBack
    BY DigitsDenote DEF NumbersReadBack
  <1> QED
    BY <1>1, PTL

-----------------------------------------------------------------------------
(* The steps of the loop.                                                  *)

\* A message starts with nothing stored.  At pTail there is no room for it.
LEMMA Started ==
  ASSUME NEW b \in Nat, b <= SIZE
  PROVE  /\ Start(b) \in Cursors /\ Start(b).k = 0
         /\ Sound(b, Start(b), b = SIZE)
  <1> DEFINE c == Start(b)
  <1>1. /\ c.w = b /\ c.max = Lesser(SIZE - b, MAXRX) /\ c.k = 0
        /\ c.ring = [x \in Cells |-> Old]
        /\ c = [w |-> c.w, max |-> c.max, k |-> c.k, ring |-> c.ring]
    BY DEF Start
  <1> HIDE DEF c
  <1>2. c.max = Front(b) /\ Front(b) \in Nat /\ (Front(b) = 0 => b = SIZE)
    BY <1>1, Sizes DEF Lesser, Front
  <1>3. c.ring \in [Cells -> Int]
    BY <1>1 DEF Old
  <1>4. c \in Cursors
    BY <1>1, <1>2, <1>3 DEF Cursors
  <1>5. 0 \in Cells
    BY Sizes DEF Cells
  <1>6. Trail(b, c, 0)
    <2>1. ASSUME NEW i \in Cells PROVE c.ring[Cell(b, i)] = Old /\ i \in Nat
      BY <1>1, CellInRing, InCells
    <2> QED
      BY <1>1, <2>1, Sizes DEF Trail
  <1>7. Whole(b, c, 0)
    <2>1. ASSUME NEW i \in Cells PROVE ~(i < 0)
      BY InCells
    <2> QED
      BY <1>1, <2>1 DEF Whole
  <1>8. Room(b, c, 0) \/ (c.max = 0 /\ b = SIZE)
    BY <1>1, <1>2 DEF Room, First
  <1>9. SoundAt(b, c, b = SIZE, 0)
    BY <1>6, <1>7, <1>8 DEF SoundAt
  <1> QED
    BY <1>1, <1>4, <1>5, <1>9 DEF Sound, c

\* The invariant holds at the start: a first message of which nothing is stored.
LEMMA InitParse == Short /\ Init => ParseInv
  <1> SUFFICES ASSUME Short, Init PROVE ParseInv
    OBVIOUS
  <1>1. /\ base = 0 /\ at = Start(0) /\ pc = "text" /\ cut = FALSE /\ risky = FALSE
    BY DEF Init
  <1>2. 0 \in Nat /\ 0 <= SIZE /\ (0 = SIZE) = FALSE
    BY Sizes
  <1>3. Start(0) \in Cursors /\ Start(0).k = 0 /\ Sound(0, Start(0), FALSE)
    BY <1>2, Started
  <1>4. Sound(base, at, risky)
    BY <1>1, <1>3, Zenon
  <1>5. at \in Cursors /\ at.k <= MAXMSG
    BY <1>1, <1>3, Sizes
  <1> QED
    BY <1>1, <1>2, <1>4, <1>5 DEF ParseInv

\* A step of the loop that stores n characters, as d says.
LEMMA MovedStep ==
  ASSUME ParseInv, NEW n \in Nat, Fits(n), NEW d, NEW r \in BOOLEAN,
         Ends(base, d, at.k + n, r), Moved(d, n),
         risky' = r, risky => r, UNCHANGED base, cut' \in {cut, FALSE},
         pc' \in Conversions \cup {"text", "done"},
         at'.max = 0 => pc' \in {"text", "done"}
  PROVE  ParseInv'
  <1>1. at' = [d EXCEPT !.k = at.k + n]
    BY DEF Moved
  <1>2. at' \in Cursors /\ at'.k = at.k + n /\ Sound(base', at', risky')
    BY <1>1 DEF Ends
  <1>3. at'.k <= MAXMSG
    BY <1>2 DEF Fits
  <1>4. cut' \in BOOLEAN /\ (~risky' => ~cut')
    <2>1. cut \in BOOLEAN /\ (~risky => ~cut) /\ (~risky' => ~risky)
      BY Zenon DEF ParseInv
    <2>2. CASE cut' = cut
      BY <2>1, <2>2, Zenon
    <2>3. CASE cut' = FALSE
      BY <2>3
    <2> QED
      BY <2>2, <2>3
  <1>5. Short' /\ base' \in Nat /\ base' <= SIZE
    BY DEF ParseInv, Short
  <1>6. risky' \in BOOLEAN /\ pc' \in Conversions \cup {"text", "done"}
        /\ (at'.max = 0 => pc' \in {"text", "done"})
    OBVIOUS
  <1> QED
    BY <1>2, <1>3, <1>4, <1>5, <1>6 DEF ParseInv

\* What a conversion finds: room, and n characters that keep the message below
\* the limit.
LEMMA Ready ==
  ASSUME ParseInv
  PROVE  /\ base \in Nat /\ base <= SIZE /\ at \in Cursors /\ at.max \in Nat /\ at.k \in Nat
         /\ risky \in BOOLEAN /\ Sound(base, at, risky)
         /\ pc \notin {"text", "done"} => 0 < at.max
  <1>1. at.max \in Nat /\ at.k \in Nat
    BY Fields DEF ParseInv
  <1> QED
    BY <1>1 DEF ParseInv

\* A conversion of n characters that are stored as d says.
LEMMA ConvertStep ==
  ASSUME ParseInv, NEW conv \in Conversions, NEW n \in Nat, NEW d, NEW r \in BOOLEAN,
         Convert(conv, d, n), Ends(base, d, at.k + n, r), risky' = r, risky => r
  PROVE  ParseInv'
  <1>1. /\ Fits(n) /\ Moved(d, n) /\ pc' = "text" /\ UNCHANGED <<base, cut>>
    BY DEF Convert
  <1> QED
    BY <1>1, MovedStep

\* There is room for something when the loop comes to a conversion.
LEMMA Converting ==
  ASSUME ParseInv, NEW conv \in Conversions, NEW n \in Nat, NEW d, Convert(conv, d, n)
  PROVE  0 < at.max /\ at.k + n < MAXRX
  <1>1. pc = conv /\ conv \notin {"text", "done"}
    BY DEF Convert, Conversions
  <1> QED
    BY <1>1, Ready, Sizes DEF Convert, Fits, ParseInv, Short

\* Text, up to a conversion or to the end.
LEMMA TextStep == ParseInv /\ Text => ParseInv'
  <1> SUFFICES ASSUME ParseInv, Text PROVE ParseInv'
    OBVIOUS
  <1>1. PICK n \in 0 .. MAXMSG, conv \in Conversions \cup {"done"} :
          LET c       == String(at, n, conv # "done")
              missing == at.k + n - c.k
          IN  /\ Fits(n + Least(conv))
              /\ Moved(c, n)
              /\ cut' = (missing > 0)
              /\ pc' = IF missing > 1 \/ (missing = 1 /\ conv # "done")
                       THEN "misread" ELSE conv
    BY DEF Text
  <1>2. 0 < at.max /\ UNCHANGED <<base, risky>>
    BY Ready DEF Text
  <1>3. n \in Nat /\ Least(conv) \in Nat
    BY Sizes DEF Least, Conversions
  <1>4. Fits(n)
    BY <1>1, <1>3, Ready, Sizes DEF Fits
  <1> DEFINE d == String(at, n, conv # "done")
  <1>5. Ends(base, d, at.k + n, risky) /\ 0 < d.max /\ d.k = at.k + n
    <2>1. at.k + n < MAXRX /\ (conv # "done") \in BOOLEAN
      BY <1>3, <1>4, Ready, Sizes DEF Fits, ParseInv, Short
    <2> QED
      BY <1>2, <1>3, <2>1, Ready, StringStored
  <1>6. Moved(d, n) /\ pc' = conv /\ cut' = FALSE
    <2> DEFINE missing == at.k + n - d.k
    <2>1. missing = 0
      BY <1>3, <1>5, Ready
    <2>2. Moved(d, n)
      BY <1>1
    <2>3. cut' = (missing > 0)
      BY <1>1
    <2>4. pc' = IF missing > 1 \/ (missing = 1 /\ conv # "done")
               THEN "misread" ELSE conv
      BY <1>1
    <2> HIDE DEF missing, d
    <2>5. pc' = conv
      BY <2>1, <2>4
    <2>6. cut' = FALSE
      <3>1. (missing > 0) = FALSE
        BY <2>1
      <3> QED
        BY <2>3, <3>1, Zenon
    <2> QED
      BY <2>2, <2>5, <2>6
  <1> HIDE DEF d
  <1>7. at' = [d EXCEPT !.k = at.k + n]
    BY <1>6 DEF Moved
  <1>8. at'.max # 0
    BY <1>5, <1>7
  <1> QED
    BY <1>2, <1>3, <1>4, <1>5, <1>6, <1>8, Ready, MovedStep

\* MaxSize has run out: never, unless a conversion did not renew it.
LEMMA NoRoomStep == ParseInv /\ NoRoom => ParseInv'
  <1> SUFFICES ASSUME ParseInv, NoRoom PROVE ParseInv'
    OBVIOUS
  <1>1. /\ at.max <= 0 /\ pc' = "done" /\ cut' \in BOOLEAN
        /\ UNCHANGED <<base, at, risky>>
    BY DEF NoRoom
  <1>2. at.max = 0
    BY <1>1, Ready
  <1>3. risky
    BY <1>2 DEF ParseInv, Sound, SoundAt, Room
  <1> QED
    BY <1>1, <1>3 DEF ParseInv

\* %s.
LEMMA StringStep == ParseInv /\ ConvertString => ParseInv'
  <1> SUFFICES ASSUME ParseInv, ConvertString PROVE ParseInv'
    OBVIOUS
  <1>1. PICK n \in 0 .. MAXMSG : Convert("s", String(at, n, FALSE), n)
    BY DEF ConvertString
  <1>2. n \in Nat /\ "s" \in Conversions /\ risky' = risky
    BY Sizes DEF Conversions, ConvertString
  <1>3. 0 < at.max /\ at.k + n < MAXRX
    BY <1>1, <1>2, Converting
  <1>4. Ends(base, String(at, n, FALSE), at.k + n, risky)
    BY <1>2, <1>3, Ready, StringStored
  <1> QED
    BY <1>1, <1>2, <1>4, Ready, ConvertStep

\* %d and %x, with as many digits as mini_itoa returns.
LEMMA NumberStep == ParseInv /\ ConvertNumber => ParseInv'
  <1> SUFFICES ASSUME ParseInv, ConvertNumber PROVE ParseInv'
    OBVIOUS
  <1>1. PICK v \in Numbers, b \in {10, 16} :
          Convert(IF b = 10 THEN "d" ELSE "x", Number(at, Len(Itoa(v, b))), Len(Itoa(v, b)))
    BY DEF ConvertNumber
  <1> DEFINE n    == Len(Itoa(v, b))
             conv == IF b = 10 THEN "d" ELSE "x"
  <1>2. n \in Nat
    BY NumberBounds, ItoaLen
  <1>3. conv \in Conversions /\ risky' = risky
    BY DEF Conversions, ConvertNumber
  <1>4. Convert(conv, Number(at, n), n)
    BY <1>1
  <1> HIDE DEF n, conv
  <1>5. 0 < at.max /\ at.k + n < MAXRX
    BY <1>2, <1>3, <1>4, Converting
  <1>6. Ends(base, Number(at, n), at.k + n, risky)
    BY <1>2, <1>5, Ready, NumberStored
  <1> QED
    BY <1>2, <1>3, <1>4, <1>6, Ready, ConvertStep

\* The date.
LEMMA DateStep == ParseInv /\ ConvertDate => ParseInv'
  <1> SUFFICES ASSUME ParseInv, ConvertDate PROVE ParseInv'
    OBVIOUS
  <1>1. Convert("T", TimeAndDate(at), DATELEN) /\ risky' = risky
    BY DEF ConvertDate
  <1>2. DATELEN \in Nat /\ "T" \in Conversions
    BY Sizes DEF Conversions
  <1>3. 0 < at.max /\ at.k + DATELEN < MAXRX
    BY <1>1, <1>2, Converting
  <1>4. Ends(base, TimeAndDate(at), at.k + DATELEN, risky)
    BY <1>3, Ready, DateStored
  <1> QED
    BY <1>1, <1>2, <1>4, Ready, ConvertStep

\* The conversions that remember whether they met pTail.
LEMMA MeetsStep ==
  ASSUME ParseInv, NEW conv \in Conversions, NEW n \in Nat, NEW d,
         Convert(conv, d, n), Meets(n), Ends(base, d, at.k + n, risky \/ Met(at, n))
  PROVE  ParseInv'
  <1>1. risky' = (risky \/ Met(at, n)) /\ (risky \/ Met(at, n)) \in BOOLEAN
    BY DEF Meets, Met
  <1> QED
    BY <1>1, ConvertStep

\* %c.
LEMMA CharStep == ParseInv /\ ConvertChar => ParseInv'
  <1> SUFFICES ASSUME ParseInv, ConvertChar PROVE ParseInv'
    OBVIOUS
  <1>1. Convert("c", Put(at, 1), 1) /\ Meets(1) /\ "c" \in Conversions /\ 1 \in Nat
    BY DEF ConvertChar, Conversions
  <1>2. 0 < at.max /\ at.k + 1 < MAXRX
    BY <1>1, Converting
  <1>3. Ends(base, Put(at, 1), at.k + 1, risky \/ Met(at, 1))
    BY <1>2, Ready, CharStored
  <1> QED
    BY <1>1, <1>3, MeetsStep

\* %r.
LEMMA RawStep == ParseInv /\ ConvertRaw => ParseInv'
  <1> SUFFICES ASSUME ParseInv, ConvertRaw PROVE ParseInv'
    OBVIOUS
  <1>1. PICK n \in 0 .. MAXMSG : Convert("r", RawData(at, n), 2 * n) /\ Meets(2 * n)
    BY DEF ConvertRaw
  <1>2. n \in Nat /\ 2 * n \in Nat /\ "r" \in Conversions
    BY Sizes DEF Conversions
  <1>3. 0 < at.max /\ at.k + 2 * n < MAXRX
    BY <1>1, <1>2, Converting
  <1>4. Ends(base, RawData(at, n), at.k + 2 * n, risky \/ Met(at, 2 * n))
    BY <1>2, <1>3, Ready, RawStored
  <1> QED
    BY <1>1, <1>2, <1>4, MeetsStep

\* %b.
LEMMA BinStep == ParseInv /\ ConvertBin => ParseInv'
  <1> SUFFICES ASSUME ParseInv, ConvertBin PROVE ParseInv'
    OBVIOUS
  <1>1. PICK n \in 0 .. MAXMSG : Convert("b", BinBuff(at, n), n) /\ Meets(n)
    BY DEF ConvertBin
  <1>2. n \in Nat /\ "b" \in Conversions
    BY Sizes DEF Conversions
  <1>3. 0 < at.max /\ at.k + n < MAXRX
    BY <1>1, <1>2, Converting
  <1>4. Ends(base, BinBuff(at, n), at.k + n, risky \/ Met(at, n))
    BY <1>2, <1>3, Ready, BinStored
  <1> QED
    BY <1>1, <1>2, <1>4, MeetsStep

\* A conversion that is none.
LEMMA OtherStep == ParseInv /\ ConvertOther => ParseInv'
  <1> SUFFICES ASSUME ParseInv, ConvertOther PROVE ParseInv'
    OBVIOUS
  <1>1. /\ Convert("other", NoConversion(at), 2) /\ Meets(2)
        /\ "other" \in Conversions /\ 2 \in Nat
    BY DEF ConvertOther, Conversions
  <1>2. 0 < at.max /\ at.k + 2 < MAXRX
    BY <1>1, Converting
  <1>3. Ends(base, NoConversion(at), at.k + 2, risky \/ Met(at, 2))
    BY <1>2, Ready, OtherStored
  <1> QED
    BY <1>1, <1>3, MeetsStep

\* The next message starts at the iterator, even when that is pTail.
LEMMA NextMessageStep == ParseInv /\ NextMessage => ParseInv'
  <1> SUFFICES ASSUME ParseInv, NextMessage PROVE ParseInv'
    OBVIOUS
  <1>1. /\ base' = at.w /\ at' = Start(at.w) /\ pc' = "text" /\ cut' = FALSE
        /\ risky' = (at.w = SIZE)
    BY DEF NextMessage
  <1>2. at.w \in Nat /\ at.w <= SIZE
    BY Ready, Fields DEF Sound, SoundAt, Trail
  <1>3. /\ Start(at.w) \in Cursors /\ Start(at.w).k = 0
        /\ Sound(at.w, Start(at.w), at.w = SIZE)
    BY <1>2, Started
  <1>4. Sound(base', at', risky') /\ at' \in Cursors /\ at'.k <= MAXMSG
    BY <1>1, <1>3, Sizes
  <1>5. risky' \in BOOLEAN /\ cut' \in BOOLEAN /\ ~cut'
    BY <1>1
  <1> QED
    BY <1>1, <1>2, <1>4, <1>5 DEF ParseInv

\* Every step of the loop keeps the invariant.
LEMMA NextParse == ParseInv /\ [Next]_vars => ParseInv'
  <1> SUFFICES ASSUME ParseInv, [Next]_vars PROVE ParseInv'
    OBVIOUS
  <1>1. CASE Text
    BY <1>1, TextStep
  <1>2. CASE NoRoom
    BY <1>2, NoRoomStep
  <1>3. CASE ConvertString
    BY <1>3, StringStep
  <1>4. CASE ConvertNumber
    BY <1>4, NumberStep
  <1>5. CASE ConvertDate
    BY <1>5, DateStep
  <1>6. CASE ConvertChar
    BY <1>6, CharStep
  <1>7. CASE ConvertRaw
    BY <1>7, RawStep
  <1>8. CASE ConvertBin
    BY <1>8, BinStep
  <1>9. CASE ConvertOther
    BY <1>9, OtherStep
  <1>10. CASE NextMessage
    BY <1>10, NextMessageStep
  <1>11. CASE UNCHANGED vars
    BY <1>11 DEF ParseInv, vars
  <1> QED
    BY <1>1, <1>2, <1>3, <1>4, <1>5, <1>6, <1>7, <1>8, <1>9, <1>10, <1>11 DEF Next

\* The inductive invariant, in every state.
THEOREM ParseHolds == ASSUME Short PROVE Spec => []ParseInv
  <1>1. Init => ParseInv
    BY InitParse
  <1>2. ParseInv /\ [Next]_vars => ParseInv'
    BY NextParse
  <1> QED
    BY <1>1, <1>2, PTL DEF Spec

-----------------------------------------------------------------------------
(* What the invariant says of the ring.                                    *)

\* The types: a cell is reached by its distance from the start of the message.
LEMMA ParseType == ParseInv => TypeOK
  <1> SUFFICES ASSUME ParseInv PROVE TypeOK
    OBVIOUS
  <1>1. /\ at.w \in Nat /\ at.max \in Nat /\ at.k \in Nat /\ at.ring \in [Cells -> Int]
        /\ base \in Nat /\ base <= SIZE
        /\ at.k <= MAXMSG /\ MAXMSG < MAXRX
    BY Fields DEF ParseInv, Short
  <1>2. PICK p \in Cells : SoundAt(base, at, risky, p)
    BY DEF ParseInv, Sound
  <1>3. p \in Nat /\ p < SIZE
    BY InCells
  <1>4. at.w <= SIZE
    BY <1>2 DEF SoundAt, Trail
  <1>5. at.max <= MAXRX
    <2>1. CASE at.max = 0
      BY <2>1, Sizes
    <2>2. CASE Room(base, at, p)
      <3>1. at.max = Front(base) - p \/ at.max = MAXRX - p
        BY <2>2 DEF Room, First, Second
      <3>2. Front(base) \in Nat /\ Front(base) <= MAXRX
        BY <1>1, Sizes DEF Front
      <3> QED
        BY <1>1, <1>3, <3>1, <3>2, Sizes
    <2> QED
      BY <1>2, <2>1, <2>2 DEF SoundAt
  <1>6. at.ring \in [Cells -> {Pad} \cup 0 .. MAXMSG]
    <2>1. ASSUME NEW x \in Cells PROVE at.ring[x] \in {Pad} \cup 0 .. MAXMSG
      <3> DEFINE i == IF base <= x THEN x - base ELSE x + SIZE - base
      <3>1. x \in Nat /\ x < SIZE
        BY InCells
      <3>2. i \in Nat /\ i < SIZE /\ Cell(base, i) = x
        BY <1>1, <3>1, Sizes DEF Cell
      <3>3. i \in Cells
        BY <3>2, Sizes DEF Cells
      <3> HIDE DEF i
      <3>4. CASE i < p
        <4>1. Pad <= at.ring[x] /\ at.ring[x] <= at.k
          BY <1>2, <3>2, <3>3, <3>4 DEF SoundAt, Trail
        <4> QED
          BY <1>1, <4>1, Sizes DEF Pad
      <3>5. CASE p <= i
        <4>1. at.ring[x] = Old
          BY <1>2, <3>2, <3>3, <3>5 DEF SoundAt, Trail
        <4> QED
          BY <4>1, Sizes DEF Old
      <3> QED
        BY <1>3, <3>2, <3>4, <3>5
    <2> QED
      BY <1>1, <2>1
  <1>7. base \in 0 .. SIZE /\ at.w \in 0 .. SIZE /\ at.max \in 0 .. MAXRX
        /\ at.k \in 0 .. MAXMSG
    BY <1>1, <1>4, <1>5, Sizes
  <1> QED
    BY <1>6, <1>7 DEF ParseInv, TypeOK

\* The iterator is as many cells past the start of the message as were stored.
LEMMA WrittenCells ==
  ASSUME base \in Nat, base <= SIZE, at \in Cursors, NEW p \in Cells,
         Trail(base, at, p)
  PROVE  /\ (at.w - base) % SIZE = p
         /\ Written \subseteq Cells
         /\ \A i \in Cells : (i \in Written <=> i < p) /\ CellAt(i) = at.ring[Cell(base, i)]
  <1>1. /\ SIZE \in Nat \ {0} /\ p \in Nat /\ p < SIZE /\ at.w \in Nat
    BY Sizes, InCells, Fields
  <1>2. at.w = base + p \/ at.w = base + p - SIZE
    BY DEF Trail
  <1>3. at.w - base \in Int /\ (at.w - base = p \/ at.w - base = p - SIZE)
    BY <1>1, <1>2
  <1> DEFINE x == at.w - base
  <1>4. x % SIZE = p
    <2> HIDE DEF x
    <2>1. x \in Int /\ (x = p \/ x = p - SIZE)
      BY <1>3 DEF x
    <2>2. CASE x = p
      BY <1>1, <2>1, <2>2
    <2>3. CASE x = p - SIZE
      <3>1. -SIZE <= x /\ x < 0 /\ x + SIZE = p
        BY <1>1, <2>1, <2>3
      <3>2. x % SIZE = x + SIZE
        BY <1>1, <2>1, <3>1, OneLap
      <3> QED
        BY <3>1, <3>2
    <2> QED
      BY <2>1, <2>2, <2>3
  <1>5. Written = 0 .. p - 1
    BY <1>4 DEF Written
  <1>6. Written \subseteq Cells
    BY <1>1, <1>5 DEF Cells
  <1>7. ASSUME NEW i \in Cells
        PROVE  (i \in Written <=> i < p) /\ CellAt(i) = at.ring[Cell(base, i)]
    <2>1. i \in Nat /\ Cell(base, i) = (base + i) % SIZE
      BY InCells, CellInRing
    <2> QED
      BY <1>1, <1>5, <2>1 DEF CellAt
  <1> QED
    BY <1>4, <1>6, <1>7

\* The order of the characters.
LEMMA ParseOrder == ParseInv => InOrder
  <1> SUFFICES ASSUME ParseInv PROVE InOrder
    OBVIOUS
  <1>1. base \in Nat /\ base <= SIZE /\ at \in Cursors
    BY DEF ParseInv
  <1>2. PICK p \in Cells : SoundAt(base, at, risky, p)
    BY DEF ParseInv, Sound
  <1>3. Trail(base, at, p)
    BY <1>2 DEF SoundAt
  <1>4. /\ Written \subseteq Cells
        /\ \A i \in Cells : (i \in Written <=> i < p) /\ CellAt(i) = at.ring[Cell(base, i)]
    BY <1>1, <1>3, WrittenCells
  <1>5. p \in Nat
    BY InCells
  <1>6. ASSUME NEW i \in 0 .. SIZE - 1 PROVE i \in Written <=> CellAt(i) # Old
    <2>1. i \in Cells /\ i \in Nat
      BY DEF Cells
    <2>2. i < p \/ p <= i
      BY <1>5, <2>1
    <2> QED
      BY <1>3, <1>4, <2>1, <2>2 DEF Trail
  <1>7. ASSUME NEW i \in Written, NEW j \in Written,
               i < j, CellAt(i) # Pad, CellAt(j) # Pad
        PROVE  CellAt(i) < CellAt(j)
    <2>1. i \in Cells /\ j \in Cells /\ j < p
      BY <1>4
    <2> QED
      BY <1>3, <1>4, <1>7, <2>1 DEF Trail
  <1> QED
    BY <1>6, <1>7 DEF InOrder

\* The number of cells.
LEMMA ParseLength == ParseInv => NoExtraCells
  <1> SUFFICES ASSUME ParseInv PROVE NoExtraCells
    OBVIOUS
  <1>1. base \in Nat /\ base <= SIZE /\ at \in Cursors
    BY DEF ParseInv
  <1>2. PICK p \in Cells : SoundAt(base, at, risky, p)
    BY DEF ParseInv, Sound
  <1>3. Trail(base, at, p)
    BY <1>2 DEF SoundAt
  <1>4. /\ (at.w - base) % SIZE = p /\ Written \subseteq Cells
        /\ \A i \in Cells : (i \in Written <=> i < p) /\ CellAt(i) = at.ring[Cell(base, i)]
    BY <1>1, <1>3, WrittenCells
  <1>5. ASSUME NEW i \in Written PROVE CellAt(i) <= at.k
    BY <1>3, <1>4 DEF Trail
  <1>6. p <= at.k + 1
    BY <1>3 DEF Trail
  <1>7. ASSUME \A i \in Written : CellAt(i) # Pad PROVE p <= at.k
    <2>1. ASSUME NEW i \in Cells, i < p PROVE at.ring[Cell(base, i)] # Pad
      BY <1>4, <1>7, <2>1
    <2> QED
      BY <1>3, <2>1 DEF Trail
  <1> QED
    BY <1>4, <1>5, <1>6, <1>7 DEF NoExtraCells

\* Nothing is missing unless a conversion met pTail; MaxSize is then never 0.
LEMMA ParseComplete == ParseInv => Complete
  <1> SUFFICES ASSUME ParseInv, ~risky
               PROVE  /\ \A i \in Written : CellAt(i) = i + 1
                      /\ (at.w - base) % SIZE = at.k
                      /\ at.w < SIZE /\ ~cut
    BY DEF Complete
  <1>1. base \in Nat /\ base <= SIZE /\ at \in Cursors /\ ~cut
    BY DEF ParseInv
  <1>2. PICK p \in Cells : SoundAt(base, at, risky, p)
    BY DEF ParseInv, Sound
  <1>3. Trail(base, at, p) /\ Whole(base, at, p) /\ Room(base, at, p)
    BY <1>2 DEF SoundAt
  <1>4. /\ (at.w - base) % SIZE = p /\ Written \subseteq Cells
        /\ \A i \in Cells : (i \in Written <=> i < p) /\ CellAt(i) = at.ring[Cell(base, i)]
    BY <1>1, <1>3, WrittenCells
  <1>5. ASSUME NEW i \in Written PROVE CellAt(i) = i + 1
    BY <1>3, <1>4 DEF Whole
  <1>6. at.w < SIZE
    <2>1. at.w \in Nat /\ at.max \in Nat /\ p \in Nat /\ p < SIZE /\ 0 < at.max
      BY <1>1, <1>3, InCells, Fields DEF Room
    <2>2. CASE First(base, at, p)
      <3>1. /\ at.w = base + p /\ at.max = Front(base) - p
            /\ Front(base) \in Nat /\ base + Front(base) <= SIZE
        BY <1>1, <2>2, Parts DEF First
      <3> QED
        BY <1>1, <2>1, <3>1, Sizes
    <2>3. CASE Second(base, at, p)
      <3>1. at.w = base + p - SIZE
        BY <2>3 DEF Second
      <3> QED
        BY <1>1, <2>1, <3>1, Sizes
    <2> QED
      BY <1>3, <2>2, <2>3 DEF Room
  <1>7. (at.w - base) % SIZE = at.k
    BY <1>3, <1>4 DEF Whole
  <1> QED
    BY <1>1, <1>5, <1>6, <1>7

\* Every variable holds a value of its kind; the iterator is never past pTail.
THEOREM TypeCorrect == ASSUME MAXMSG < MAXRX PROVE Spec => []TypeOK
  <1>1. ParseInv => TypeOK
    BY ParseType
  <1> QED
    BY <1>1, ParseHolds, PTL DEF Short

\* Whatever conversions a message has and wherever it meets pTail, its cells hold
\* characters of it in their order and none twice, and no other cell is written.
THEOREM CharactersInOrder == ASSUME MAXMSG < MAXRX PROVE Spec => []InOrder
  <1>1. ParseInv => InOrder
    BY ParseOrder
  <1> QED
    BY <1>1, ParseHolds, PTL DEF Short

\* A message takes one cell a character at most, but for the blank before a byte
\* that would have been split.
THEOREM LengthBounded == ASSUME MAXMSG < MAXRX PROVE Spec => []NoExtraCells
  <1>1. ParseInv => NoExtraCells
    BY ParseLength
  <1> QED
    BY <1>1, ParseHolds, PTL DEF Short

\* A message below the limit is there from its first character to its last, with
\* the iterator back in the ring, unless a %c, %r, %b or unknown conversion met
\* pTail.
THEOREM MessagesComplete == ASSUME MAXMSG < MAXRX PROVE Spec => []Complete
  <1>1. ParseInv => Complete
    BY ParseComplete
  <1> QED
    BY <1>1, ParseHolds, PTL DEF Short
=============================================================================
