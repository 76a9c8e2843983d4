------------------------------ MODULE RxParse ------------------------------
(***************************************************************************)
(* The formatter: Logger_ParseAndWriteRxMessage and the functions it calls *)
(* lay a message out in the ring, one conversion after the other, with the *)
(* writer's pointer as their iterator.  A message may start anywhere, and  *)
(* the part of it that does not fit in front of pTail goes on at pHead.    *)
(*                                                                         *)
(* A message is a run of text, a conversion, a run of text, and so on.     *)
(* Its characters are numbered from 1 in the order a printf would print    *)
(* them, and the ring holds these numbers, so that a cell tells which      *)
(* character it got.  MAXMSG is the length of the longest message: below   *)
(* MAXRX, the limit in the code, if callers keep to README.md (255         *)
(* characters against 256 here), but nothing makes them.                   *)
(*                                                                         *)
(* What the digits of a number are is the business of Itoa, at the end.    *)
(***************************************************************************)
EXTENDS Integers, Sequences

CONSTANTS
  SIZE,     \* LOGGER_CONFIG_DOUBLE_BUFFER_SIZE_BYTES
  MAXRX,    \* LOGGER_CONFIG_MAX_RX_MESSAGE_SIZE_BYTES
  MAXMSG,   \* characters of the longest message (bound)
  DATELEN,  \* DATE_AND_TIME_STR_SIZE
  Numbers   \* the numbers that are printed

ASSUME SizesAssumption ==
  /\ SIZE \in Nat /\ MAXRX \in Nat /\ DATELEN \in Nat /\ MAXMSG \in Nat
  /\ 0 < DATELEN /\ DATELEN < MAXRX /\ MAXRX < SIZE

\* The parameter of mini_itoa is an int; the least one has no negation.
MaxInt == 2147483647

ASSUME NumbersAssumption ==
  /\ \A v \in Numbers : v \in Int /\ -MaxInt <= v /\ v <= MaxInt
  /\ 0 \in Numbers

Cells == 0 .. SIZE - 1

\* What a cell holds when no character of the message does: what it held
\* before, or the blank that precedes a split byte.
Old == 0
Pad == -1

Conversions == {"s", "d", "x", "c", "r", "b", "T", "other"}

VARIABLES
  base,  \* where the message starts
  at,    \* iterator, MaxSize, number of the last character, the ring
  pc,    \* "text": at the head of the loop; a conversion; "done"; "misread"
  cut,   \* ghost: there was more in fmt when MaxSize ended the loop, or a text
  risky  \* ghost: a conversion that ignores the rest of its message met pTail

vars == <<base, at, pc, cut, risky>>

\* MaxSize at the start, and BuffLeftOverSize, a uint8: 256 does not fit in it.
FirstPart == IF SIZE - base < MAXRX THEN SIZE - base ELSE MAXRX
LeftOver  == (MAXRX - FirstPart) % MAXRX

Lesser(a, b) == IF a < b THEN a ELSE b

-----------------------------------------------------------------------------
(* The functions that store characters, as operators on the cursor c: its  *)
(* iterator w, what is left of MaxSize (max), the last character k and the *)
(* ring.                                                                   *)

\* n times *P_BUFF_ITER++ = next character, MaxSize--.
Put(c, n) ==
  [w |-> c.w + n, max |-> c.max - n, k |-> c.k + n,
   ring |-> [x \in Cells |-> IF x \in c.w .. c.w + n - 1 THEN c.k + 1 + (x - c.w)
                             ELSE c.ring[x]]]

\* P_BUFF_ITER = P_BUFF_HEAD, and m characters allowed from there.
GoOnAtHead(c, m) == [c EXCEPT !.w = 0, !.max = m]

WrapAtTail(c) == IF c.w = SIZE THEN [c EXCEPT !.w = 0] ELSE c

\* Mutant: the rest of the string is not written after the wrap.
MutantString(c, n, more) ==
  LET a == Lesser(n, c.max)
      d == Put(c, a)
      e == WrapAtTail(d)
  IN  IF e.max = 0 THEN [e EXCEPT !.max = LeftOver] ELSE e

\* Logger_ParseAndWriteString: n characters, and whether a '%' follows them.
String(c, n, more) ==
  LET a == Lesser(n, c.max)
      d == Put(c, a)
      e == WrapAtTail(
             IF LeftOver # 0 /\ d.max = 0 /\ (a < n \/ more)
             THEN Put(GoOnAtHead(d, LeftOver), Lesser(n - a, LeftOver)) ELSE d)
  IN  IF e.max = 0 THEN [e EXCEPT !.max = LeftOver] ELSE e

\* Mutant: the digits after the wrap start from the first one again.
MutantNumber(c, n) ==
  IF n < c.max THEN WrapAtTail(Put(c, n))
  ELSE LET d == Put(c, c.max)
       IN  WrapAtTail(Put([GoOnAtHead(d, LeftOver) EXCEPT !.k = c.k],
                          Lesser(n - c.max, LeftOver)))

\* Logger_ParseAndWriteNumber: n digits.
Number(c, n) ==
  IF n < c.max THEN WrapAtTail(Put(c, n))
  ELSE LET d == Put(c, c.max)
       IN  WrapAtTail(Put(GoOnAtHead(d, LeftOver), Lesser(n - c.max, LeftOver)))

\* The blank in front of a byte that would have been split.
PadOne(c) == [c EXCEPT !.w = @ + 1, !.max = @ - 1, !.ring[c.w] = Pad]

\* Mutant: behind pHead, all the digits are stored again.
MutantRawData(c, n) ==
  IF 2 * n <= c.max THEN WrapAtTail(Put(c, 2 * n))
  ELSE LET even == IF c.max % 2 = 1 THEN PadOne(c) ELSE c
           d    == Put(even, even.max)
           rest == Lesser(LeftOver, 2 * n)
       IN  IF d.w = SIZE THEN Put(GoOnAtHead(d, rest), 2 * (rest \div 2)) ELSE d

\* Logger_ParseAndWriteRawData: n bytes as two digits each.  MaxSize is not
\* told of the cells behind pHead but for those of this buffer.
RawData(c, n) ==
  IF 2 * n <= c.max THEN WrapAtTail(Put(c, 2 * n))
  ELSE LET even == IF c.max % 2 = 1 THEN PadOne(c) ELSE c
           d    == Put(even, even.max)
           rest == Lesser(LeftOver, 2 * n - even.max)
       IN  IF d.w = SIZE THEN Put(GoOnAtHead(d, rest), 2 * (rest \div 2)) ELSE d

\* Logger_ParseAndWriteBinBuff: len bytes as they are, but no more than MAXRX;
\* then nothing more.
BinBuff(c, len) ==
  LET n    == Lesser(len, MAXRX)
      d    == Put(c, c.max)
      rest == Lesser(n - c.max, LeftOver)
  IN  IF n <= c.max THEN WrapAtTail(Put(c, n))
      ELSE IF d.w = SIZE THEN Put(GoOnAtHead(d, rest), rest) ELSE d

\* Mutant: MaxSize is not renewed at the wrap.
MutantWhenFull(c) == IF c.max = 0 THEN GoOnAtHead(c, 0) ELSE c

\* The test after each character of a date.
WhenFull(c) == IF c.max = 0 THEN GoOnAtHead(c, LeftOver) ELSE c

\* Logger_WriteTimeAndDate: all of it or nothing.
TimeAndDate(c) ==
  IF c.max + LeftOver < DATELEN THEN c
  ELSE LET a == Lesser(DATELEN, c.max)
       IN  WhenFull(Put(WhenFull(Put(c, a)), DATELEN - a))

\* '%' and a character that is no conversion are copied, if they fit.
NoConversion(c) == IF c.max >= 2 THEN Put(c, 2) ELSE c

-----------------------------------------------------------------------------
(* mini_itoa: digits most significant first, "-" in front of them.         *)

\* Mutant: the loop that counts the digits stops before the last one.
MutantItoa(n, b) ==
  LET quot[i \in 0 .. 10] == IF i = 0 THEN n ELSE quot[i - 1] \div b
      len == CHOOSE i \in 1 .. 10 : quot[i] < b /\ (i = 1 \/ quot[i - 1] >= b)
  IN  [j \in 1 .. len |-> quot[len - j] % b]

\* v after i divisions by b: the ints that the two loops of mini_itoa take
\* their digits from.
Quotients(v, b) ==
  LET quot[i \in 0 .. 10] == IF i = 0 THEN v ELSE quot[i - 1] \div b
  IN  quot

\* for(len = 0; v; v /= b, len++).  A negative int, as a uint32, has all of its
\* eight hexadecimal digits.
DigitCount(v, b) ==
  IF v < 0 THEN 8
  ELSE CHOOSE i \in 0 .. 10 :
         Quotients(v, b)[i] = 0 /\ (i = 0 \/ Quotients(v, b)[i - 1] # 0)

\* The length that mini_itoa returns.  The minus sign is counted as a digit.
ItoaLength(n, b) ==
  LET signed == b = 10 /\ n < 0
      digits == DigitCount(IF signed THEN -n ELSE n, b)
  IN  IF b = 16 /\ digits < 2 THEN 2
      ELSE IF digits = 0 THEN 1
      ELSE IF signed THEN Lesser(digits + 1, 10) ELSE digits

\* mini_itoa(n, buff, b, MaxLen), in base 10 or 16.  The minus sign is not
\* stored as one of the characters it was counted as.
Itoa(n, b) ==
  LET signed == b = 10 /\ n < 0
      quot   == Quotients(IF signed THEN -n ELSE n, b)
      len    == ItoaLength(n, b)
  IN  IF signed
      THEN <<"-">> \o [j \in 1 .. len - 1 |-> quot[len - j] % b]
      ELSE [j \in 1 .. len |-> quot[len - j] % b]

-----------------------------------------------------------------------------
Start(b) == [w |-> b, max |-> Lesser(SIZE - b, MAXRX), k |-> 0,
             ring |-> [x \in Cells |-> Old]]

Init ==
  /\ base = 0 /\ at = Start(0)
  /\ pc = "text" /\ cut = FALSE /\ risky = FALSE

\* A message goes on for n characters.
Fits(n) == at.k + n <= MAXMSG

\* The fewest characters a conversion prints.
Least(conv) == CASE conv \in {"d", "c"}     -> 1
                 [] conv \in {"x", "other"} -> 2
                 [] conv = "T"              -> DATELEN
                 [] OTHER                   -> 0

\* After a step that printed n characters, stored as the cursor c says: the
\* next one has the next number, whatever became of these.
Moved(c, n) == at' = [c EXCEPT !.k = at.k + n]

\* The part of the loop before the switch: text up to a conversion, or to the
\* end of fmt.  Of a text that was cut short the next character is skipped, as
\* if it were the '%', and the one after it is taken for a conversion, with an
\* argument that nobody passed: what then happens is not looked into.
Text ==
  /\ pc = "text" /\ at.max > 0
  /\ \E n \in 0 .. MAXMSG, conv \in Conversions \cup {"done"} :
       LET c       == String(at, n, conv # "done")
           missing == at.k + n - c.k
       IN  /\ Fits(n + Least(conv))
           /\ Moved(c, n)
           /\ cut' = (missing > 0)
           /\ pc' = IF missing > 1 \/ (missing = 1 /\ conv # "done")
                    THEN "misread" ELSE conv
  /\ UNCHANGED <<base, risky>>

\* MaxSize has run out, before the end of fmt or at it: the loop ends.
NoRoom ==
  /\ pc = "text" /\ at.max <= 0
  /\ pc' = "done"
  /\ cut' \in BOOLEAN
  /\ UNCHANGED <<base, at, risky>>

\* The switch: conversion conv is replaced by n characters, stored as in c.
Convert(conv, c, n) ==
  /\ pc = conv /\ Fits(n)
  /\ Moved(c, n)
  /\ pc' = "text"
  /\ UNCHANGED <<base, cut>>

ConvertString ==
  /\ \E n \in 0 .. MAXMSG : Convert("s", String(at, n, FALSE), n)
  /\ UNCHANGED risky

ConvertNumber ==
  /\ \E v \in Numbers, b \in {10, 16} :
       LET n == Len(Itoa(v, b))
       IN  Convert(IF b = 10 THEN "d" ELSE "x", Number(at, n), n)
  /\ UNCHANGED risky

\* A date is left out where there is no room for it.
ConvertDate ==
  /\ Convert("T", TimeAndDate(at), DATELEN)
  /\ UNCHANGED risky

\* n characters that reach pTail.
Meets(n) == risky' = (risky \/ (at.w + at.max = SIZE /\ n >= at.max))

ConvertChar == Convert("c", Put(at, 1), 1) /\ Meets(1)

ConvertRaw ==
  \E n \in 0 .. MAXMSG : Convert("r", RawData(at, n), 2 * n) /\ Meets(2 * n)

ConvertBin ==
  \E n \in 0 .. MAXMSG : Convert("b", BinBuff(at, n), n) /\ Meets(n)

ConvertOther == Convert("other", NoConversion(at), 2) /\ Meets(2)

\* The next message starts where this one ended.
NextMessage ==
  /\ pc = "done"
  /\ base' = at.w /\ at' = Start(at.w)
  /\ pc' = "text" /\ cut' = FALSE
  /\ risky' = (at.w = SIZE)

Next ==
  \/ Text \/ NoRoom
  \/ ConvertString \/ ConvertNumber \/ ConvertDate
  \/ ConvertChar \/ ConvertRaw \/ ConvertBin \/ ConvertOther
  \/ NextMessage

Spec == Init /\ [][Next]_vars

-----------------------------------------------------------------------------
(* Properties.                                                             *)

\* Every variable holds a value of its kind; in particular the iterator stays
\* in the ring, or at pTail.
TypeOK ==
  /\ base \in 0 .. SIZE
  /\ at.w \in 0 .. SIZE /\ at.max \in 0 .. MAXRX /\ at.k \in 0 .. MAXMSG
  /\ at.ring \in [Cells -> {Pad} \cup 0 .. MAXMSG]
  /\ pc \in Conversions \cup {"text", "misread", "done"}
  /\ cut \in BOOLEAN /\ risky \in BOOLEAN

\* The i-th cell from the start of the message, around the ring, and the cells
\* from there to the iterator: what the interrupt will send of it.
CellAt(i) == at.ring[(base + i) % SIZE]
Written   == 0 .. ((at.w - base) % SIZE) - 1

\* Whatever conversions a message has and wherever it meets pTail, its cells
\* hold characters of it, in their order and none twice, and nothing is
\* stored anywhere else: what the wraps of all the conversions are for.
InOrder ==
  /\ \A i \in 0 .. SIZE - 1 : i \in Written <=> CellAt(i) # Old
  /\ \A i, j \in Written :
       i < j /\ CellAt(i) # Pad /\ CellAt(j) # Pad => CellAt(i) < CellAt(j)

\* A message shorter than the limit is there from its first character to its
\* last, and the iterator is back in the ring, unless a %c, %r, %b or unknown
\* conversion met pTail: for these MaxSize is not renewed after the wrap.
Complete ==
  ~risky => /\ \A i \in Written : CellAt(i) = i + 1
            /\ (at.w - base) % SIZE = at.k
            /\ at.w < SIZE /\ ~cut

\* No cell holds more than was printed, and a message takes one cell a character
\* at most, but for the one blank before a byte that would have been split: a
\* message shorter than the limit never takes more of the ring than MAXRX, which
\* is the room that Logger_ParseAndWriteRxMessage asks for.
NoExtraCells ==
  /\ \A i \in Written : CellAt(i) <= at.k
  /\ (at.w - base) % SIZE <= at.k + 1
  /\ (\A i \in Written : CellAt(i) # Pad) => (at.w - base) % SIZE <= at.k

\* "maximum logger message RX packet in bytes" (Logger_Config.h:9): a message of
\* that size is all there, whatever conversions it is made of.
LargestFits ==
  at.k = MAXRX /\ ~risky => /\ (at.w - base) % SIZE = MAXRX
                            /\ \A i \in Written : CellAt(i) = i + 1

\* "go over the list of paramters or until the maximum size has reached"
\* (Logger_Utils.c:515): after a text that did not fit, the loop is over.
StopsAtTheLimit == cut => pc = "done"

\* The number a sequence of digits in base b denotes.
ValueOf(digits, b) ==
  LET value[j \in 0 .. Len(digits)] ==
        IF j = 0 THEN 0 ELSE value[j - 1] * b + digits[j]
  IN  value[Len(digits)]

\* "transform number to string": where a number that is not negative is to be
\* converted, its digits denote it, with no leading zero in base 10.
NumbersReadBack ==
  \A v \in Numbers, b \in {10, 16} :
    pc = (IF b = 10 THEN "d" ELSE "x") /\ v >= 0 =>
      /\ ValueOf(Itoa(v, b), b) = v
      /\ b = 10 /\ v > 0 => Itoa(v, b)[1] # 0
=============================================================================
