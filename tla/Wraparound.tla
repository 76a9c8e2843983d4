----------------------------- MODULE Wraparound -----------------------------
(***************************************************************************)
(* Arithmetic around the end of the FLASH segment and of its sectors, for  *)
(* every size: the facts about \div and % that the proofs of FlashLog and  *)
(* DumpLog share.                                                          *)
(***************************************************************************)
EXTENDS Integers, TLAPS

\* Quotient and remainder.
LEMMA DivMod ==
  ASSUME NEW S \in Nat \ {0}, NEW x \in Nat
  PROVE  /\ x \div S \in Nat /\ x % S \in 0 .. S - 1
         /\ x = (x \div S) * S + (x % S)
  BY SMTT(60)

\* ... and there are no others.
LEMMA DivModUnique ==
  ASSUME NEW S \in Nat \ {0}, NEW q \in Nat, NEW r \in 0 .. S - 1
  PROVE  (q * S + r) % S = r /\ (q * S + r) \div S = q
  <1>1. q * S + r \in Nat
    OBVIOUS
  <1> QED
    BY <1>1, SMTT(30)

\* An address in the segment is itself; past the end it is wrapped once.
LEMMA ModWithin ==
  ASSUME NEW S \in Nat \ {0}, NEW x \in 0 .. 2 * S - 1
  PROVE  x % S = IF x < S THEN x ELSE x - S
  OBVIOUS

\* A lap changes nothing.
LEMMA ModLap ==
  ASSUME NEW S \in Nat \ {0}, NEW x \in Nat
  PROVE  (x + S) % S = x % S
  <1> DEFINE q == x \div S
             r == x % S
  <1>1. q \in Nat /\ r \in 0 .. S - 1 /\ x = q * S + r
    BY DivMod
  <1> HIDE DEF q, r
  <1>2. x + S = (q + 1) * S + r /\ q + 1 \in Nat
    BY <1>1
  <1>3. (x + S) % S = r
    BY <1>1, <1>2, DivModUnique
  <1> QED
    BY <1>3 DEF r

\* The multiples are what leaves no remainder.
LEMMA Multiple ==
  ASSUME NEW S \in Nat \ {0}, NEW x \in Nat
  PROVE  x % S = 0 <=> \E k \in Nat : x = k * S
  <1>1. ASSUME x % S = 0 PROVE \E k \in Nat : x = k * S
    <2> DEFINE q == x \div S
               r == x % S
    <2>1. q \in Nat /\ r = 0 /\ x = q * S + r
      BY <1>1, DivMod
    <2> HIDE DEF q, r
    <2>2. x = q * S
      BY <2>1
    <2> QED
      BY <2>1, <2>2
  <1>2. ASSUME NEW k \in Nat, x = k * S PROVE x % S = 0
    <2>1. (k * S + 0) % S = 0 /\ k * S + 0 = k * S
      BY DivModUnique
    <2> QED
      BY <1>2, <2>1
  <1> QED
    BY <1>1, <1>2

\* Products of naturals are ordered as their factors are.
LEMMA Products ==
  ASSUME NEW S \in Nat \ {0}, NEW j \in Nat, NEW k \in Nat
  PROVE  /\ j * S \in Nat
         /\ j < k => j * S + S <= k * S
         /\ j * S < k * S => j < k
         /\ j <= k => j * S <= k * S
  <1>1. j * S \in Nat /\ k * S \in Nat
    OBVIOUS
  <1>2. ASSUME j < k PROVE j * S + S <= k * S
    <2>1. PICK i \in Nat : k = j + 1 + i
      BY <1>2, k - j - 1 \in Nat
    <2>2. k * S = j * S + S + i * S /\ i * S >= 0
      BY <2>1
    <2> QED
      BY <1>1, <2>2
  <1>3. ASSUME j * S < k * S PROVE j < k
    <2>1. CASE k <= j
      <3>1. PICK i \in Nat : j = k + i
        BY <2>1, j - k \in Nat
      <3>2. j * S = k * S + i * S /\ i * S >= 0
        BY <3>1
      <3> QED
        BY <1>1, <1>3, <3>2
    <2> QED
      BY <2>1
  <1>4. j <= k => j * S <= k * S
    <2>1. CASE j = k
      BY <1>1, <2>1
    <2> QED
      BY <1>1, <1>2, <2>1
  <1> QED
    BY <1>1, <1>2, <1>3, <1>4

\* The start of a sector of T plus a sector stays in a segment of S, whole
\* sectors, and is again the start of one, or of the segment.
LEMMA NextMultiple ==
  ASSUME NEW T \in Nat \ {0}, NEW S \in Nat, S % T = 0,
         NEW a \in 0 .. S - 1, a % T = 0
  PROVE  a + T <= S /\ (a + T) % T = 0
  <1>1. PICK j \in Nat : a = j * T
    BY Multiple
  <1>0. PICK k \in Nat : S = k * T
    BY Multiple
  <1>2. j * T < k * T
    BY <1>1, <1>0
  <1>3. j < k
    BY <1>2, Products
  <1> QED
    BY <1>1, <1>0, <1>3, Products, ModLap

\* A remainder is no more than the number itself.
LEMMA ModAtMost ==
  ASSUME NEW S \in Nat \ {0}, NEW x \in Nat
  PROVE  x % S \in 0 .. x
  BY SMTT(30)

\* What a quotient reaches.
LEMMA DivAtLeast ==
  ASSUME NEW S \in Nat \ {0}, NEW x \in Nat, NEW t \in Nat
  PROVE  x \div S >= t <=> x >= t * S
  <1> DEFINE q == x \div S
             r == x % S
  <1>1. q \in Nat /\ r \in 0 .. S - 1 /\ x = q * S + r
    BY DivMod
  <1> HIDE DEF q, r
  <1>2. q * S \in Nat /\ t * S \in Nat /\ (t <= q => t * S <= q * S)
        /\ (q < t => q * S + S <= t * S)
    BY <1>1, Products
  <1>3. q >= t <=> x >= t * S
    BY <1>1, <1>2
  <1> QED
    BY <1>3 DEF q

\* A difference below zero rounds down, and is no lower than its bound.
LEMMA DivBelowZero ==
  ASSUME NEW S \in Nat \ {0}, NEW n \in Nat, NEW x \in Int,
         x < 0, x >= -(n * S)
  PROVE  x \div S \in Int /\ x \div S < 0 /\ x \div S >= -n
  BY SMTT(30)

\* Conversion to a uint16, one lap below zero at most.
LEMMA Uint16 ==
  ASSUME NEW q \in Int, q < 65536, q >= -65536
  PROVE  q % 65536 = IF q >= 0 THEN q ELSE q + 65536
  BY SMTT(30)
=============================================================================
