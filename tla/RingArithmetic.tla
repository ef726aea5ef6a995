--------------------------- MODULE RingArithmetic ---------------------------
(***************************************************************************)
(* Remainders modulo the number of slots of a ring, for the proofs about   *)
(* ActivityQueue and ThreadPool: the code keeps the counts of pushes and   *)
(* pops modulo the ring's size only.                                       *)
(***************************************************************************)
EXTENDS Integers, TLAPS

LEMMA Quotient ==
  ASSUME NEW a \in Nat, NEW m \in Nat \ {0}
  PROVE  \E q \in Nat : a = q * m + (a % m) /\ a % m \in 0 .. m - 1
<1>1. a % m \in 0 .. m - 1 /\ a \div m \in Nat /\ a = (a \div m) * m + (a % m)
  OBVIOUS
<1>. QED BY <1>1

(* A multiple that is more than another is more by one m at least.         *)
LEMMA Multiples ==
  ASSUME NEW m \in Nat \ {0}, NEW p \in Nat, NEW q \in Nat, p > q
  PROVE  p * m >= q * m + m
<1>1. p * m >= (q + 1) * m
  OBVIOUS
<1>2. (q + 1) * m = q * m + m
  OBVIOUS
<1>3. p * m \in Nat /\ q * m \in Nat
  OBVIOUS
<1>. QED BY <1>1, <1>2, <1>3

LEMMA Remainder ==
  ASSUME NEW m \in Nat \ {0}, NEW a \in Nat, NEW q \in Nat, NEW r \in 0 .. m - 1,
         a = q * m + r
  PROVE  a % m = r
<1>1. PICK p \in Nat : a = p * m + (a % m) /\ a % m \in 0 .. m - 1
  BY Quotient
<1>2. a % m \in Nat /\ r \in Nat /\ p * m \in Nat /\ q * m \in Nat
  BY <1>1
<1>3. CASE p = q
  BY <1>1, <1>2, <1>3
<1>4. CASE p > q
  <2>1. p * m >= q * m + m
    BY <1>4, Multiples
  <2>. QED BY <1>1, <1>2, <2>1
<1>5. CASE q > p
  <2>1. q * m >= p * m + m
    BY <1>5, Multiples
  <2>. QED BY <1>1, <1>2, <2>1
<1>. QED BY <1>3, <1>4, <1>5

(* Less than a lap apart, equal indices are equal counts.                  *)
LEMMA SameSlot ==
  ASSUME NEW m \in Nat \ {0}, NEW a \in Nat, NEW b \in Nat, a <= b, b < a + m, a % m = b % m
  PROVE  a = b
<1>1. PICK q \in Nat : a = q * m + (a % m) /\ a % m \in 0 .. m - 1
  BY Quotient
<1>2. PICK p \in Nat : b = p * m + (b % m) /\ b % m \in 0 .. m - 1
  BY Quotient
<1>3. a % m \in Nat /\ p * m \in Nat /\ q * m \in Nat
  BY <1>1
<1>4. CASE p = q
  BY <1>1, <1>2, <1>4
<1>5. CASE p > q
  <2>1. p * m >= q * m + m
    BY <1>5, Multiples
  <2>. QED BY <1>1, <1>2, <1>3, <2>1
<1>6. CASE q > p
  <2>1. q * m >= p * m + m
    BY <1>6, Multiples
  <2>. QED BY <1>1, <1>2, <1>3, <2>1
<1>. QED BY <1>4, <1>5, <1>6

LEMMA Below == ASSUME NEW m \in Nat \ {0}, NEW a \in 0 .. m - 1 PROVE a % m = a
<1>1. a = 0 * m + a
  OBVIOUS
<1>. QED BY <1>1, Remainder

(* A lap later the index is the same.                                      *)
LEMMA NextLap == ASSUME NEW m \in Nat \ {0}, NEW a \in Nat PROVE (a + m) % m = a % m
<1>1. PICK q \in Nat : a = q * m + (a % m) /\ a % m \in 0 .. m - 1
  BY Quotient
<1>2. a + m = (q + 1) * m + (a % m)
  <2>1. (q + 1) * m = q * m + m /\ q * m \in Nat /\ a % m \in Nat
    BY <1>1
  <2>. QED BY <1>1, <2>1
<1>3. q + 1 \in Nat /\ a + m \in Nat
  OBVIOUS
<1>. QED BY <1>1, <1>2, <1>3, Remainder

(* The index after that of a count is the index of the next count.         *)
LEMMA NextIndex == ASSUME NEW m \in Nat \ {0}, NEW a \in Nat PROVE ((a % m) + 1) % m = (a + 1) % m
<1>1. PICK q \in Nat : a = q * m + (a % m) /\ a % m \in 0 .. m - 1
  BY Quotient
<1>2. a % m \in Nat /\ q * m \in Nat /\ a + 1 \in Nat /\ (a % m) + 1 \in Nat
  BY <1>1
<1>3. CASE a % m < m - 1
  <2>1. a + 1 = q * m + ((a % m) + 1)
    BY <1>1, <1>2
  <2>2. (a % m) + 1 \in 0 .. m - 1
    BY <1>2, <1>3
  <2>3. (a + 1) % m = (a % m) + 1
    BY <1>2, <2>1, <2>2, Remainder
  <2>. QED BY <2>2, <2>3, Below
<1>4. CASE a % m = m - 1
  <2>1. a + 1 = (q + 1) * m + 0
    <3>1. (q + 1) * m = q * m + m
      OBVIOUS
    <3>. QED BY <1>1, <1>2, <1>4, <3>1
  <2>2. (a % m) + 1 = 1 * m + 0
    BY <1>4
  <2>3. (a + 1) % m = 0
    <3>1. q + 1 \in Nat /\ 0 \in 0 .. m - 1
      OBVIOUS
    <3>. QED BY <1>2, <2>1, <3>1, Remainder
  <2>4. ((a % m) + 1) % m = 0
    <3>1. 1 \in Nat /\ 0 \in 0 .. m - 1
      OBVIOUS
    <3>. QED BY <1>2, <2>2, <3>1, Remainder
  <2>. QED BY <2>3, <2>4
<1>. QED BY <1>1, <1>2, <1>3, <1>4
=============================================================================
