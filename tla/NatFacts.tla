------------------------------ MODULE NatFacts ------------------------------
(***************************************************************************)
(* Facts about natural numbers that the proofs of several components rest  *)
(* on: the arbiter picks a least ID and a field increment a least bit; the *)
(* timer and the CSR counters hold a number in two halves.                 *)
(***************************************************************************)
EXTENDS Integers, TLAPS, WellFoundedInduction

\* A nonempty set of naturals has a least element.
LEMMA NatMinimum ==
    ASSUME NEW S, S \subseteq Nat, S # {}
    PROVE  \E b \in S : \A d \in S : b <= d
<1>1. PICK b \in S : \A d \in S : ~ (<<d, b>> \in OpToRel(<, Nat))
  BY NatLessThanWellFounded, WFMin
<1>2. ASSUME NEW d \in S
      PROVE  b <= d
  <2>1. ~ (<<d, b>> \in OpToRel(<, Nat))
    BY <1>1
  <2>2. ~ (d < b)
    BY <2>1 DEF OpToRel
  <2>3. QED
    BY <2>2
<1>3. QED
  BY <1>2
(***************************************************************************)
(* A number below H^2 is a pair of numbers below H                         *)
(***************************************************************************)
LEMMA Square ==
    ASSUME NEW H \in Nat, H > 1
    PROVE  H * H \in Nat /\ H * H >= H + H
  OBVIOUS

\* The halves of a number.
LEMMA HalvesOf ==
    ASSUME NEW H \in Nat, H > 1, NEW x \in 0..(H * H - 1)
    PROVE  /\ x % H \in 0..(H - 1)
           /\ x \div H \in 0..(H - 1)
           /\ (x \div H) * H + (x % H) = x
<1>1. H * H \in Nat /\ x \in Nat
  BY Square
<1>2. /\ x % H \in 0..(H - 1)
      /\ x \div H \in Nat
      /\ x = H * (x \div H) + (x % H)
  BY <1>1
<1>3. \A q \in Nat : q >= H => H * q >= H * H
  OBVIOUS
<1>4. x \div H < H
  BY <1>1, <1>2, <1>3
<1>5. \A q \in Nat : q * H = H * q
  OBVIOUS
<1>6. QED
  BY <1>1, <1>2, <1>4, <1>5

\* A pair of halves is a number of twice the width.
LEMMA PairOf ==
    ASSUME NEW H \in Nat, H > 1, NEW h \in 0..(H - 1), NEW l \in 0..(H - 1)
    PROVE  h * H + l \in 0..(H * H - 1)
<1>1. H * H \in Nat
  BY Square
<1>2. h * H \in Nat /\ h * H <= (H - 1) * H
  OBVIOUS
<1>3. (H - 1) * H = H * H - H
  OBVIOUS
<1>4. QED
  BY <1>1, <1>2, <1>3

\* The halves of a pair.
LEMMA HalvesOfPair ==
    ASSUME NEW H \in Nat, H > 1, NEW h \in 0..(H - 1), NEW l \in 0..(H - 1)
    PROVE  (h * H + l) \div H = h /\ (h * H + l) % H = l
<1> DEFINE x == h * H + l
           q == x \div H
           r == x % H
<1>1. x \in 0..(H * H - 1)
  BY PairOf
<1>2. q \in 0..(H - 1) /\ r \in 0..(H - 1) /\ q * H + r = h * H + l
  BY <1>1, HalvesOf
<1> HIDE DEF q, r
<1>3. \A a, b \in Nat : a > b => a * H >= b * H + H
  <2>1. ASSUME NEW a \in Nat, NEW b \in Nat, a > b
        PROVE  a * H >= b * H + H
    <3>1. (b + 1) * H = b * H + H
      OBVIOUS
    <3>2. a * H >= (b + 1) * H
      BY <2>1
    <3>3. QED
      BY <3>1, <3>2
  <2>2. QED
    BY <2>1
<1>4. h * H \in Nat /\ q * H \in Nat
  BY <1>2
<1>5. q = h
  BY <1>2, <1>3, <1>4
<1>6. r = l
  BY <1>2, <1>4, <1>5
<1>7. QED
  BY <1>5, <1>6 DEF q, r
=============================================================================
