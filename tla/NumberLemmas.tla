----------------------------- MODULE NumberLemmas -----------------------------
(***************************************************************************)
(* Facts about numbers that proofs of several components need: the least   *)
(* and the greatest element of a set (Min and Max of FiniteSetsExt), and   *)
(* integer division.                                                       *)
(***************************************************************************)
EXTENDS Integers, FiniteSetsExt, TLAPS, WellFoundedInduction

(* A set of natural numbers has a least element: the induction these       *)
(* proofs need, as the well-foundedness of < that the library proves.      *)
LEMMA LeastNatural ==
  ASSUME NEW S \in SUBSET Nat, S # {}
  PROVE  \E m \in S : \A x \in S : m <= x
<1> DEFINE less == {pair \in Nat \X Nat : pair[1] < pair[2]}
<1>1. IsWellFoundedOn(less, Nat)
  BY NatLessThanWellFounded DEF OpToRel
<1>2. \A x, y \in Nat : y < x => <<y, x>> \in less
  OBVIOUS
<1> HIDE DEF less
<1>3. PICK m \in S : \A x \in S : ~(<<x, m>> \in less)
  BY <1>1, WFMin
<1>4. ASSUME NEW x \in S
      PROVE  m <= x
  <2>1. x \in Nat /\ m \in Nat
    OBVIOUS
  <2>2. ~(x < m)
    BY <1>2, <1>3, <2>1
  <2> QED
    BY <2>1, <2>2
<1> QED
  BY <1>4

(* Min of a set of integers bounded from below is its least element.       *)
LEMMA SmallestOf ==
  ASSUME NEW low \in Int, NEW S \in SUBSET Int, S # {}, \A x \in S : low <= x
  PROVE  Min(S) \in S /\ \A x \in S : Min(S) <= x
<1> DEFINE above == {k \in Nat : low + k \in S}
<1>1. \A x \in S : x \in Int /\ x - low \in Nat /\ low + (x - low) = x
  OBVIOUS
<1>2. above # {}
  BY <1>1
<1>3. PICK k \in above : \A x \in above : k <= x
  BY <1>2, LeastNatural
<1>4. low + k \in S /\ k \in Nat
  BY <1>3
<1>5. \A x \in S : low + k <= x
  BY <1>1, <1>3, <1>4
<1> QED
  BY <1>4, <1>5 DEF Min

(* Max of a set of integers bounded from above is its greatest element.    *)
LEMMA LargestOf ==
  ASSUME NEW high \in Int, NEW S \in SUBSET Int, S # {}, \A x \in S : x <= high
  PROVE  Max(S) \in S /\ \A x \in S : x <= Max(S)
<1> DEFINE below == {k \in Nat : high - k \in S}
<1>1. \A x \in S : x \in Int /\ high - x \in Nat /\ high - (high - x) = x
  OBVIOUS
<1>2. below # {}
  BY <1>1
<1>3. PICK k \in below : \A x \in below : k <= x
  BY <1>2, LeastNatural
<1>4. high - k \in S /\ k \in Nat
  BY <1>3
<1>5. ASSUME NEW x \in S
      PROVE  x <= high - k
  <2>1. high - x \in below
    BY <1>1
  <2>2. k <= high - x
    BY <1>3, <2>1
  <2> QED
    BY <1>1, <1>4, <2>2
<1> QED
  BY <1>4, <1>5 DEF Max

(* The largest number of a set, once it is known.                          *)
LEMMA LargestIs ==
  ASSUME NEW S \in SUBSET Int, NEW x \in S, \A y \in S : y <= x
  PROVE  Max(S) = x
<1>1. \A z \in S : (\A y \in S : z >= y) => z = x
  OBVIOUS
<1> QED
  BY <1>1 DEF Max

(* Likewise the smallest.                                                  *)
LEMMA SmallestIs ==
  ASSUME NEW S \in SUBSET Int, NEW x \in S, \A y \in S : x <= y
  PROVE  Min(S) = x
<1>1. \A z \in S : (\A y \in S : z <= y) => z = x
  OBVIOUS
<1> QED
  BY <1>1 DEF Min

(* Integer division: the multiple it finds, and the dates that share it.   *)
LEMMA Quotient ==
  ASSUME NEW d \in Int, NEW n \in Nat \ {0}
  PROVE  /\ d \div n \in Int
         /\ (d \div n) * n \in Int
         /\ (d \div n) * n <= d /\ d < (d \div n) * n + n
         /\ \A x \in Int : (d \div n) * n <= x /\ x < (d \div n) * n + n => x \div n = d \div n
         /\ ((d \div n) * n + n) = ((d \div n) + 1) * n
         /\ ((d \div n) * n + n) \div n = (d \div n) + 1
OBVIOUS
=============================================================================
