------------------------- MODULE OvertimeSheetProofs -------------------------
(***************************************************************************)
(* What the calculations of timecards and payslips add up to, for every    *)
(* period, pay, policy and deduction: proofs about OvertimeSheet.          *)
(*                                                                         *)
(* The argument: a sum over a finite set is what it is called (SumRemove), *)
(* which is shown of a smallest counterexample, in the place of induction. *)
(* What is left over when the amounts of the days are rounded down is at   *)
(* least nothing, and no more units than there are days with a remainder   *)
(* (UnitsRemain), so that handing them out in the order of the remainders  *)
(* gives one unit at most to each, and none to a day that has earned       *)
(* nothing (MoneyOfDays).  Units of time are counted as elements of sets:  *)
(* the days divide the period, the intervals of a card what was worked     *)
(* (SumOfParts).                                                           *)
(***************************************************************************)
EXTENDS OvertimeSheet, NumberLemmas, FiniteSetTheorems

-----------------------------------------------------------------------------
(***************************************************************************)
(* Sums.                                                                   *)
(***************************************************************************)
(* Among some subsets of a finite set one is minimal: it takes the place   *)
(* of induction over finite sets, a claim about a smallest counterexample  *)
(* that of an induction step.                                              *)
LEMMA Minimal ==
  ASSUME NEW S, IsFiniteSet(S), NEW Q \in SUBSET SUBSET S, Q # {}
  PROVE  \E T \in Q : \A U \in Q : U \subseteq T => U = T
<1> DEFINE sizes == {Cardinality(T) : T \in Q}
<1>1. \A T \in Q : IsFiniteSet(T) /\ Cardinality(T) \in Nat
  BY FS_Subset, FS_CardinalityType
<1>2. sizes \in SUBSET Nat /\ sizes # {}
  BY <1>1
<1>3. PICK m \in sizes : \A k \in sizes : m <= k
  BY <1>2, LeastNatural
<1>4. PICK T \in Q : Cardinality(T) = m
  BY <1>3
<1>5. ASSUME NEW U \in Q, U \subseteq T
      PROVE  U = T
  <2>1. m <= Cardinality(U) /\ Cardinality(U) \in Nat
    BY <1>1, <1>3
  <2>2. Cardinality(U) <= Cardinality(T)
    BY <1>1, <1>5, FS_Subset
  <2>3. Cardinality(U) = Cardinality(T)
    BY <1>1, <1>4, <2>1, <2>2
  <2> QED
    BY <1>1, <1>5, <2>3, FS_Subset
<1> QED
  BY <1>4, <1>5

(* What SumFunction chooses, and the recursive function that it chooses.   *)
Pick(s) == CHOOSE x \in s : TRUE
Adds(f, S, iter) ==
  iter = [s \in SUBSET S |->
            IF s = {} THEN 0 ELSE f[Pick(s)] + iter[s \ {Pick(s)}]]

(* SumFunctionOnSet is such a function.                                    *)
LEMMA SumChosen ==
  ASSUME NEW f, NEW S
  PROVE  SumFunctionOnSet(f, S) = (CHOOSE iter : Adds(f, S, iter))[S]
BY DEF SumFunctionOnSet, FoldFunctionOnSet, MapThenFoldSet, Adds, Pick

(* There is at most one such function; those of smaller sets agree.        *)
LEMMA AddsOnce ==
  ASSUME NEW f, NEW S, IsFiniteSet(S), NEW T \in SUBSET S,
         NEW g, Adds(f, S, g), NEW h, Adds(f, T, h)
  PROVE  \A s \in SUBSET T : g[s] = h[s]
<1> DEFINE wrong == {s \in SUBSET T : g[s] # h[s]}
<1>1. SUFFICES ASSUME wrong # {} PROVE FALSE
  OBVIOUS
<1>2. IsFiniteSet(T) /\ wrong \in SUBSET SUBSET T
  BY FS_Subset
<1>3. PICK s \in wrong : \A u \in wrong : u \subseteq s => u = s
  <2> HIDE DEF wrong
  <2> QED
    BY <1>1, <1>2, Minimal
<1>4. s \in SUBSET T /\ s \in SUBSET S /\ g[s] # h[s]
  BY <1>3
<1>5. CASE s = {}
  BY <1>4, <1>5 DEF Adds
<1>6. CASE s # {}
  <2> DEFINE x == Pick(s)
  <2>1. x \in s
    BY <1>6 DEF Pick
  <2>2. s \ {x} \in SUBSET T /\ s \ {x} \subseteq s /\ s \ {x} # s
    BY <1>4, <2>1
  <2>3. g[s \ {x}] = h[s \ {x}]
    BY <1>3, <2>2
  <2>4. g[s] = f[x] + g[s \ {x}] /\ h[s] = f[x] + h[s \ {x}]
    BY <1>4, <1>6 DEF Adds
  <2> QED
    BY <1>4, <2>3, <2>4
<1> QED
  BY <1>5, <1>6

(* And there is one.                                                       *)
LEMMA AddsExists ==
  ASSUME NEW f, NEW S, IsFiniteSet(S)
  PROVE  \E g : Adds(f, S, g)
<1> DEFINE wrong == {T \in SUBSET S : ~ \E g : Adds(f, T, g)}
<1>1. SUFFICES ASSUME wrong # {} PROVE FALSE
  OBVIOUS
<1>2. PICK T \in wrong : \A U \in wrong : U \subseteq T => U = T
  <2>1. wrong \in SUBSET SUBSET S
    OBVIOUS
  <2> HIDE DEF wrong
  <2> QED
    BY <1>1, <2>1, Minimal
<1>3. T \in SUBSET S /\ IsFiniteSet(T) /\ ~ \E g : Adds(f, T, g)
  BY <1>2, FS_Subset
<1> DEFINE part(s) == CHOOSE g : Adds(f, s, g)
           g == [s \in SUBSET T |-> IF s = {} THEN 0
                   ELSE f[Pick(s)] + part(s \ {Pick(s)})[s \ {Pick(s)}]]
<1>4. \A s \in SUBSET T : s # T => Adds(f, s, part(s))
  BY <1>2, <1>3
<1>5. ASSUME NEW s \in SUBSET T, s # {}
      PROVE  g[s \ {Pick(s)}] = part(s \ {Pick(s)})[s \ {Pick(s)}]
  <2> DEFINE u == s \ {Pick(s)}
             v == u \ {Pick(u)}
  <2>1. Pick(s) \in s
    BY <1>5 DEF Pick
  <2>2. u \in SUBSET T /\ u # T
    BY <2>1
  <2>3. Adds(f, u, part(u))
    BY <1>4, <2>2
  <2>4. u \in SUBSET u
    OBVIOUS
  <2>5. CASE u = {}
    BY <2>2, <2>3, <2>5, <2>4 DEF Adds
  <2>6. CASE u # {}
    <3>1. v \in SUBSET u /\ v # T /\ v \in SUBSET T
      BY <2>2
    <3>2. Adds(f, v, part(v))
      BY <1>4, <3>1
    <3>3. part(u)[v] = part(v)[v]
      <4>1. IsFiniteSet(u)
        BY <1>3, <2>2, FS_Subset
      <4>2. v \in SUBSET v
        OBVIOUS
      <4> HIDE DEF u, v, part
      <4> QED
        BY <2>3, <3>1, <3>2, <4>1, <4>2, AddsOnce
    <3>4. part(u)[u] = f[Pick(u)] + part(u)[v]
      <4> HIDE DEF part
      <4> QED
        BY <2>3, <2>6, <2>4 DEF Adds
    <3>5. g[u] = f[Pick(u)] + part(v)[v]
      <4> HIDE DEF part
      <4> QED
        BY <2>2, <2>6
    <3> QED
      BY <3>3, <3>4, <3>5
  <2> QED
    BY <2>5, <2>6
<1>6. Adds(f, T, g)
  <2> HIDE DEF part
  <2>1. \A s \in SUBSET T : g[s] = IF s = {} THEN 0 ELSE f[Pick(s)] + g[s \ {Pick(s)}]
    BY <1>5
  <2>2. g = [s \in SUBSET T |-> g[s]]
    OBVIOUS
  <2> HIDE DEF g
  <2> QED
    BY <2>1, <2>2 DEF Adds
<1> QED
  BY <1>3, <1>6

(* A sum is the element its choice falls on, and the sum of the others.    *)
LEMMA SumStep ==
  ASSUME NEW f, NEW S, IsFiniteSet(S)
  PROVE  SumFunctionOnSet(f, S) =
           IF S = {} THEN 0 ELSE f[Pick(S)] + SumFunctionOnSet(f, S \ {Pick(S)})
<1> DEFINE T == S \ {Pick(S)}
<1>1. IsFiniteSet(T) /\ T \in SUBSET S /\ S \in SUBSET S /\ T \in SUBSET T
  BY FS_Subset
<1> HIDE DEF T
<1>2. PICK g : Adds(f, S, g) /\ SumFunctionOnSet(f, S) = g[S]
  <2>1. \E g : Adds(f, S, g)
    BY AddsExists
  <2> QED
    BY <2>1, SumChosen
<1>3. PICK h : Adds(f, T, h) /\ SumFunctionOnSet(f, T) = h[T]
  <2>1. \E h : Adds(f, T, h)
    BY <1>1, AddsExists
  <2> QED
    BY <2>1, SumChosen
<1>4. g[T] = h[T]
  BY <1>1, <1>2, <1>3, AddsOnce
<1>5. g[S] = IF S = {} THEN 0 ELSE f[Pick(S)] + g[T]
  BY <1>1, <1>2 DEF Adds, T
<1> QED
  BY <1>2, <1>3, <1>4, <1>5 DEF T

(* Sums of integers are integers.                                          *)
LEMMA SumInt ==
  ASSUME NEW f, NEW S, IsFiniteSet(S), \A x \in S : f[x] \in Int
  PROVE  SumFunctionOnSet(f, S) \in Int
<1> DEFINE wrong == {T \in SUBSET S : SumFunctionOnSet(f, T) \notin Int}
<1>1. SUFFICES ASSUME wrong # {} PROVE FALSE
  OBVIOUS
<1>2. PICK T \in wrong : \A U \in wrong : U \subseteq T => U = T
  <2>1. wrong \in SUBSET SUBSET S
    OBVIOUS
  <2> HIDE DEF wrong
  <2> QED
    BY <1>1, <2>1, Minimal
<1>3. T \in SUBSET S /\ IsFiniteSet(T) /\ SumFunctionOnSet(f, T) \notin Int
  BY <1>2, FS_Subset
<1>4. T # {}
  <2>1. SumFunctionOnSet(f, {}) = 0
    BY FS_EmptySet, SumStep
  <2> QED
    BY <1>3, <2>1
<1>5. Pick(T) \in T
  BY <1>4 DEF Pick
<1>6. SumFunctionOnSet(f, T \ {Pick(T)}) \in Int
  BY <1>2, <1>5
<1> QED
  BY <1>3, <1>4, <1>5, <1>6, SumStep

(* Whichever element is taken out first.                                   *)
LEMMA SumRemove ==
  ASSUME NEW f, NEW S, IsFiniteSet(S), \A y \in S : f[y] \in Int, NEW x \in S
  PROVE  SumFunctionOnSet(f, S) = f[x] + SumFunctionOnSet(f, S \ {x})
<1> DEFINE Sum(s) == SumFunctionOnSet(f, s)
           wrong == {T \in SUBSET S : ~ \A y \in T : Sum(T) = f[y] + Sum(T \ {y})}
<1>1. SUFFICES ASSUME wrong # {} PROVE FALSE
  OBVIOUS
<1>2. PICK T \in wrong : \A U \in wrong : U \subseteq T => U = T
  <2>1. wrong \in SUBSET SUBSET S
    OBVIOUS
  <2> HIDE DEF wrong
  <2> QED
    BY <1>1, <2>1, Minimal
<1>3. PICK y \in T : Sum(T) # f[y] + Sum(T \ {y})
  BY <1>2
<1>4. T \in SUBSET S /\ IsFiniteSet(T)
  BY <1>2, FS_Subset
<1> DEFINE c == Pick(T)
           rest == (T \ {c}) \ {y}
<1>5. c \in T /\ Sum(T) = f[c] + Sum(T \ {c})
  BY <1>4, SumStep DEF Pick
<1>6. c # y
  BY <1>3, <1>5
<1>7. Sum(T \ {c}) = f[y] + Sum(rest)
  BY <1>2, <1>5, <1>6
<1>8. (T \ {y}) \ {c} = rest
  OBVIOUS
<1>9. Sum(T \ {y}) = f[c] + Sum(rest)
  BY <1>2, <1>5, <1>6, <1>8
<1>10. Sum(rest) \in Int
  BY <1>4, FS_Subset, SumInt
<1>11. f[c] \in Int /\ f[y] \in Int
  BY <1>4, <1>5
<1>12. \A i, j, k \in Int : i + (j + k) = j + (i + k)
  OBVIOUS
<1>13. f[c] + Sum(T \ {c}) = f[y] + Sum(T \ {y})
  BY <1>7, <1>9, <1>10, <1>11, <1>12
<1> QED
  BY <1>3, <1>5, <1>13

(* Induction over the subsets of a finite set, one element at a time, with *)
(* the set of those of which the claim holds in the place of a predicate.  *)
LEMMA Accumulate ==
  ASSUME NEW S, IsFiniteSet(S), NEW good, {} \in good,
         \A T \in SUBSET S : \A x \in T : T \ {x} \in good => T \in good
  PROVE  S \in good
<1> DEFINE wrong == {T \in SUBSET S : T \notin good}
<1>1. SUFFICES ASSUME wrong # {} PROVE FALSE
  OBVIOUS
<1>2. PICK T \in wrong : \A U \in wrong : U \subseteq T => U = T
  <2>1. wrong \in SUBSET SUBSET S
    OBVIOUS
  <2> HIDE DEF wrong
  <2> QED
    BY <1>1, <2>1, Minimal
<1>3. PICK x \in T : TRUE
  BY <1>2
<1>4. T \ {x} \in good
  BY <1>2
<1> QED
  BY <1>2, <1>4

(* The sum of nothing.                                                     *)
LEMMA SumNothing ==
  ASSUME NEW f
  PROVE  SumFunctionOnSet(f, {}) = 0
BY FS_EmptySet, SumStep

(* Sums are linear.                                                        *)
LEMMA SumLinear ==
  ASSUME NEW S, IsFiniteSet(S), NEW c \in Int,
         NEW f, \A x \in S : f[x] \in Int,
         NEW g, \A x \in S : g[x] \in Int,
         NEW h, \A x \in S : h[x] = c * f[x] + g[x]
  PROVE  SumFunctionOnSet(h, S) = c * SumFunctionOnSet(f, S) + SumFunctionOnSet(g, S)
<1> DEFINE good == {T \in SUBSET S : SumFunctionOnSet(h, T)
                      = c * SumFunctionOnSet(f, T) + SumFunctionOnSet(g, T)}
<1>1. {} \in good
  BY SumNothing
<1>2. ASSUME NEW T \in SUBSET S, NEW x \in T, T \ {x} \in good
      PROVE  T \in good
  <2>1. IsFiniteSet(T) /\ IsFiniteSet(T \ {x})
    BY FS_Subset
  <2>2. \A y \in T : f[y] \in Int /\ g[y] \in Int /\ h[y] \in Int
    OBVIOUS
  <2>3. /\ SumFunctionOnSet(f, T) = f[x] + SumFunctionOnSet(f, T \ {x})
        /\ SumFunctionOnSet(g, T) = g[x] + SumFunctionOnSet(g, T \ {x})
        /\ SumFunctionOnSet(h, T) = h[x] + SumFunctionOnSet(h, T \ {x})
    BY <2>1, <2>2, SumRemove
  <2>4. /\ SumFunctionOnSet(f, T \ {x}) \in Int
        /\ SumFunctionOnSet(g, T \ {x}) \in Int
    BY <2>1, <2>2, SumInt
  <2>5. SumFunctionOnSet(h, T \ {x})
          = c * SumFunctionOnSet(f, T \ {x}) + SumFunctionOnSet(g, T \ {x})
    BY <1>2
  <2>6. h[x] = c * f[x] + g[x]
    OBVIOUS
  <2>7. \A a, b, i, j \in Int : (c * a + b) + (c * i + j) = c * (a + i) + (b + j)
    OBVIOUS
  <2> QED
    BY <2>2, <2>3, <2>4, <2>5, <2>6, <2>7
<1> HIDE DEF good
<1>3. S \in good
  BY <1>1, <1>2, Accumulate
<1> QED
  BY <1>3 DEF good

(* A sum of sums.                                                          *)
LEMMA SumAdds ==
  ASSUME NEW S, IsFiniteSet(S),
         NEW f, \A x \in S : f[x] \in Int,
         NEW g, \A x \in S : g[x] \in Int,
         NEW h, \A x \in S : h[x] = f[x] + g[x]
  PROVE  SumFunctionOnSet(h, S) = SumFunctionOnSet(f, S) + SumFunctionOnSet(g, S)
<1>1. PICK c \in Int : c = 1
  OBVIOUS
<1>2. \A x \in S : h[x] = c * f[x] + g[x]
  BY <1>1
<1>3. SumFunctionOnSet(h, S) = c * SumFunctionOnSet(f, S) + SumFunctionOnSet(g, S)
  BY <1>2, SumLinear
<1>4. SumFunctionOnSet(f, S) \in Int
  BY SumInt
<1> QED
  BY <1>1, <1>3, <1>4

(* A sum of what is not larger is not larger.                              *)
LEMMA SumMonotonic ==
  ASSUME NEW S, IsFiniteSet(S),
         NEW f, \A x \in S : f[x] \in Int,
         NEW g, \A x \in S : g[x] \in Int,
         \A x \in S : f[x] <= g[x]
  PROVE  SumFunctionOnSet(f, S) <= SumFunctionOnSet(g, S)
<1> DEFINE good == {T \in SUBSET S : SumFunctionOnSet(f, T) <= SumFunctionOnSet(g, T)}
<1>1. {} \in good
  BY SumNothing
<1>2. ASSUME NEW T \in SUBSET S, NEW x \in T, T \ {x} \in good
      PROVE  T \in good
  <2>1. IsFiniteSet(T) /\ IsFiniteSet(T \ {x})
    BY FS_Subset
  <2>2. \A y \in T : f[y] \in Int /\ g[y] \in Int
    OBVIOUS
  <2>3. /\ SumFunctionOnSet(f, T) = f[x] + SumFunctionOnSet(f, T \ {x})
        /\ SumFunctionOnSet(g, T) = g[x] + SumFunctionOnSet(g, T \ {x})
    BY <2>1, <2>2, SumRemove
  <2>4. /\ SumFunctionOnSet(f, T \ {x}) \in Int
        /\ SumFunctionOnSet(g, T \ {x}) \in Int
    BY <2>1, <2>2, SumInt
  <2>5. SumFunctionOnSet(f, T \ {x}) <= SumFunctionOnSet(g, T \ {x})
    BY <1>2
  <2>6. f[x] <= g[x]
    OBVIOUS
  <2>7. \A a, b, i, j \in Int : a <= b /\ i <= j => a + i <= b + j
    OBVIOUS
  <2> QED
    BY <2>2, <2>3, <2>4, <2>5, <2>6, <2>7
<1> HIDE DEF good
<1>3. S \in good
  BY <1>1, <1>2, Accumulate
<1> QED
  BY <1>3 DEF good

(* A sum of zeros.                                                         *)
LEMMA SumZeros ==
  ASSUME NEW S, IsFiniteSet(S), NEW f, \A x \in S : f[x] = 0
  PROVE  SumFunctionOnSet(f, S) = 0
<1> DEFINE good == {T \in SUBSET S : SumFunctionOnSet(f, T) = 0}
<1>1. {} \in good
  BY SumNothing
<1>2. ASSUME NEW T \in SUBSET S, NEW x \in T, T \ {x} \in good
      PROVE  T \in good
  <2>1. IsFiniteSet(T)
    BY FS_Subset
  <2>2. \A y \in T : f[y] \in Int
    OBVIOUS
  <2>3. SumFunctionOnSet(f, T) = f[x] + SumFunctionOnSet(f, T \ {x})
    BY <2>1, <2>2, SumRemove
  <2>4. SumFunctionOnSet(f, T \ {x}) = 0 /\ f[x] = 0
    BY <1>2
  <2> QED
    BY <2>3, <2>4
<1> HIDE DEF good
<1>3. S \in good
  BY <1>1, <1>2, Accumulate
<1> QED
  BY <1>3 DEF good

(* Sums of natural numbers are natural numbers.                            *)
LEMMA SumNat ==
  ASSUME NEW S, IsFiniteSet(S), NEW f, \A x \in S : f[x] \in Nat
  PROVE  SumFunctionOnSet(f, S) \in Nat
<1> DEFINE zeros == [x \in S |-> 0]
<1>1. SumFunctionOnSet(zeros, S) = 0
  BY SumZeros
<1>2. SumFunctionOnSet(zeros, S) <= SumFunctionOnSet(f, S)
  <2>1. \A x \in S : zeros[x] \in Int /\ f[x] \in Int /\ zeros[x] <= f[x]
    OBVIOUS
  <2> HIDE DEF zeros
  <2> QED
    BY <2>1, SumMonotonic
<1>3. SumFunctionOnSet(f, S) \in Int
  BY SumInt
<1> QED
  BY <1>1, <1>2, <1>3

(* Finite sets that have no element in common and make up another one.     *)
Divided(part, S, all) ==
  /\ \A x \in S : IsFiniteSet(part[x]) /\ part[x] \subseteq all
  /\ \A x, y \in S : x # y => part[x] \cap part[y] = {}
  /\ \A s \in all : \E x \in S : s \in part[x]

(* The sizes of the parts of a set add up to its size.                     *)
LEMMA SumOfParts ==
  ASSUME NEW S, IsFiniteSet(S), NEW all, NEW part, Divided(part, S, all),
         NEW f, \A x \in S : f[x] = Cardinality(part[x])
  PROVE  IsFiniteSet(all) /\ SumFunctionOnSet(f, S) = Cardinality(all)
<1>1. /\ \A x \in S : IsFiniteSet(part[x]) /\ part[x] \subseteq all
      /\ \A x, y \in S : x # y => part[x] \cap part[y] = {}
      /\ \A s \in all : \E x \in S : s \in part[x]
  BY DEF Divided
<1> DEFINE whole(T) == UNION {part[x] : x \in T}
           good == {T \in SUBSET S : /\ IsFiniteSet(whole(T))
                                     /\ SumFunctionOnSet(f, T) = Cardinality(whole(T))}
<1>2. {} \in good
  <2>1. whole({}) = {}
    OBVIOUS
  <2> QED
    BY <2>1, SumNothing, FS_EmptySet
<1>3. ASSUME NEW T \in SUBSET S, NEW x \in T, T \ {x} \in good
      PROVE  T \in good
  <2>1. IsFiniteSet(T)
    BY FS_Subset
  <2>2. \A y \in T : f[y] \in Int
    BY <1>1, FS_CardinalityType
  <2>3. SumFunctionOnSet(f, T) = f[x] + SumFunctionOnSet(f, T \ {x})
    BY <2>1, <2>2, SumRemove
  <2>4. whole(T) = part[x] \cup whole(T \ {x})
    OBVIOUS
  <2>5. part[x] \cap whole(T \ {x}) = {}
    BY <1>1
  <2>6. /\ IsFiniteSet(whole(T \ {x}))
        /\ SumFunctionOnSet(f, T \ {x}) = Cardinality(whole(T \ {x}))
    BY <1>3
  <2>7. IsFiniteSet(part[x]) /\ f[x] = Cardinality(part[x])
    BY <1>1
  <2>8. Cardinality(part[x]) \in Nat /\ Cardinality(whole(T \ {x})) \in Nat
    BY <2>6, <2>7, FS_CardinalityType
  <2>9. /\ IsFiniteSet(whole(T))
        /\ Cardinality(whole(T)) = Cardinality(part[x]) + Cardinality(whole(T \ {x}))
    <3>1. PICK a : a = part[x]
      OBVIOUS
    <3>2. PICK b : b = whole(T \ {x})
      OBVIOUS
    <3>3. IsFiniteSet(a) /\ IsFiniteSet(b) /\ a \cap b = {} /\ whole(T) = a \cup b
      BY <2>4, <2>5, <2>6, <2>7, <3>1, <3>2
    <3>4. /\ IsFiniteSet(a \cup b)
          /\ Cardinality(a \cup b) = Cardinality(a) + Cardinality(b) - Cardinality({})
      BY <3>3, FS_Union
    <3>5. Cardinality(a) \in Nat /\ Cardinality(b) \in Nat /\ Cardinality({}) = 0
      BY <3>3, FS_CardinalityType, FS_EmptySet
    <3> HIDE DEF whole
    <3> QED
      BY <3>1, <3>2, <3>3, <3>4, <3>5
  <2> QED
    BY <2>3, <2>6, <2>7, <2>9
<1> HIDE DEF good
<1>4. S \in good
  BY <1>2, <1>3, Accumulate
<1>5. all = whole(S)
  BY <1>1
<1> QED
  BY <1>4, <1>5 DEF good

(* Counting the elements of a part.                                        *)
LEMMA SumCounts ==
  ASSUME NEW S, IsFiniteSet(S), NEW A \in SUBSET S, NEW f,
         \A x \in S : f[x] = IF x \in A THEN 1 ELSE 0
  PROVE  SumFunctionOnSet(f, S) = Cardinality(A)
<1>1. PICK part : part = [x \in S |-> {x} \cap A]
  OBVIOUS
<1>2. ASSUME NEW x \in S
      PROVE  IsFiniteSet(part[x]) /\ f[x] = Cardinality(part[x])
  <2>1. CASE x \in A
    <3>1. part[x] = {x}
      BY <1>1, <2>1
    <3> QED
      BY <2>1, <3>1, FS_Singleton
  <2>2. CASE x \notin A
    <3>1. part[x] = {}
      BY <1>1, <2>2
    <3> QED
      BY <2>2, <3>1, FS_EmptySet
  <2> QED
    BY <2>1, <2>2
<1>3. Divided(part, S, A)
  BY <1>1, <1>2 DEF Divided
<1> QED
  BY <1>2, <1>3, SumOfParts

-----------------------------------------------------------------------------
(***************************************************************************)
(* Ranks: how many come before an element.                                 *)
(***************************************************************************)
(* The rank of an element: how many come before it in a strict total order. *)
LEMMA RanksDiffer ==
  ASSUME NEW S, IsFiniteSet(S), NEW before, NEW rank,
         \A i \in S : ~ <<i, i>> \in before,
         \A i, j, k \in S : <<i, j>> \in before /\ <<j, k>> \in before => <<i, k>> \in before,
         \A i, j \in S : i # j => <<i, j>> \in before \/ <<j, i>> \in before,
         \A i \in S : rank[i] = Cardinality({j \in S : <<j, i>> \in before})
  PROVE  /\ \A i \in S : rank[i] \in 0..(Cardinality(S) - 1)
         /\ \A i, j \in S : <<i, j>> \in before => rank[i] < rank[j]
<1> DEFINE earlier(i) == {j \in S : <<j, i>> \in before}
<1>1. \A i \in S : IsFiniteSet(earlier(i)) /\ Cardinality(earlier(i)) \in Nat
  BY FS_Subset, FS_CardinalityType
<1>2. ASSUME NEW i \in S, NEW T \in SUBSET S, earlier(i) \subseteq T, i \in T
      PROVE  rank[i] < Cardinality(T)
  <2>1. i \notin earlier(i) /\ earlier(i) \cup {i} \subseteq T
    BY <1>2
  <2>2. IsFiniteSet(T) /\ Cardinality(T) \in Nat
    BY FS_Subset, FS_CardinalityType
  <2>3. Cardinality(earlier(i) \cup {i}) = Cardinality(earlier(i)) + 1
    BY <1>1, <2>1, FS_AddElement
  <2>4. Cardinality(earlier(i) \cup {i}) <= Cardinality(T)
    BY <2>1, <2>2, FS_Subset
  <2>5. PICK c \in Nat : c = Cardinality(earlier(i))
    BY <1>1
  <2>6. rank[i] = c
    BY <2>5
  <2>7. c + 1 <= Cardinality(T)
    BY <2>3, <2>4, <2>5
  <2> QED
    BY <2>2, <2>6, <2>7
<1>3. ASSUME NEW i \in S
      PROVE  rank[i] \in 0..(Cardinality(S) - 1)
  <2>1. rank[i] < Cardinality(S)
    BY <1>2
  <2>2. rank[i] \in Nat /\ Cardinality(S) \in Nat
    BY <1>1, FS_CardinalityType
  <2> QED
    BY <2>1, <2>2
<1>4. ASSUME NEW i \in S, NEW j \in S, <<i, j>> \in before
      PROVE  rank[i] < rank[j]
  <2>1. earlier(i) \subseteq earlier(j) /\ i \in earlier(j) /\ earlier(j) \in SUBSET S
    BY <1>4
  <2>2. rank[i] < Cardinality(earlier(j))
    <3> HIDE DEF earlier
    <3> QED
      BY <1>2, <2>1
  <2> QED
    BY <2>2
<1> QED
  BY <1>3, <1>4

(* As many elements as one says have a rank below it.                      *)
LEMMA RanksBelow ==
  ASSUME NEW S, IsFiniteSet(S), NEW rank,
         \A i \in S : rank[i] \in 0..(Cardinality(S) - 1),
         \A i, j \in S : i # j => rank[i] # rank[j],
         NEW k \in 0..Cardinality(S),
         NEW below \in SUBSET S, \A i \in S : i \in below <=> rank[i] < k
  PROVE  Cardinality(below) = k
<1> DEFINE n == Cardinality(S)
           ranks == 0..(n - 1)
           f == [i \in S |-> rank[i]]
           g == [i \in below |-> rank[i]]
<1>1. n \in Nat /\ k \in Nat /\ k <= n
  BY FS_CardinalityType
<1>2. IsFiniteSet(ranks) /\ Cardinality(ranks) = n
  <2>1. 0 \in Int /\ n - 1 \in Int /\ (IF 0 > n - 1 THEN 0 ELSE (n - 1) - 0 + 1) = n
    BY <1>1
  <2> HIDE DEF n
  <2> QED
    BY <2>1, FS_Interval
<1>3. f \in Injection(S, ranks)
  BY DEF Injection, IsInjective
<1>4. f \in Surjection(S, ranks)
  <2> HIDE DEF f, ranks
  <2> QED
    BY <1>2, <1>3, FS_Injection
<1>5. \A r \in ranks : \E i \in S : rank[i] = r
  BY <1>4 DEF Surjection
<1>6. g \in Bijection(below, 0..(k - 1))
  <2>1. \A i \in below : g[i] = rank[i] /\ rank[i] \in 0..(k - 1)
    BY <1>1
  <2>2. \A r \in 0..(k - 1) : r \in ranks /\ r < k
    BY <1>1
  <2>3. \A r \in 0..(k - 1) : \E i \in below : g[i] = r
    BY <1>5, <2>2
  <2> QED
    BY <2>1, <2>3 DEF Bijection, Injection, Surjection, IsInjective
<1>7. IsFiniteSet(below)
  BY FS_Subset
<1>8. Cardinality(0..(k - 1)) = Cardinality(below)
  <2>1. ExistsBijection(below, 0..(k - 1))
    BY <1>6 DEF ExistsBijection
  <2> QED
    BY <1>7, <2>1, FS_Bijection
<1>9. Cardinality(0..(k - 1)) = k
  BY <1>1, FS_Interval
<1> QED
  BY <1>8, <1>9

-----------------------------------------------------------------------------
(***************************************************************************)
(* Rounding, and the units that remain.                                    *)
(***************************************************************************)
(* The inputs of pay and policy.                                           *)
Pay == [base : Nat, multiplier : Nat, standardMinutes : Nat \ {0},
        threshold : Nat, overtime : BOOLEAN]

(* Products of natural numbers.                                            *)
LEMMA Products ==
  /\ \A a, b \in Nat : a * b \in Nat
  /\ \A a, b \in Nat \ {0} : a * b \in Nat \ {0}
OBVIOUS

(* The exact value of minutes is a fraction of natural numbers, linear in  *)
(* the minutes.                                                            *)
LEMMA Rational ==
  ASSUME NEW pay \in Pay
  PROVE  /\ Denominator(pay) \in Nat \ {0}
         /\ \A m \in Nat : Numerator(pay, m) \in Nat
         /\ \A m \in Nat : Numerator(pay, m) = (pay.base * pay.multiplier) * m
         /\ pay.base * pay.multiplier \in Nat
<1>1. PICK b, t \in Nat, s \in Nat \ {0} :
        pay.base = b /\ pay.multiplier = t /\ pay.standardMinutes = s
  BY DEF Pay
<1>2. /\ b * t \in Nat
      /\ \A m \in Nat : b * m \in Nat /\ (b * m) * t \in Nat /\ (b * m) * t = (b * t) * m
  OBVIOUS
<1>3. BasisPoints \in Nat \ {0}
  BY CalculatorAssumption DEF CalculatorAssumption
<1> QED
  BY <1>1, <1>2, <1>3, Products DEF Denominator, Numerator

(* roundHalfUp is off by half a unit at most.                              *)
LEMMA HalfUp ==
  ASSUME NEW a \in Nat, NEW d \in Nat \ {0}
  PROVE  /\ RoundHalfUp(a, d) \in Nat
         /\ 2 * (d * RoundHalfUp(a, d)) <= 2 * a + d
         /\ 2 * a + d < 2 * (d * RoundHalfUp(a, d)) + 2 * d
<1> DEFINE q == (a * 2 + d) \div (d * 2)
<1>1. d * 2 \in Nat \ {0} /\ a * 2 + d \in Nat
  OBVIOUS
<1>2. q \in Int /\ q * (d * 2) <= a * 2 + d /\ a * 2 + d < q * (d * 2) + d * 2
  <2>1. PICK x \in Int, n \in Nat \ {0} : x = a * 2 + d /\ n = d * 2
    BY <1>1
  <2>2. x \div n \in Int /\ (x \div n) * n <= x /\ x < (x \div n) * n + n
    BY Quotient
  <2> QED
    BY <2>1, <2>2
<1>3. RoundHalfUp(a, d) = q
  BY DEF RoundHalfUp
<1> HIDE DEF q
<1>4. q >= 0
  <2>1. SUFFICES ASSUME q <= -1 PROVE FALSE
    BY <1>2
  <2>2. q * (d * 2) <= (-1) * (d * 2)
    BY <1>2, <2>1
  <2> QED
    BY <1>2, <2>2
<1>5. q * (d * 2) = 2 * (d * q) /\ d * q \in Int
  BY <1>2
<1> QED
  BY <1>2, <1>3, <1>4, <1>5

(* Rounded down.                                                           *)
LEMMA RoundedDown ==
  ASSUME NEW a \in Nat, NEW d \in Nat \ {0}
  PROVE  \E p \in Nat, q \in 0..(d - 1) : p = a \div d /\ q = a % d /\ a = d * p + q
<1>1. a \div d \in Nat /\ a % d \in 0..(d - 1) /\ a = d * (a \div d) + (a % d)
  OBVIOUS
<1> QED
  BY <1>1

(* The units that remain when every part of a number is rounded down, and  *)
(* the number itself half up: no more than parts with a remainder.         *)
LEMMA Remaining ==
  ASSUME NEW S, IsFiniteSet(S), NEW d \in Nat \ {0},
         NEW num, \A i \in S : num[i] \in Nat,
         NEW down, \A i \in S : down[i] = num[i] \div d,
         NEW rem, \A i \in S : rem[i] = num[i] % d,
         NEW r, r = RoundHalfUp(SumFunctionOnSet(num, S), d) - SumFunctionOnSet(down, S),
         NEW left \in SUBSET S, \A i \in S : i \in left <=> rem[i] > 0
  PROVE  r \in 0..Cardinality(left)
<1> DEFINE most == [i \in S |-> IF i \in left THEN 1 ELSE 0]
           zeros == [i \in S |-> 0]
           tops == [i \in S |-> (d - 1) * most[i] + zeros[i]]
           N == SumFunctionOnSet(num, S)
           B == SumFunctionOnSet(down, S)
           R == SumFunctionOnSet(rem, S)
           A == RoundHalfUp(N, d)
<1>1. \A i \in S : /\ down[i] \in Nat /\ rem[i] \in 0..(d - 1) /\ rem[i] \in Int
                   /\ num[i] = d * down[i] + rem[i]
  <2>1. SUFFICES ASSUME NEW i \in S
                 PROVE  /\ down[i] \in Nat /\ rem[i] \in 0..(d - 1) /\ rem[i] \in Int
                        /\ num[i] = d * down[i] + rem[i]
    OBVIOUS
  <2>2. PICK a \in Nat : a = num[i]
    OBVIOUS
  <2>3. PICK p \in Nat, q \in 0..(d - 1) : p = a \div d /\ q = a % d /\ a = d * p + q
    BY RoundedDown
  <2>4. down[i] = p /\ rem[i] = q
    BY <2>2, <2>3
  <2> QED
    BY <2>2, <2>3, <2>4
<1>2. N \in Nat /\ B \in Nat /\ R \in Nat
  BY <1>1, SumNat
<1>3. N = d * B + R
  BY <1>1, SumLinear
<1>4. SumFunctionOnSet(most, S) = Cardinality(left) /\ Cardinality(left) \in Nat
  <2>1. \A i \in S : most[i] = IF i \in left THEN 1 ELSE 0
    OBVIOUS
  <2>2. IsFiniteSet(left)
    BY FS_Subset
  <2> HIDE DEF most
  <2> QED
    BY <2>1, <2>2, SumCounts, FS_CardinalityType
<1>5. SumFunctionOnSet(zeros, S) = 0
  BY SumZeros
<1>6. SumFunctionOnSet(tops, S) = (d - 1) * Cardinality(left) + 0
  <2>1. \A i \in S : /\ most[i] \in Int /\ zeros[i] \in Int
                     /\ tops[i] = (d - 1) * most[i] + zeros[i]
    OBVIOUS
  <2> HIDE DEF tops, most, zeros
  <2>2. SumFunctionOnSet(tops, S)
          = (d - 1) * SumFunctionOnSet(most, S) + SumFunctionOnSet(zeros, S)
    BY <2>1, SumLinear
  <2> QED
    BY <1>4, <1>5, <2>2
<1>7. R <= SumFunctionOnSet(tops, S)
  <2>1. ASSUME NEW i \in S
        PROVE  tops[i] \in Int /\ rem[i] <= tops[i]
    BY <1>1
  <2> HIDE DEF tops
  <2> QED
    BY <1>1, <2>1, SumMonotonic
<1>8. A \in Nat /\ 2 * (d * A) <= 2 * N + d /\ 2 * N + d < 2 * (d * A) + 2 * d
  BY <1>2, HalfUp
<1>9. PICK k \in Nat : k = Cardinality(left)
  BY <1>4
<1>10. r = A - B
  OBVIOUS
<1> HIDE DEF N, B, R, A
<1>11. R <= (d - 1) * k
  BY <1>4, <1>6, <1>7, <1>9
<1>12. (d - 1) * k = d * k - k /\ d * k \in Nat /\ d * B \in Nat /\ d * A \in Nat
  BY <1>2, <1>8, <1>9, Products
<1>13. r >= 0
  <2>1. SUFFICES ASSUME A <= B - 1 PROVE FALSE
    BY <1>2, <1>8, <1>10
  <2>2. d * A <= d * (B - 1) /\ d * (B - 1) = d * B - d
    BY <1>2, <1>8, <2>1
  <2> QED
    BY <1>2, <1>3, <1>8, <1>12, <2>2
<1>14. r <= k
  <2>1. SUFFICES ASSUME A >= B + k + 1 PROVE FALSE
    BY <1>2, <1>8, <1>9, <1>10
  <2>2. d * A >= d * (B + k + 1) /\ d * (B + k + 1) = d * B + d * k + d
    BY <1>2, <1>8, <1>9, <2>1
  <2> QED
    BY <1>2, <1>3, <1>8, <1>11, <1>12, <2>2
<1> QED
  BY <1>2, <1>8, <1>9, <1>10, <1>13, <1>14

(* One unit more for those that are ranked below what remains.             *)
LEMMA OneUnit ==
  ASSUME NEW n \in Nat \ {0}, NEW r \in 0..n, NEW k \in 0..(n - 1)
  PROVE  (r + n - 1 - k) \div n = IF k < r THEN 1 ELSE 0
<1>1. PICK x \in Int : x = r + n - 1 - k
  OBVIOUS
<1>2. k < r => 1 * n <= x /\ x < 1 * n + n
  BY <1>1
<1>3. k >= r => 0 * n <= x /\ x < 0 * n + n
  BY <1>1
<1>4. \A q \in Int : q * n <= x /\ x < q * n + n => x \div n = q
  OBVIOUS
<1> QED
  BY <1>1, <1>2, <1>3, <1>4

(* The loop of allocateDailyOvertimeMoney hands out unit k to the day of   *)
(* rank k modulo the number of days: AllocateDailyMoney counts the units   *)
(* of a rank.                                                              *)
THEOREM RoundAndRound ==
  ASSUME NEW n \in Nat \ {0}, NEW r \in Nat, NEW j \in 0..(n - 1),
         NEW units, \A k : k \in units <=> k \in 0..(r - 1) /\ k % n = j
  PROVE  Cardinality(units) = (r + n - 1 - j) \div n
<1>1. PICK q \in Nat : /\ q = (r + n - 1 - j) \div n
                       /\ q * n <= r + n - 1 - j /\ r + n - 1 - j < q * n + n
  <2>1. PICK x \in Nat : x = r + n - 1 - j
    OBVIOUS
  <2>2. x \div n \in Nat /\ (x \div n) * n <= x /\ x < (x \div n) * n + n
    OBVIOUS
  <2> QED
    BY <2>1, <2>2
<1>2. \A t \in Nat : t * n \in Nat /\ (t * n + j < r <=> t < q)
  <2>1. SUFFICES ASSUME NEW t \in Nat PROVE t * n \in Nat /\ (t * n + j < r <=> t < q)
    OBVIOUS
  <2>2. q * n \in Nat /\ t * n \in Nat
    OBVIOUS
  <2>3. t < q => (t + 1) * n <= q * n
    OBVIOUS
  <2>4. ~(t < q) => q * n <= t * n
    OBVIOUS
  <2>5. (t + 1) * n = t * n + n
    OBVIOUS
  <2> QED
    BY <1>1, <2>2, <2>3, <2>4, <2>5
<1>3. PICK f : f = [t \in 0..(q - 1) |-> t * n + j]
  OBVIOUS
<1>4. \A t \in Nat : (t * n + j) % n = j
  <2>1. SUFFICES ASSUME NEW t \in Nat PROVE (t * n + j) % n = j
    OBVIOUS
  <2>2. PICK x \in Nat : x = t * n + j
    BY <1>2
  <2>3. PICK p \in Nat, m \in 0..(n - 1) : p = x \div n /\ m = x % n /\ x = n * p + m
    BY RoundedDown
  <2>4. t = p
    <3>1. t < p => (t + 1) * n <= p * n
      OBVIOUS
    <3>2. p < t => (p + 1) * n <= t * n
      OBVIOUS
    <3>3. /\ (t + 1) * n = t * n + n /\ (p + 1) * n = p * n + n
          /\ n * p = p * n /\ t * n \in Nat /\ p * n \in Nat
      OBVIOUS
    <3> QED
      BY <2>2, <2>3, <3>1, <3>2, <3>3
  <2>5. n * p = t * n /\ t * n \in Nat
    BY <2>4
  <2> QED
    BY <2>2, <2>3, <2>5
<1>5. \A t \in 0..(q - 1) : f[t] \in units
  <2>1. \A t \in 0..(q - 1) : t \in Nat /\ t < q
    BY <1>1
  <2>2. ASSUME NEW t \in 0..(q - 1)
        PROVE  f[t] = t * n + j /\ t * n + j \in 0..(r - 1)
    <3>1. t * n \in Nat /\ t * n + j < r
      BY <1>2, <2>1
    <3>2. t * n + j \in 0..(r - 1)
      BY <3>1
    <3> QED
      BY <1>3, <3>2
  <2> QED
    BY <1>4, <2>1, <2>2
<1>6. \A s, t \in 0..(q - 1) : f[s] = f[t] => s = t
  <2>1. \A s, t \in Nat : s < t => s * n < t * n
    <3>1. SUFFICES ASSUME NEW s \in Nat, NEW t \in Nat, s < t PROVE s * n < t * n
      OBVIOUS
    <3>2. (s + 1) * n <= t * n /\ (s + 1) * n = s * n + n
      BY <3>1
    <3> QED
      BY <1>2, <3>2
  <2>2. \A t \in 0..(q - 1) : t \in Nat /\ f[t] = t * n + j /\ t * n \in Nat
    BY <1>2, <1>3
  <2> QED
    BY <2>1, <2>2
<1>7. \A k \in units : \E t \in 0..(q - 1) : f[t] = k
  <2>1. SUFFICES ASSUME NEW k \in units PROVE \E t \in 0..(q - 1) : f[t] = k
    OBVIOUS
  <2>2. k \in Nat /\ k < r /\ k % n = j
    OBVIOUS
  <2>3. PICK t \in Nat : k = t * n + j
    <3>1. k \div n \in Nat /\ k = (k \div n) * n + (k % n)
      BY <2>2
    <3> QED
      BY <2>2, <3>1
  <2>4. t \in 0..(q - 1)
    BY <1>1, <1>2, <2>2, <2>3
  <2> QED
    BY <1>3, <2>3, <2>4
<1>8. f \in Bijection(0..(q - 1), units)
  BY <1>3, <1>5, <1>6, <1>7 DEF Bijection, Injection, Surjection, IsInjective
<1>9. IsFiniteSet(0..(q - 1)) /\ Cardinality(0..(q - 1)) = q
  BY FS_Interval
<1>10. Cardinality(units) = Cardinality(0..(q - 1))
  BY <1>8, <1>9, FS_Bijection DEF ExistsBijection
<1> QED
  BY <1>1, <1>9, <1>10

(* The ranks of the days are those of a strict total order.                *)
LEMMA DaysAreRanked ==
  ASSUME NEW pay \in Pay, NEW n \in Nat, NEW minutes \in [1..n -> Nat]
  PROVE  /\ \A i \in 1..n : Rank(pay, minutes, i) \in 0..(n - 1)
         /\ \A i, j \in 1..n : RanksBefore(pay, minutes, i, j)
              => Rank(pay, minutes, i) < Rank(pay, minutes, j)
         /\ \A i, j \in 1..n : i # j
              => Rank(pay, minutes, i) # Rank(pay, minutes, j)
<1> DEFINE before == {pair \in (1..n) \X (1..n) :
                        RanksBefore(pay, minutes, pair[1], pair[2])}
           rank == [i \in 1..n |-> Rank(pay, minutes, i)]
<1>1. \A i \in 1..n : Remainder(pay, minutes[i]) \in Int
  <2>1. \A i \in 1..n : Numerator(pay, minutes[i]) \in Nat
    BY Rational
  <2>2. \A a \in Nat, b \in Nat \ {0} : a % b \in Int
    OBVIOUS
  <2> QED
    BY <2>1, <2>2, Rational DEF Remainder
<1>2. \A i, j \in 1..n : <<i, j>> \in before <=> RanksBefore(pay, minutes, i, j)
  OBVIOUS
<1>3. \A i \in 1..n : ~ <<i, i>> \in before
  BY <1>1, <1>2 DEF RanksBefore
<1>4. \A i, j, k \in 1..n : <<i, j>> \in before /\ <<j, k>> \in before => <<i, k>> \in before
  BY <1>1, <1>2 DEF RanksBefore
<1>5. \A i, j \in 1..n : i # j => <<i, j>> \in before \/ <<j, i>> \in before
  BY <1>1, <1>2 DEF RanksBefore
<1>6. \A i \in 1..n : rank[i] = Cardinality({j \in 1..n : <<j, i>> \in before})
  <2>1. SUFFICES ASSUME NEW i \in 1..n
                 PROVE  rank[i] = Cardinality({j \in 1..n : <<j, i>> \in before})
    OBVIOUS
  <2>2. {j \in DOMAIN minutes : RanksBefore(pay, minutes, j, i)}
          = {j \in 1..n : <<j, i>> \in before}
    BY <1>2
  <2> QED
    BY <2>2 DEF Rank
<1>7. IsFiniteSet(1..n) /\ Cardinality(1..n) = n
  BY FS_Interval
<1> HIDE DEF before, rank
<1>8. /\ \A i \in 1..n : rank[i] \in 0..(n - 1)
      /\ \A i, j \in 1..n : <<i, j>> \in before => rank[i] < rank[j]
  <2>1. /\ \A i \in 1..n : rank[i] \in 0..(Cardinality(1..n) - 1)
        /\ \A i, j \in 1..n : <<i, j>> \in before => rank[i] < rank[j]
    BY <1>3, <1>4, <1>5, <1>6, <1>7, RanksDiffer
  <2> QED
    BY <1>7, <2>1
<1>9. \A i, j \in 1..n : i # j => rank[i] # rank[j]
  <2>1. \A a, b \in 0..(n - 1) : a < b \/ b < a => a # b
    OBVIOUS
  <2> QED
    BY <1>5, <1>8, <2>1
<1>10. \A i \in 1..n : rank[i] = Rank(pay, minutes, i)
  BY DEF rank
<1> QED
  BY <1>2, <1>8, <1>9, <1>10

(* The units that remain of the amount of some days.                       *)
LEMMA UnitsRemain ==
  ASSUME NEW pay \in Pay, NEW S, IsFiniteSet(S),
         NEW minutes, \A i \in S : minutes[i] \in Nat,
         NEW down, \A i \in S : down[i] = Numerator(pay, minutes[i]) \div Denominator(pay),
         NEW r, r = OvertimeAmount(pay, SumFunctionOnSet(minutes, S))
                      - SumFunctionOnSet(down, S),
         NEW left \in SUBSET S, \A i \in S : i \in left <=> Remainder(pay, minutes[i]) > 0
  PROVE  r \in 0..Cardinality(left)
<1>1. PICK c \in Nat : c = pay.base * pay.multiplier
  BY Rational
<1>2. PICK d \in Nat \ {0} : d = Denominator(pay)
  BY Rational
<1>3. PICK zeros : zeros = [i \in S |-> 0]
  OBVIOUS
<1>4. PICK num : num = [i \in S |-> Numerator(pay, minutes[i])]
  OBVIOUS
<1>5. PICK rem : rem = [i \in S |-> num[i] % d]
  OBVIOUS
<1>6. SumFunctionOnSet(zeros, S) = 0
  BY <1>3, SumZeros
<1>7. \A m \in Nat : Numerator(pay, m) \in Nat /\ Numerator(pay, m) = c * m
  BY <1>1, Rational
<1>8. \A i \in S : num[i] \in Nat /\ num[i] = c * minutes[i] + zeros[i]
  <2>1. SUFFICES ASSUME NEW i \in S
                 PROVE  num[i] \in Nat /\ num[i] = c * minutes[i] + zeros[i]
    OBVIOUS
  <2>2. PICK m \in Nat : m = minutes[i]
    OBVIOUS
  <2>3. num[i] \in Nat /\ num[i] = c * m
    BY <1>7, <1>4, <2>2
  <2> QED
    BY <1>3, <2>2, <2>3
<1>9. SumFunctionOnSet(minutes, S) \in Nat
  BY SumNat
<1>10. SumFunctionOnSet(num, S) = c * SumFunctionOnSet(minutes, S)
  <2>1. \A i \in S : minutes[i] \in Int /\ zeros[i] \in Int
    BY <1>3
  <2>2. SumFunctionOnSet(num, S) = c * SumFunctionOnSet(minutes, S) + SumFunctionOnSet(zeros, S)
    BY <1>8, <2>1, SumLinear
  <2> QED
    BY <1>6, <1>9, <2>2
<1>11. OvertimeAmount(pay, SumFunctionOnSet(minutes, S)) = RoundHalfUp(SumFunctionOnSet(num, S), d)
  BY <1>2, <1>7, <1>9, <1>10 DEF OvertimeAmount
<1>12. /\ \A i \in S : down[i] = num[i] \div d /\ rem[i] = num[i] % d
       /\ r = RoundHalfUp(SumFunctionOnSet(num, S), d) - SumFunctionOnSet(down, S)
  BY <1>2, <1>11, <1>4, <1>5
<1>13. \A i \in S : num[i] \in Nat
  BY <1>8
<1>14. \A i \in S : i \in left <=> rem[i] > 0
  BY <1>2, <1>4, <1>5 DEF Remainder
<1> QED
  BY <1>12, <1>13, <1>14, Remaining

(* What minutes earn rounded down, and what a day gets beyond that.        *)
Down(pay, m) == Numerator(pay, m) \div Denominator(pay)
Extra(pay, minutes, i) == AllocateDailyMoney(pay, minutes)[i] - Down(pay, minutes[i])

(* The money of a day is what it earns rounded down, and one unit more for *)
(* those that come first in the order of remainders, none of them zero.    *)
LEMMA MoneyOfDays ==
  ASSUME NEW pay \in Pay, NEW minutes \in Seq(Nat), minutes # <<>>
  PROVE  /\ IsFiniteSet(DOMAIN minutes)
         /\ DOMAIN AllocateDailyMoney(pay, minutes) = DOMAIN minutes
         /\ SumFunctionOnSet(AllocateDailyMoney(pay, minutes), DOMAIN minutes)
              = OvertimeAmount(pay, SumFunctionOnSet(minutes, DOMAIN minutes))
         /\ \A i \in DOMAIN minutes :
              /\ Extra(pay, minutes, i) \in {0, 1}
              /\ AllocateDailyMoney(pay, minutes)[i]
                   = Down(pay, minutes[i]) + Extra(pay, minutes, i)
              /\ Extra(pay, minutes, i) = 1 => Remainder(pay, minutes[i]) > 0
              /\ \A j \in DOMAIN minutes :
                   RanksBefore(pay, minutes, i, j) /\ Extra(pay, minutes, j) = 1
                     => Extra(pay, minutes, i) = 1
<1>1. PICK S : S = DOMAIN minutes
  OBVIOUS
<1>2. PICK money : money = AllocateDailyMoney(pay, minutes)
  OBVIOUS
<1>3. PICK down : down = [i \in S |-> Numerator(pay, minutes[i]) \div Denominator(pay)]
  OBVIOUS
<1>4. PICK n \in Nat \ {0} : n = Len(minutes) /\ S = 1..n /\ minutes \in [1..n -> Nat]
  <2>1. Len(minutes) \in Nat \ {0}
    OBVIOUS
  <2> QED
    BY <1>1, <2>1
<1>5. \A i \in S : minutes[i] \in Nat
  BY <1>4
<1>6. PICK d \in Nat \ {0} : d = Denominator(pay)
  BY Rational
<1>7. PICK num : num = [i \in S |-> Numerator(pay, minutes[i])]
  OBVIOUS
<1>8. PICK rem : rem = [i \in S |-> num[i] % d]
  OBVIOUS
<1>9. PICK rank : rank = [i \in S |-> Rank(pay, minutes, i)]
  OBVIOUS
<1>10. PICK r : r = OvertimeAmount(pay, SumFunctionOnSet(minutes, S)) - SumFunctionOnSet(down, S)
  OBVIOUS
<1>11. PICK left : left = {i \in S : rem[i] > 0}
  OBVIOUS
<1>12. PICK more : more = {i \in S : rank[i] < r}
  OBVIOUS
<1>13. IsFiniteSet(S) /\ Cardinality(S) = n
  <2>1. 1 \in Int /\ n \in Int /\ (IF 1 > n THEN 0 ELSE n - 1 + 1) = n
    OBVIOUS
  <2>2. IsFiniteSet(1..n) /\ Cardinality(1..n) = n
    BY <2>1, FS_Interval
  <2> QED
    BY <1>4, <2>2
<1>14. \A i \in S : /\ num[i] = Numerator(pay, minutes[i]) /\ num[i] \in Nat
                    /\ down[i] = num[i] \div d /\ rem[i] = num[i] % d
                    /\ down[i] \in Nat /\ rem[i] \in Nat
                    /\ rem[i] = Remainder(pay, minutes[i])
  <2>1. SUFFICES ASSUME NEW i \in S
                 PROVE  /\ num[i] = Numerator(pay, minutes[i]) /\ num[i] \in Nat
                        /\ down[i] = num[i] \div d /\ rem[i] = num[i] % d
                        /\ down[i] \in Nat /\ rem[i] \in Nat
                        /\ rem[i] = Remainder(pay, minutes[i])
    OBVIOUS
  <2>2. PICK a \in Nat : a = Numerator(pay, minutes[i])
    BY <1>5, Rational
  <2>3. PICK p \in Nat, q \in 0..(d - 1) : p = a \div d /\ q = a % d
    BY RoundedDown
  <2>4. num[i] = a /\ down[i] = a \div d /\ rem[i] = a % d /\ Remainder(pay, minutes[i]) = a % d
    BY <1>3, <1>6, <1>7, <1>8, <2>2 DEF Remainder
  <2> QED
    BY <2>2, <2>3, <2>4
<1>15. r \in 0..Cardinality(left)
  <2>1. \A i \in S : down[i] = Numerator(pay, minutes[i]) \div Denominator(pay)
    BY <1>3
  <2>2. left \in SUBSET S /\ \A i \in S : i \in left <=> Remainder(pay, minutes[i]) > 0
    BY <1>11, <1>14
  <2> QED
    BY <1>5, <1>10, <1>13, <2>1, <2>2, UnitsRemain
<1>16. /\ left \in SUBSET S /\ IsFiniteSet(left)
       /\ Cardinality(left) \in Nat /\ Cardinality(left) <= n
  BY <1>11, <1>13, FS_Subset, FS_CardinalityType
<1>17. r \in 0..n
  BY <1>15, <1>16
<1>18. /\ \A i \in S : rank[i] \in 0..(n - 1)
       /\ \A i, j \in S : RanksBefore(pay, minutes, i, j) => rank[i] < rank[j]
       /\ \A i, j \in S : i # j => rank[i] # rank[j]
  <2>1. /\ \A i \in S : Rank(pay, minutes, i) \in 0..(n - 1)
        /\ \A i, j \in S : RanksBefore(pay, minutes, i, j)
             => Rank(pay, minutes, i) < Rank(pay, minutes, j)
        /\ \A i, j \in S : i # j
             => Rank(pay, minutes, i) # Rank(pay, minutes, j)
    BY <1>4, DaysAreRanked
  <2>2. \A i \in S : rank[i] = Rank(pay, minutes, i)
    BY <1>9
  <2> QED
    BY <2>1, <2>2
<1>19. DOMAIN money = S /\ \A i \in S : money[i] = down[i] + ((r + n - 1 - rank[i]) \div n)
  BY <1>1, <1>2, <1>3, <1>4, <1>9, <1>10 DEF AllocateDailyMoney, Total, SumFunction
<1>20. \A i \in S : money[i] = down[i] + (IF i \in more THEN 1 ELSE 0)
  <2>1. \A i \in S : (r + n - 1 - rank[i]) \div n = IF rank[i] < r THEN 1 ELSE 0
    BY <1>17, <1>18, OneUnit
  <2> QED
    BY <1>12, <1>19, <2>1
<1>21. Cardinality(more) = r
  <2>1. more \in SUBSET S /\ \A i \in S : i \in more <=> rank[i] < r
    BY <1>12
  <2> QED
    BY <1>13, <1>17, <1>18, <2>1, RanksBelow
<1>22. SumFunctionOnSet(money, S) = OvertimeAmount(pay, SumFunctionOnSet(minutes, S))
  <2>1. PICK one : one = [i \in S |-> IF i \in more THEN 1 ELSE 0]
    OBVIOUS
  <2>2. SumFunctionOnSet(one, S) = r
    <3>1. more \in SUBSET S
      BY <1>12
    <3> QED
      BY <1>13, <1>21, <2>1, <3>1, SumCounts
  <2>3. \A i \in S : down[i] \in Int /\ one[i] \in Int /\ money[i] = down[i] + one[i]
    BY <1>14, <1>20, <2>1
  <2>4. SumFunctionOnSet(money, S) = SumFunctionOnSet(down, S) + SumFunctionOnSet(one, S)
    BY <1>13, <2>3, SumAdds
  <2>5. SumFunctionOnSet(down, S) \in Int /\ SumFunctionOnSet(minutes, S) \in Nat
    BY <1>5, <1>13, <2>3, SumInt, SumNat
  <2>6. OvertimeAmount(pay, SumFunctionOnSet(minutes, S)) \in Nat
    BY <2>5, Rational, HalfUp DEF OvertimeAmount
  <2> QED
    BY <1>10, <2>2, <2>4, <2>5, <2>6
<1>23. ASSUME NEW i \in more
       PROVE  Remainder(pay, minutes[i]) > 0
  <2>1. SUFFICES ASSUME rem[i] = 0 PROVE FALSE
    BY <1>12, <1>14
  <2>2. \A j \in left : rank[j] < rank[i]
    BY <1>11, <1>12, <1>14, <1>18, <2>1 DEF RanksBefore
  <2>3. Cardinality(left) <= rank[i]
    <3>1. PICK k \in 0..Cardinality(S) : k = rank[i]
      BY <1>12, <1>13, <1>18
    <3>2. PICK first : first = {j \in S : rank[j] < k}
      OBVIOUS
    <3>3. Cardinality(first) = k
      <4>1. first \in SUBSET S /\ \A j \in S : j \in first <=> rank[j] < k
        BY <3>2
      <4> QED
        BY <1>13, <1>18, <4>1, RanksBelow
    <3>4. left \in SUBSET first /\ first \in SUBSET S
      BY <1>16, <2>2, <3>1, <3>2
    <3>5. IsFiniteSet(first)
      BY <1>13, <3>4, FS_Subset
    <3> QED
      BY <3>1, <3>3, <3>4, <3>5, FS_Subset
  <2>4. rank[i] < r /\ rank[i] \in Nat
    BY <1>12, <1>18
  <2> QED
    BY <1>15, <1>16, <2>3, <2>4
<1>24. \A i \in S, j \in more : RanksBefore(pay, minutes, i, j) => i \in more
  BY <1>12, <1>17, <1>18
<1>25. \A i \in S : Extra(pay, minutes, i) = IF i \in more THEN 1 ELSE 0
  <2>1. SUFFICES ASSUME NEW i \in S
                 PROVE  Extra(pay, minutes, i) = IF i \in more THEN 1 ELSE 0
    OBVIOUS
  <2>2. PICK p \in Nat, u \in {0, 1} : p = down[i] /\ u = IF i \in more THEN 1 ELSE 0
    BY <1>14
  <2>3. Extra(pay, minutes, i) = money[i] - p /\ money[i] = p + u
    BY <1>2, <1>3, <1>20, <2>2 DEF Extra, Down
  <2> QED
    BY <2>2, <2>3
<1>26. \A i \in S : money[i] = Down(pay, minutes[i]) + Extra(pay, minutes, i)
  BY <1>3, <1>20, <1>25 DEF Down
<1>27. \A i \in S : Extra(pay, minutes, i) \in {0, 1} /\ (Extra(pay, minutes, i) = 1 <=> i \in more)
  BY <1>25
<1> QED
  BY <1>1, <1>2, <1>13, <1>19, <1>22, <1>23, <1>24, <1>26, <1>27

(* The money of the days adds up to the amount, which is rounded once; no  *)
(* day is a unit off its share, none without minutes has money, and none   *)
(* with more minutes has less (allocateDailyOvertimeMoney).                *)
THEOREM MoneyIsFair ==
  ASSUME NEW pay \in Pay, NEW minutes \in Seq(Nat), minutes # <<>>,
         NEW S, S = DOMAIN minutes,
         NEW money, money = AllocateDailyMoney(pay, minutes)
  PROVE  /\ DOMAIN money = S
         /\ Total(money) = OvertimeAmount(pay, Total(minutes))
         /\ \A i \in S :
              /\ money[i] \in Nat
              /\ money[i] * Denominator(pay) - Numerator(pay, minutes[i])
                   \in (1 - Denominator(pay))..(Denominator(pay) - 1)
              /\ minutes[i] = 0 => money[i] = 0
              /\ \A j \in S : minutes[i] > minutes[j] => money[i] >= money[j]
<1>1. PICK extra : extra = [i \in S |-> Extra(pay, minutes, i)]
  OBVIOUS
<1>2. /\ IsFiniteSet(S) /\ DOMAIN money = S
      /\ SumFunctionOnSet(money, S) = OvertimeAmount(pay, SumFunctionOnSet(minutes, S))
  BY MoneyOfDays
<1>3. \A i \in S : /\ extra[i] \in {0, 1}
                   /\ money[i] = Down(pay, minutes[i]) + extra[i]
                   /\ extra[i] = 1 => Remainder(pay, minutes[i]) > 0
                   /\ \A j \in S : RanksBefore(pay, minutes, i, j) /\ extra[j] = 1
                                    => extra[i] = 1
  BY <1>1, MoneyOfDays
<1>4. PICK d \in Nat \ {0} : d = Denominator(pay)
  BY Rational
<1>5. PICK c \in Nat : \A m \in Nat : Numerator(pay, m) = c * m /\ c * m \in Nat
  <2>1. \A m \in Nat : Numerator(pay, m) = (pay.base * pay.multiplier) * m
                       /\ (pay.base * pay.multiplier) * m \in Nat
    BY Rational
  <2> QED
    BY <2>1, Rational
<1>6. \A i \in S : minutes[i] \in Nat
  OBVIOUS
<1>7. ASSUME NEW i \in S
      PROVE  \E m \in Nat, p \in Nat, q \in 0..(d - 1), u \in {0, 1} :
               /\ m = minutes[i] /\ c * m \in Nat /\ c * m = d * p + q
               /\ Numerator(pay, minutes[i]) = c * m
               /\ Remainder(pay, minutes[i]) = q
               /\ money[i] = p + u /\ u = extra[i]
  <2>1. PICK m \in Nat : m = minutes[i]
    BY <1>6
  <2>2. PICK a \in Nat : a = c * m /\ Numerator(pay, minutes[i]) = a
    BY <1>5, <2>1
  <2>3. PICK p \in Nat, q \in 0..(d - 1) : p = a \div d /\ q = a % d /\ a = d * p + q
    BY RoundedDown
  <2>4. Down(pay, minutes[i]) = p /\ Remainder(pay, minutes[i]) = q
    BY <1>4, <2>2, <2>3 DEF Remainder, Down
  <2>5. PICK u \in {0, 1} : u = extra[i]
    BY <1>3
  <2>6. money[i] = p + u /\ u = extra[i]
    BY <1>3, <2>4, <2>5
  <2> QED
    BY <2>1, <2>2, <2>3, <2>4, <2>6
<1>8. ASSUME NEW i \in S
      PROVE  /\ money[i] \in Nat
             /\ money[i] * d - Numerator(pay, minutes[i]) \in (1 - d)..(d - 1)
             /\ minutes[i] = 0 => money[i] = 0
  <2>1. PICK m \in Nat, p \in Nat, q \in 0..(d - 1), u \in {0, 1} :
               /\ m = minutes[i] /\ c * m \in Nat /\ c * m = d * p + q
               /\ Numerator(pay, minutes[i]) = c * m
               /\ Remainder(pay, minutes[i]) = q
               /\ money[i] = p + u /\ u = extra[i]
    BY <1>7
  <2>2. u = 1 => q > 0
    BY <1>3, <2>1
  <2>3. (p + u) * d - (d * p + q) = u * d - q
    OBVIOUS
  <2>4. u * d = IF u = 1 THEN d ELSE 0
    OBVIOUS
  <2>5. u * d - q \in (1 - d)..(d - 1)
    BY <2>2, <2>4
  <2>6. ASSUME m = 0
        PROVE  p + u = 0
    <3>1. d * p + q = 0 /\ d * p \in Nat
      BY <2>1, <2>6, Products
    <3>2. q = 0 /\ d * p = 0
      BY <3>1
    <3>3. p = 0
      <4>1. SUFFICES ASSUME p >= 1 PROVE FALSE
        OBVIOUS
      <4>2. d * p >= d * 1
        BY <4>1
      <4> QED
        BY <3>2, <4>2
    <3> QED
      BY <2>2, <3>2, <3>3
  <2>7. money[i] = p + u /\ p + u \in Nat
    BY <2>1
  <2>8. money[i] * d - Numerator(pay, minutes[i]) = u * d - q
    <3>1. PICK x \in Nat : x = p + u
      BY <2>7
    <3>2. money[i] = x /\ Numerator(pay, minutes[i]) = d * p + q
      BY <2>1, <2>7, <3>1
    <3>3. x * d - (d * p + q) = u * d - q
      BY <2>3, <3>1
    <3> QED
      BY <3>2, <3>3
  <2>9. minutes[i] = 0 => money[i] = 0
    BY <2>1, <2>6, <2>7
  <2> QED
    BY <2>5, <2>7, <2>8, <2>9
<1>9. ASSUME NEW i \in S, NEW j \in S, minutes[i] > minutes[j]
      PROVE  money[i] >= money[j]
  <2>1. PICK m \in Nat, p \in Nat, q \in 0..(d - 1), u \in {0, 1} :
               /\ m = minutes[i] /\ c * m \in Nat /\ c * m = d * p + q
               /\ Numerator(pay, minutes[i]) = c * m
               /\ Remainder(pay, minutes[i]) = q
               /\ money[i] = p + u /\ u = extra[i]
    BY <1>7
  <2>2. PICK k \in Nat, s \in Nat, t \in 0..(d - 1), v \in {0, 1} :
               /\ k = minutes[j] /\ c * k \in Nat /\ c * k = d * s + t
               /\ Numerator(pay, minutes[j]) = c * k
               /\ Remainder(pay, minutes[j]) = t
               /\ money[j] = s + v /\ v = extra[j]
    BY <1>7
  <2>3. k < m
    BY <1>9, <2>1, <2>2
  <2>4. p > s \/ (p = s /\ q > t) \/ (p = s /\ q = 0 /\ t = 0)
    <3>1. c * m = d * p + q /\ c * k = d * s + t
      BY <2>1, <2>2
    <3>2. c * k \in Nat /\ c * m \in Nat /\ c * (m - k) \in Nat /\ c * m = c * k + c * (m - k)
      BY <2>3
    <3>3. d * p \in Nat /\ d * s \in Nat
      BY Products
    <3>4. ASSUME p < s
          PROVE  FALSE
      <4>1. d * (p + 1) <= d * s /\ d * (p + 1) = d * p + d
        BY <3>4
      <4> QED
        BY <3>1, <3>2, <3>3, <4>1
    <3>5. ASSUME p = s, q <= t
          PROVE  q = 0 /\ t = 0
      <4>1. c * (m - k) = 0
        BY <3>1, <3>2, <3>3, <3>5
      <4>2. c = 0
        <5>1. SUFFICES ASSUME c >= 1 PROVE FALSE
          OBVIOUS
        <5>2. c * (m - k) >= 1 * (m - k)
          BY <2>3, <5>1
        <5> QED
          BY <2>3, <4>1, <5>2
      <4>3. c * m = 0 /\ c * k = 0
        BY <4>2
      <4> QED
        BY <3>1, <3>3, <4>3
    <3> QED
      BY <3>4, <3>5
  <2>5. money[i] = p + u /\ money[j] = s + v
    BY <2>1, <2>2
  <2>6. CASE p > s
    BY <2>6, <2>5
  <2>7. CASE p = s /\ q > t
    <3>1. RanksBefore(pay, minutes, i, j)
      BY <2>1, <2>2, <2>7 DEF RanksBefore
    <3>2. v = 1 => u = 1
      BY <1>3, <2>1, <2>2, <3>1
    <3> QED
      BY <2>7, <2>5, <3>2
  <2>8. CASE p = s /\ q = 0 /\ t = 0
    <3>1. v # 1
      BY <1>3, <2>2, <2>8
    <3> QED
      BY <2>8, <2>5, <3>1
  <2> QED
    BY <2>4, <2>6, <2>7, <2>8
<1>10. Total(money) = SumFunctionOnSet(money, S) /\ Total(minutes) = SumFunctionOnSet(minutes, S)
  BY <1>2 DEF Total, SumFunction
<1> QED
  BY <1>2, <1>4, <1>8, <1>9, <1>10

-----------------------------------------------------------------------------
(***************************************************************************)
(* Time.                                                                   *)
(***************************************************************************)
(* The units of an interval, and those of a day.                           *)
UnitsOf(interval) == interval.clockIn..(interval.clockOut - 1)
DayOf(day) == day.start..(day.end - 1)

(* What calculateTimecard allocates is the units that an interval and a    *)
(* day share.                                                              *)
LEMMA SharedUnits ==
  ASSUME NEW i \in [clockIn : Int, clockOut : Int], NEW day \in [start : Int, end : Int]
  PROVE  /\ IsFiniteSet(UnitsOf(i) \cap DayOf(day))
         /\ Allocated(i, day) = Cardinality(UnitsOf(i) \cap DayOf(day))
<1>1. PICK ci, co, st, en \in Int :
        i.clockIn = ci /\ i.clockOut = co /\ day.start = st /\ day.end = en
  OBVIOUS
<1>2. PICK a \in Int : a = Later(ci, st)
  BY DEF Later
<1>3. PICK b \in Int : b = Earlier(co, en)
  BY DEF Earlier
<1>4. UnitsOf(i) \cap DayOf(day) = a..(b - 1)
  BY <1>1, <1>2, <1>3 DEF UnitsOf, DayOf, Later, Earlier
<1>5. Allocated(i, day) = IF 0 < b - a THEN b - a ELSE 0
  BY <1>1, <1>2, <1>3 DEF Allocated, Later
<1>6. PICK e \in Int : e = b - 1
  OBVIOUS
<1>7. IsFiniteSet(a..e) /\ Cardinality(a..e) = IF a > e THEN 0 ELSE e - a + 1
  BY FS_Interval
<1>8. (IF a > e THEN 0 ELSE e - a + 1) = IF 0 < b - a THEN b - a ELSE 0
  BY <1>6
<1>9. UnitsOf(i) \cap DayOf(day) = a..e
  BY <1>4, <1>6
<1>10. Allocated(i, day) = Cardinality(a..e)
  BY <1>5, <1>7, <1>8
<1> QED
  BY <1>7, <1>9, <1>10

(* Every unit of the period is on one day, and on one only.                *)
LEMMA DaysPartition ==
  ASSUME NEW days, Contiguous(days)
  PROVE  /\ \A c, d \in DOMAIN days : c # d => DayOf(days[c]) \cap DayOf(days[d]) = {}
         /\ \A s : s \in PeriodSpan(days).clockIn..(PeriodSpan(days).clockOut - 1)
                     <=> \E d \in DOMAIN days : s \in DayOf(days[d])
<1>1. PICK n \in Nat \ {0} : n = Len(days) /\ DOMAIN days = 1..n
  BY DEF Contiguous
<1>2. PICK first, last \in [1..n -> Int] :
        /\ \A d \in 1..n : first[d] = days[d].start /\ last[d] = days[d].end
        /\ \A d \in 1..n : first[d] < last[d]
        /\ \A d \in 1..(n - 1) : last[d] = first[d + 1]
  <2>1. PICK first : first = [d \in 1..n |-> days[d].start]
    OBVIOUS
  <2>2. PICK last : last = [d \in 1..n |-> days[d].end]
    OBVIOUS
  <2>3. \A d \in 1..n : days[d] \in [start : Int, end : Int]
    <3>1. days \in Seq([start : Int, end : Int])
      BY DEF Contiguous
    <3>2. PICK R : R = [start : Int, end : Int]
      OBVIOUS
    <3>3. days \in Seq(R)
      BY <3>1, <3>2
    <3>4. \A d \in 1..Len(days) : days[d] \in R
      BY <3>3
    <3> QED
      BY <1>1, <3>2, <3>4
  <2>4. first \in [1..n -> Int] /\ last \in [1..n -> Int]
    BY <2>1, <2>2, <2>3
  <2>5. \A d \in 1..(n - 1) : d \in 1..n /\ d + 1 \in 1..n
    OBVIOUS
  <2>6. \A d \in 1..(n - 1) : last[d] = first[d + 1]
    BY <1>1, <2>1, <2>2, <2>5 DEF Contiguous
  <2>7. \A d \in 1..n : first[d] < last[d]
    BY <1>1, <2>1, <2>2 DEF Contiguous
  <2> QED
    BY <2>1, <2>2, <2>4, <2>6, <2>7
<1>3. \A c, d \in 1..n : c < d => last[c] <= first[d]
  <2>1. SUFFICES ASSUME NEW c \in 1..n PROVE \A d \in 1..n : c < d => last[c] <= first[d]
    OBVIOUS
  <2>2. PICK wrong : wrong = {d \in 1..n : c < d /\ ~(last[c] <= first[d])}
    OBVIOUS
  <2>3. SUFFICES ASSUME wrong # {} PROVE FALSE
    BY <2>2
  <2>4. wrong \in SUBSET Nat
    BY <2>2
  <2>5. PICK d \in wrong : \A e \in wrong : d <= e
    BY <2>3, <2>4, LeastNatural
  <2>6. d \in 1..n /\ c < d /\ ~(last[c] <= first[d])
    BY <2>2
  <2>7. CASE d = c + 1
    <3>1. c \in 1..(n - 1)
      BY <2>6, <2>7
    <3> QED
      BY <1>2, <2>6, <2>7, <3>1
  <2>8. CASE d # c + 1
    <3>1. d - 1 \in 1..n /\ d - 1 \in 1..(n - 1) /\ c < d - 1 /\ (d - 1) + 1 = d /\ ~(d <= d - 1)
      BY <2>6, <2>8
    <3>2. last[c] <= first[d - 1]
      BY <2>2, <2>5, <3>1
    <3>3. first[d - 1] < last[d - 1] /\ last[d - 1] = first[d]
      BY <1>2, <3>1
    <3> QED
      BY <2>6, <3>1, <3>2, <3>3
  <2> QED
    BY <2>7, <2>8
<1>4. \A d \in 1..n : DayOf(days[d]) = first[d]..(last[d] - 1)
  BY <1>2 DEF DayOf
<1>5. ASSUME NEW c \in 1..n, NEW d \in 1..n, c # d, NEW s \in DayOf(days[c]), s \in DayOf(days[d])
      PROVE  FALSE
  <2>1. s \in Int /\ first[c] <= s /\ s < last[c] /\ first[d] <= s /\ s < last[d]
    BY <1>4, <1>5
  <2>2. c < d \/ d < c
    BY <1>5
  <2> QED
    BY <1>3, <2>1, <2>2
<1>6. PeriodSpan(days).clockIn = first[1] /\ PeriodSpan(days).clockOut = last[n]
  BY <1>1, <1>2 DEF PeriodSpan
<1>7. ASSUME NEW d \in 1..n, NEW s \in DayOf(days[d])
      PROVE  s \in first[1]..(last[n] - 1)
  <2>1. s \in Int /\ first[d] <= s /\ s < last[d]
    BY <1>4
  <2>2. first[1] <= first[d] /\ last[d] <= last[n]
    <3>1. 1 \in 1..n /\ n \in 1..n /\ (1 = d \/ 1 < d) /\ (d = n \/ d < n)
      OBVIOUS
    <3>2. first[1] < last[1] /\ first[n] < last[n]
      BY <1>2, <3>1
    <3>3. 1 < d => last[1] <= first[d]
      BY <1>3, <3>1
    <3>4. d < n => last[d] <= first[n]
      BY <1>3, <3>1
    <3> QED
      BY <3>1, <3>2, <3>3, <3>4
  <2>3. first[1] \in Int /\ last[n] \in Int
    OBVIOUS
  <2> QED
    BY <2>1, <2>2, <2>3
<1>8. ASSUME NEW s \in first[1]..(last[n] - 1)
      PROVE  \E d \in 1..n : s \in DayOf(days[d])
  <2>1. PICK later : later = {d \in 1..n : s < last[d]}
    OBVIOUS
  <2>2. later \in SUBSET Nat /\ n \in later
    BY <2>1
  <2>3. PICK d \in later : \A e \in later : d <= e
    BY <2>2, LeastNatural
  <2>4. d \in 1..n /\ s < last[d]
    BY <2>1
  <2>5. first[d] <= s
    <3>1. CASE d = 1
      BY <3>1
    <3>2. CASE d # 1
      <4>1. d - 1 \in 1..n /\ d - 1 \in 1..(n - 1) /\ (d - 1) + 1 = d /\ ~(d <= d - 1)
        BY <2>4, <3>2
      <4>2. ~(s < last[d - 1])
        BY <2>1, <2>3, <4>1
      <4>3. last[d - 1] = first[d]
        BY <1>2, <4>1
      <4> QED
        BY <2>4, <4>1, <4>2, <4>3
    <3> QED
      BY <3>1, <3>2
  <2>6. s \in first[d]..(last[d] - 1)
    BY <2>4, <2>5
  <2> QED
    BY <1>4, <2>4, <2>6
<1> QED
  BY <1>1, <1>5, <1>6, <1>7, <1>8

(* The days are finitely many, with instants for bounds.                   *)
LEMMA DaysAreFinite ==
  ASSUME NEW days, Contiguous(days)
  PROVE  /\ IsFiniteSet(DOMAIN days) /\ 1 \in DOMAIN days /\ Len(days) \in DOMAIN days
         /\ \A d \in DOMAIN days : days[d] \in [start : Int, end : Int]
<1>1. PICK R : R = [start : Int, end : Int]
  OBVIOUS
<1>2. days \in Seq(R) /\ days # <<>>
  BY <1>1 DEF Contiguous
<1>3. /\ Len(days) \in Nat \ {0} /\ DOMAIN days = 1..Len(days)
      /\ \A d \in 1..Len(days) : days[d] \in R
  BY <1>2
<1>4. IsFiniteSet(1..Len(days))
  BY <1>3, FS_Interval
<1> QED
  BY <1>1, <1>3, <1>4

(* The sum over the intervals, as the sum of a function.                   *)
LEMMA WorkedIsASum ==
  ASSUME NEW days, NEW intervals, NEW pay
  PROVE  CalculateTimecard(days, intervals, pay).worked =
           [d \in DOMAIN days |->
              SumFunctionOnSet([i \in intervals |-> Allocated(i, days[d])], intervals)]
<1>1. ASSUME NEW day
      PROVE  MapThenSumSet(LAMBDA i : Allocated(i, day), intervals)
               = SumFunctionOnSet([i \in intervals |-> Allocated(i, day)], intervals)
  BY DEF MapThenSumSet, MapThenFoldSet, SumFunctionOnSet, FoldFunctionOnSet
<1>2. CalculateTimecard(days, intervals, pay).worked =
        [d \in DOMAIN days |->
           MapThenSumSet(LAMBDA i : Allocated(i, days[d]), intervals)]
  BY DEF CalculateTimecard
<1> QED
  BY <1>1, <1>2

(* The intervals of a card: what calculateTimecard does not throw for.     *)
LEMMA IntervalsApart ==
  ASSUME NEW i \in [clockIn : Int, clockOut : Int], NEW j \in [clockIn : Int, clockOut : Int],
         i.clockIn < i.clockOut, j.clockIn < j.clockOut, ~Overlapping(i, j)
  PROVE  UnitsOf(i) \cap UnitsOf(j) = {}
<1>1. PICK a, b, c, d \in Int :
        i.clockIn = a /\ i.clockOut = b /\ j.clockIn = c /\ j.clockOut = d
  OBVIOUS
<1> QED
  BY <1>1 DEF Overlapping, UnitsOf

(* The units worked on a day.                                              *)
LEMMA WorkedOnADay ==
  ASSUME NEW intervals \in SUBSET [clockIn : Int, clockOut : Int], IsFiniteSet(intervals),
         \A i \in intervals : i.clockIn < i.clockOut,
         \A i, j \in intervals : i # j => ~Overlapping(i, j),
         NEW day \in [start : Int, end : Int],
         NEW f, f = [i \in intervals |-> Allocated(i, day)],
         NEW worked,
         \A s : s \in worked <=> s \in DayOf(day) /\ \E i \in intervals : s \in UnitsOf(i)
  PROVE  IsFiniteSet(worked) /\ SumFunctionOnSet(f, intervals) = Cardinality(worked)
<1>1. PICK part : part = [i \in intervals |-> UnitsOf(i) \cap DayOf(day)]
  OBVIOUS
<1>2. \A i \in intervals : IsFiniteSet(part[i]) /\ f[i] = Cardinality(part[i])
  BY <1>1, SharedUnits
<1>3. \A i, j \in intervals : i # j => part[i] \cap part[j] = {}
  BY <1>1, IntervalsApart
<1>4. Divided(part, intervals, worked)
  BY <1>1, <1>2, <1>3 DEF Divided
<1> QED
  BY <1>2, <1>4, SumOfParts

(* Every unit of attendance in the period is on one day, and on one only   *)
(* (calculateTimecard).                                                    *)
THEOREM TimeIsKept ==
  ASSUME NEW days, Contiguous(days), NEW pay,
         NEW intervals \in SUBSET [clockIn : Int, clockOut : Int], IsFiniteSet(intervals),
         Calculable(intervals, days),
         NEW card, card = CalculateTimecard(days, intervals, pay),
         NEW attended,
         attended = {s \in PeriodSpan(days).clockIn..(PeriodSpan(days).clockOut - 1) :
                       \E i \in intervals : i.clockIn <= s /\ s < i.clockOut}
  PROVE  /\ Total(card.worked) = Cardinality(attended)
         /\ DOMAIN card.worked = DOMAIN days
         /\ \A d \in DOMAIN days : card.worked[d] \in Nat
<1>1. PICK worked : worked = card.worked
  OBVIOUS
<1>2. PICK S : S = DOMAIN days
  OBVIOUS
<1>3. PICK part : part = [d \in S |->
        {s \in DayOf(days[d]) : \E i \in intervals : s \in UnitsOf(i)}]
  OBVIOUS
<1>4. DOMAIN worked = S /\ \A d \in S : worked[d] =
        SumFunctionOnSet([i \in intervals |-> Allocated(i, days[d])], intervals)
  <2>1. worked = [d \in DOMAIN days |->
          SumFunctionOnSet([i \in intervals |-> Allocated(i, days[d])], intervals)]
    BY <1>1, WorkedIsASum
  <2> QED
    BY <1>2, <2>1
<1>5. /\ \A i \in intervals : i.clockIn < i.clockOut
      /\ \A i, j \in intervals : i # j => ~Overlapping(i, j)
  BY DEF Calculable
<1>6. IsFiniteSet(S) /\ \A d \in S : days[d] \in [start : Int, end : Int]
  BY <1>2, DaysAreFinite
<1>7. ASSUME NEW d \in S
      PROVE  IsFiniteSet(part[d]) /\ worked[d] = Cardinality(part[d])
  <2>1. PICK day \in [start : Int, end : Int] : day = days[d]
    BY <1>6
  <2>2. PICK f : f = [i \in intervals |-> Allocated(i, day)]
    OBVIOUS
  <2>3. \A s : s \in part[d] <=> s \in DayOf(day) /\ \E i \in intervals : s \in UnitsOf(i)
    BY <1>3, <2>1
  <2>4. PICK p : p = part[d]
    OBVIOUS
  <2>5. IsFiniteSet(p) /\ SumFunctionOnSet(f, intervals) = Cardinality(p)
    BY <1>5, <2>2, <2>3, <2>4, WorkedOnADay
  <2>6. worked[d] = SumFunctionOnSet(f, intervals)
    BY <1>4, <2>1, <2>2
  <2> QED
    BY <2>4, <2>5, <2>6
<1>8. \A c, d \in S : c # d => part[c] \cap part[d] = {}
  <2>1. \A c, d \in S : c # d => DayOf(days[c]) \cap DayOf(days[d]) = {}
    BY <1>2, DaysPartition
  <2>2. \A d \in S : part[d] \subseteq DayOf(days[d])
    BY <1>3
  <2> QED
    BY <2>1, <2>2
<1>9. \A s : s \in attended <=> \E d \in S : s \in part[d]
  <2>1. \A s : s \in PeriodSpan(days).clockIn..(PeriodSpan(days).clockOut - 1)
                 <=> \E d \in S : s \in DayOf(days[d])
    BY <1>2, DaysPartition
  <2>2. ASSUME NEW s \in Int, NEW i \in intervals
        PROVE  s \in UnitsOf(i) <=> i.clockIn <= s /\ s < i.clockOut
    <3>1. PICK a, b \in Int : i.clockIn = a /\ i.clockOut = b
      OBVIOUS
    <3> QED
      BY <3>1 DEF UnitsOf
  <2>3. \A d \in S : \A s \in DayOf(days[d]) : s \in Int
    BY <1>6 DEF DayOf
  <2> QED
    BY <1>3, <2>1, <2>2, <2>3
<1>10. SumFunctionOnSet(worked, S) = Cardinality(attended)
  <2>1. Divided(part, S, attended)
    BY <1>7, <1>8, <1>9 DEF Divided
  <2> QED
    BY <1>6, <1>7, <2>1, SumOfParts
<1>11. \A d \in S : worked[d] \in Nat
  BY <1>7, FS_CardinalityType
<1> QED
  BY <1>1, <1>2, <1>4, <1>10, <1>11 DEF Total, SumFunction

(* The period as one day.                                                  *)
WholePeriod(days) == [start |-> days[1].start, end |-> days[Len(days)].end]

(* What an interval is allocated over the days is what it has in the       *)
(* period: calculateTimecard never throws "attendance source allocation    *)
(* does not reconcile", which Calculable leaves out.                       *)
THEOREM AllocationReconciles ==
  ASSUME NEW days, Contiguous(days), NEW i \in [clockIn : Int, clockOut : Int]
  PROVE  Total([d \in DOMAIN days |-> Allocated(i, days[d])])
           = Allocated(i, WholePeriod(days))
<1>1. PICK S : S = DOMAIN days
  OBVIOUS
<1>2. PICK part : part = [d \in S |-> UnitsOf(i) \cap DayOf(days[d])]
  OBVIOUS
<1>3. PICK all : all = UnitsOf(i) \cap DayOf(WholePeriod(days))
  OBVIOUS
<1>4. PICK f : f = [d \in S |-> Allocated(i, days[d])]
  OBVIOUS
<1>5. /\ IsFiniteSet(S) /\ \A d \in S : days[d] \in [start : Int, end : Int]
      /\ WholePeriod(days) \in [start : Int, end : Int]
  BY <1>1, DaysAreFinite DEF WholePeriod
<1>6. \A d \in S : IsFiniteSet(part[d]) /\ f[d] = Cardinality(part[d])
  BY <1>2, <1>4, <1>5, SharedUnits
<1>7. \A s : s \in DayOf(WholePeriod(days)) <=> \E d \in S : s \in DayOf(days[d])
  BY <1>1, DaysPartition DEF PeriodSpan, WholePeriod, DayOf
<1>8. \A c, d \in S : c # d => part[c] \cap part[d] = {}
  <2>1. \A c, d \in S : c # d => DayOf(days[c]) \cap DayOf(days[d]) = {}
    BY <1>1, DaysPartition
  <2> QED
    BY <1>2, <2>1
<1>9. Divided(part, S, all)
  BY <1>2, <1>3, <1>6, <1>7, <1>8 DEF Divided
<1>10. SumFunctionOnSet(f, S) = Cardinality(all)
  BY <1>5, <1>6, <1>9, SumOfParts
<1>11. Allocated(i, WholePeriod(days)) = Cardinality(all)
  BY <1>3, <1>5, SharedUnits
<1>12. DOMAIN f = S
  BY <1>4
<1> QED
  BY <1>1, <1>4, <1>10, <1>11, <1>12 DEF Total, SumFunction

-----------------------------------------------------------------------------
(***************************************************************************)
(* Payslips, and the sheet.                                                *)
(***************************************************************************)
(* The payable minutes of the days, and the amount of the period.          *)
LEMMA CardCalculated ==
  ASSUME NEW days, Contiguous(days), NEW pay \in Pay,
         NEW intervals \in SUBSET [clockIn : Int, clockOut : Int], IsFiniteSet(intervals),
         Calculable(intervals, days),
         NEW card, card = CalculateTimecard(days, intervals, pay)
  PROVE  /\ card.minutes \in Seq(Nat) /\ card.minutes # <<>>
         /\ DOMAIN card.minutes = DOMAIN days
         /\ pay.overtime => card.money = AllocateDailyMoney(pay, card.minutes)
         /\ card.amount = IF pay.overtime THEN OvertimeAmount(pay, Total(card.minutes)) ELSE 0
         /\ card.amount \in Nat
<1>1. PICK threshold \in Nat, eligible \in BOOLEAN :
        pay.threshold = threshold /\ pay.overtime = eligible
  BY DEF Pay
<1>2. PICK n \in Nat \ {0} : DOMAIN days = 1..n
  <2>1. PICK R : R = [start : Int, end : Int]
    OBVIOUS
  <2>2. days \in Seq(R) /\ days # <<>>
    BY <2>1 DEF Contiguous
  <2>3. Len(days) \in Nat \ {0} /\ DOMAIN days = 1..Len(days)
    BY <2>2
  <2> QED
    BY <2>3
<1>3. PICK worked : worked = card.worked
  OBVIOUS
<1>4. \A d \in 1..n : worked[d] \in Nat
  BY <1>2, <1>3, TimeIsKept
<1>5. \A d \in 1..n : card.over[d] =
        IF eligible THEN Later(0, worked[d] - threshold * MinuteUnits) ELSE 0
  BY <1>1, <1>2, <1>3 DEF CalculateTimecard
<1>6. MinuteUnits \in Nat \ {0} /\ threshold * MinuteUnits \in Nat
  <2>1. MinuteUnits \in Nat \ {0}
    BY CalculatorAssumption DEF CalculatorAssumption
  <2> QED
    BY <2>1, Products
<1>7. \A d \in 1..n : card.over[d] \in Nat
  BY <1>4, <1>5, <1>6 DEF Later
<1>8. \A x \in Nat : PayableMinutes(x) \in Nat
  <2>1. PICK m \in Nat \ {0} : m = MinuteUnits
    BY <1>6
  <2>2. \A x \in Nat : (x + m \div 2) \div m \in Nat
    <3>1. m \div 2 \in Nat
      OBVIOUS
    <3>2. \A y \in Nat : y \div m \in Nat
      OBVIOUS
    <3> QED
      BY <3>1, <3>2
  <2> QED
    BY <2>1, <2>2 DEF PayableMinutes
<1>9. card.minutes = [d \in 1..n |-> PayableMinutes(card.over[d])]
  BY <1>2 DEF CalculateTimecard
<1>10. card.minutes \in [1..n -> Nat]
  BY <1>7, <1>8, <1>9
<1>11. card.minutes \in Seq(Nat) /\ card.minutes # <<>> /\ DOMAIN card.minutes = 1..n
  BY <1>10
<1>12. /\ pay.overtime => card.money = AllocateDailyMoney(pay, card.minutes)
       /\ card.amount = IF pay.overtime THEN OvertimeAmount(pay, Total(card.minutes)) ELSE 0
  BY DEF CalculateTimecard
<1>13. OvertimeAmount(pay, Total(card.minutes)) \in Nat
  <2>1. Total(card.minutes) \in Nat
    <3>1. Total(card.minutes) = SumFunctionOnSet(card.minutes, 1..n)
      BY <1>11 DEF Total, SumFunction
    <3>2. IsFiniteSet(1..n)
      BY FS_Interval
    <3>3. \A d \in 1..n : card.minutes[d] \in Nat
      BY <1>10
    <3> QED
      BY <3>1, <3>2, <3>3, SumNat
  <2> QED
    BY <2>1, Rational, HalfUp DEF OvertimeAmount
<1> QED
  BY <1>1, <1>2, <1>11, <1>12, <1>13

(* The rows of payouts and of runs.                                        *)
Row == [gross : Nat, deductions : Nat, net : Nat]

(* A payout is a row its table admits, whatever is deducted: what exceeds  *)
(* the gross amount is refused (calculatePayout).                          *)
LEMMA PayoutIsAdmitted ==
  ASSUME NEW card \in [base : Nat, amount : Nat],
         NEW own, IsFiniteSet(DOMAIN own), \A name \in DOMAIN own : own[name] \in Nat,
         ~DeductionsExceedGross(card, own)
  PROVE  CalculatePayout(card, own) \in Row /\ Admitted(CalculatePayout(card, own))
<1>1. PICK d \in Nat : d = Total(own)
  BY SumNat DEF Total, SumFunction
<1>2. PICK g \in Nat : g = Gross(card)
  BY DEF Gross
<1>3. d <= g
  BY <1>1, <1>2 DEF DeductionsExceedGross
<1>4. CalculatePayout(card, own) = [gross |-> g, deductions |-> d, net |-> g - d]
  BY <1>1, <1>2 DEF CalculatePayout
<1> QED
  BY <1>3, <1>4 DEF Row, Admitted

(* The totals of the columns agree, of any number of payouts               *)
(* (calculateRunTotals).                                                   *)
THEOREM TotalsAreAdmitted ==
  ASSUME NEW payouts, IsFiniteSet(DOMAIN payouts),
         \A e \in DOMAIN payouts : payouts[e] \in Row /\ Admitted(payouts[e])
  PROVE  CalculateRunTotals(payouts) \in Row /\ Admitted(CalculateRunTotals(payouts))
<1>1. PICK S : S = DOMAIN payouts
  OBVIOUS
<1>2. PICK g : g = [e \in S |-> payouts[e].gross]
  OBVIOUS
<1>3. PICK d : d = [e \in S |-> payouts[e].deductions]
  OBVIOUS
<1>4. PICK n : n = [e \in S |-> payouts[e].net]
  OBVIOUS
<1>5. \A e \in S : g[e] \in Nat /\ d[e] \in Nat /\ n[e] \in Nat /\ g[e] = d[e] + n[e]
  BY <1>1, <1>2, <1>3, <1>4 DEF Row, Admitted
<1>6. /\ SumFunctionOnSet(g, S) \in Nat /\ SumFunctionOnSet(d, S) \in Nat
      /\ SumFunctionOnSet(n, S) \in Nat
  BY <1>1, <1>5, SumNat
<1>7. SumFunctionOnSet(g, S) = SumFunctionOnSet(d, S) + SumFunctionOnSet(n, S)
  <2>1. \A e \in S : d[e] \in Int /\ n[e] \in Int
    BY <1>5
  <2> QED
    BY <1>1, <1>5, <2>1, SumAdds
<1>8. CalculateRunTotals(payouts) = [column \in {"gross", "deductions", "net"} |->
        Total([e \in S |-> payouts[e][column]])]
  BY <1>1 DEF CalculateRunTotals
<1>9. /\ Total([e \in S |-> payouts[e]["gross"]]) = SumFunctionOnSet(g, S)
      /\ Total([e \in S |-> payouts[e]["deductions"]]) = SumFunctionOnSet(d, S)
      /\ Total([e \in S |-> payouts[e]["net"]]) = SumFunctionOnSet(n, S)
  BY <1>2, <1>3, <1>4 DEF Total, SumFunction
<1>10. PICK totals : totals = CalculateRunTotals(payouts)
  OBVIOUS
<1>11. /\ totals = [column \in {"gross", "deductions", "net"} |-> totals[column]]
       /\ totals.gross = SumFunctionOnSet(g, S)
       /\ totals.deductions = SumFunctionOnSet(d, S)
       /\ totals.net = SumFunctionOnSet(n, S)
  BY <1>8, <1>9, <1>10
<1>12. totals \in Row
  BY <1>6, <1>11 DEF Row
<1>13. Admitted(totals)
  BY <1>6, <1>7, <1>11 DEF Admitted
<1> QED
  BY <1>10, <1>12, <1>13

(* A sheet, if there is one, is of a calculable card, and has no result    *)
(* but its own.                                                            *)
SheetInv ==
  \/ sheet = NoSheet
  \/ \E a, b \in SheetIntervals, pay \in SheetPays :
       /\ Calculable({a, b}, SheetDays)
       /\ \/ sheet = Blank(a, b, pay)
          \/ sheet = [Blank(a, b, pay) EXCEPT !.result =
                        CalculateTimecard(SheetDays, {a, b}, pay)]

(* The results of a sheet are those of its card, and never change.         *)
THEOREM SheetInvariance == SheetSpec => []SheetInv
<1>1. sheet = NoSheet \/ SheetInit => SheetInv
  BY DEF SheetInit, SheetInv
<1>2. SheetInv /\ [Calculate]_sheet => SheetInv'
  <2>1. SUFFICES ASSUME SheetInv, [Calculate]_sheet PROVE SheetInv'
    OBVIOUS
  <2>2. CASE sheet = NoSheet
    BY <2>1, <2>2 DEF SheetInv, Calculate
  <2>3. SUFFICES ASSUME sheet # NoSheet PROVE SheetInv'
    BY <2>2
  <2>4. PICK a \in SheetIntervals, b \in SheetIntervals, pay \in SheetPays :
          /\ Calculable({a, b}, SheetDays)
          /\ \/ sheet = Blank(a, b, pay)
             \/ sheet = [Blank(a, b, pay) EXCEPT !.result =
                           CalculateTimecard(SheetDays, {a, b}, pay)]
    BY <2>1, <2>3 DEF SheetInv
  <2>5. CASE UNCHANGED sheet
    BY <2>1, <2>5 DEF SheetInv
  <2>6. CASE Calculate
    <3>1. sheet.intervals = {a, b} /\ sheet.pay = pay
      BY <2>4 DEF Blank
    <3>2. sheet' = [sheet EXCEPT !.result = CalculateTimecard(SheetDays, {a, b}, pay)]
      BY <2>6, <3>1 DEF Calculate
    <3>3. sheet' = [Blank(a, b, pay) EXCEPT !.result = CalculateTimecard(SheetDays, {a, b}, pay)]
      BY <2>4, <3>2 DEF Blank
    <3> QED
      BY <2>4, <3>3 DEF SheetInv
  <2> QED
    BY <2>1, <2>5, <2>6
<1> QED
  BY <1>1, <1>2, PTL DEF SheetSpec

(* What the assumption on the constants says of a sheet.                   *)
LEMMA SheetFacts ==
  ASSUME NEW a \in SheetIntervals, NEW b \in SheetIntervals, NEW pay \in SheetPays
  PROVE  /\ pay \in Pay /\ Contiguous(SheetDays)
         /\ {a, b} \in SUBSET [clockIn : Int, clockOut : Int]
         /\ IsFiniteSet({a, b})
<1>1. pay \in Pay
  BY SheetAssumption DEF SheetAssumption, Pay
<1>2. Contiguous(SheetDays)
  BY SheetAssumption DEF SheetAssumption
<1>3. {a, b} \in SUBSET [clockIn : Int, clockOut : Int]
  BY SheetAssumption DEF SheetAssumption, SheetIntervals
<1>4. IsFiniteSet({a, b})
  <2>1. IsFiniteSet({a}) /\ IsFiniteSet({b}) /\ {a, b} = {a} \cup {b}
    BY FS_Singleton
  <2> QED
    BY <2>1, FS_Union
<1> QED
  BY <1>1, <1>2, <1>3, <1>4

(* A timecard and its payslips add up, whatever the days, the pay, the     *)
(* policy and the deductions (SheetAddsUp).                                *)
THEOREM SheetIsFair == SheetSpec => []SheetAddsUp
<1>1. SheetInv => SheetAddsUp
  <2>1. SUFFICES ASSUME SheetInv, Calculated
                 PROVE  TimeAddsUp /\ (sheet.pay.overtime => MoneyAddsUp) /\ PayoutsAddUp
    BY DEF SheetAddsUp
  <2>2. sheet # NoSheet
    BY <2>1 DEF Calculated, NoSheet
  <2>3. PICK a \in SheetIntervals, b \in SheetIntervals, pay \in SheetPays :
          /\ Calculable({a, b}, SheetDays)
          /\ \/ sheet = Blank(a, b, pay)
             \/ sheet = [Blank(a, b, pay) EXCEPT !.result =
                           CalculateTimecard(SheetDays, {a, b}, pay)]
    BY <2>1, <2>2 DEF SheetInv
  <2>4. PICK intervals : intervals = {a, b}
    OBVIOUS
  <2>5. PICK card : card = CalculateTimecard(SheetDays, intervals, pay)
    OBVIOUS
  <2>6. sheet.intervals = intervals /\ sheet.pay = pay /\ Result = card
    BY <2>1, <2>3, <2>4, <2>5 DEF Blank, Calculated, Result
  <2>7. /\ pay \in Pay /\ Contiguous(SheetDays)
        /\ intervals \in SUBSET [clockIn : Int, clockOut : Int]
        /\ IsFiniteSet(intervals) /\ Calculable(intervals, SheetDays)
    BY <2>3, <2>4, SheetFacts
  <2>8. TimeAddsUp
    <3>1. PICK attended : attended =
            {s \in PeriodSpan(SheetDays).clockIn..(PeriodSpan(SheetDays).clockOut - 1) :
               \E i \in intervals : i.clockIn <= s /\ s < i.clockOut}
      OBVIOUS
    <3>2. Total(card.worked) = Cardinality(attended)
      BY <2>5, <2>7, <3>1, TimeIsKept
    <3> QED
      BY <2>6, <3>1, <3>2 DEF TimeAddsUp
  <2>9. /\ card.minutes \in Seq(Nat) /\ card.minutes # <<>>
        /\ DOMAIN card.minutes = DOMAIN SheetDays
        /\ pay.overtime => card.money = AllocateDailyMoney(pay, card.minutes)
        /\ card.amount = IF pay.overtime THEN OvertimeAmount(pay, Total(card.minutes)) ELSE 0
        /\ card.amount \in Nat
    BY <2>5, <2>7, CardCalculated
  <2>10. ASSUME pay.overtime
        PROVE  MoneyAddsUp
    <3>1. PICK minutes \in Seq(Nat) :
            minutes = card.minutes /\ minutes # <<>> /\ DOMAIN minutes = DOMAIN SheetDays
      BY <2>9
    <3>2. PICK money : money = card.money /\ money = AllocateDailyMoney(pay, minutes)
      BY <2>9, <2>10, <3>1
    <3>3. card.amount = OvertimeAmount(pay, Total(minutes))
      BY <2>9, <2>10, <3>1
    <3>4. PICK S : S = DOMAIN minutes
      OBVIOUS
    <3>5. /\ Total(money) = OvertimeAmount(pay, Total(minutes))
          /\ \A i \in S :
               /\ money[i] * Denominator(pay) - Numerator(pay, minutes[i])
                    \in (1 - Denominator(pay))..(Denominator(pay) - 1)
               /\ minutes[i] = 0 => money[i] = 0
               /\ \A j \in S : minutes[i] > minutes[j] => money[i] >= money[j]
      BY <2>7, <3>1, <3>2, <3>4, MoneyIsFair
    <3> QED
      BY <2>6, <3>1, <3>2, <3>3, <3>4, <3>5 DEF MoneyAddsUp
  <2>11. PayoutsAddUp
    <3>1. PICK paid \in [base : Nat, amount : Nat] : paid = PaidCard
      BY <2>6, <2>7, <2>9 DEF PaidCard, Pay
    <3>2. SUFFICES ASSUME NEW own \in SheetDeductions, NEW other \in SheetDeductions,
                          ~DeductionsExceedGross(paid, own),
                          ~DeductionsExceedGross(paid, other)
                   PROVE  LET payouts == <<CalculatePayout(paid, own),
                                           CalculatePayout(paid, other)>>
                          IN  /\ \A e \in DOMAIN payouts : Admitted(payouts[e])
                              /\ Admitted(CalculateRunTotals(payouts))
      BY <3>1 DEF PayoutsAddUp
    <3>3. PICK payouts : payouts = <<CalculatePayout(paid, own), CalculatePayout(paid, other)>>
      OBVIOUS
    <3>4. \A e \in DOMAIN payouts : payouts[e] \in Row /\ Admitted(payouts[e])
      <4>1. \A some \in {own, other} : IsFiniteSet(DOMAIN some)
                                    /\ \A name \in DOMAIN some : some[name] \in Nat
        BY SheetAssumption DEF SheetAssumption
      <4>2. CalculatePayout(paid, own) \in Row /\ Admitted(CalculatePayout(paid, own))
        BY <3>2, <4>1, PayoutIsAdmitted
      <4>3. CalculatePayout(paid, other) \in Row /\ Admitted(CalculatePayout(paid, other))
        BY <3>2, <4>1, PayoutIsAdmitted
      <4> QED
        BY <3>3, <4>2, <4>3
    <3>5. IsFiniteSet(DOMAIN payouts)
      <4>1. PICK two \in Int : two = 2 /\ DOMAIN payouts = 1..two
        BY <3>3
      <4>2. IsFiniteSet(1..two)
        BY FS_Interval
      <4> QED
        BY <4>1, <4>2
    <3>6. Admitted(CalculateRunTotals(payouts))
      BY <3>4, <3>5, TotalsAreAdmitted
    <3> QED
      BY <3>3, <3>4, <3>6
  <2> QED
    BY <2>6, <2>8, <2>10, <2>11
<1> QED
  BY <1>1, SheetInvariance, PTL
=============================================================================
