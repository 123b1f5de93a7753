----------------------------- MODULE NatLemmas ------------------------------
(***************************************************************************)
(* Least and greatest elements of sets of naturals, and finite sums.  The  *)
(* library's induction theorems cannot be instantiated here, but its       *)
(* theorem on minimal elements can, and gives the least-number principle.  *)
(***************************************************************************)
EXTENDS Integers, FiniteSetsExt, FiniteSetTheorems, WellFoundedInduction, TLAPS

(* A nonempty set of naturals has a least element. *)
LEMMA LeastNat ==
  ASSUME NEW S, S \subseteq Nat, S # {}
  PROVE  \E x \in S : \A y \in S : x <= y
<1>1. IsWellFoundedOn(OpToRel(<, Nat), Nat)
  BY NatLessThanWellFounded
<1>2. PICK x \in S : \A y \in S : ~ (<<y, x>> \in OpToRel(<, Nat))
  BY <1>1, WFMin
<1>3. \A y \in S : ~ (y < x)
  BY <1>2 DEF OpToRel
<1> QED
  BY <1>3

(* Induction up to n: a set that has 0, and of each number the next. *)
LEMMA UpTo ==
  ASSUME NEW n \in Nat, NEW S, 0 \in S, \A k \in 0 .. n - 1 : k \in S => k + 1 \in S
  PROVE  0 .. n \subseteq S
<1> DEFINE Q == (0 .. n) \ S
<1> SUFFICES ASSUME Q # {} PROVE FALSE
  OBVIOUS
<1>1. Q \subseteq Nat
  OBVIOUS
<1>2. PICK k \in Q : \A j \in Q : k <= j
  <2> HIDE DEF Q
  <2> QED
    BY <1>1, LeastNat
<1>3. k - 1 \in 0 .. n - 1 /\ (k - 1) + 1 = k /\ ~(k <= k - 1) /\ k \notin S
  BY <1>2
<1>4. k - 1 \in S
  BY <1>2, <1>3
<1> QED
  BY <1>3, <1>4

(* Min picks it. *)
LEMMA MinNat ==
  ASSUME NEW S, S \subseteq Nat, S # {}
  PROVE  Min(S) \in S /\ \A y \in S : Min(S) <= y
  BY LeastNat DEF Min

(* A nonempty bounded set of naturals has a greatest element. *)
LEMMA MaxNat ==
  ASSUME NEW S, S \subseteq Nat, S # {}, NEW b \in Nat, \A y \in S : y <= b
  PROVE  Max(S) \in S /\ \A y \in S : Max(S) >= y
<1> DEFINE U == {u \in Nat : \A y \in S : y <= u}
<1>1. PICK u \in U : \A v \in U : u <= v
  <2>1. U \subseteq Nat /\ b \in U
    OBVIOUS
  <2> QED
    BY <2>1, LeastNat
<1>2. u \in S
  <2>1. SUFFICES ASSUME u \notin S PROVE FALSE
    OBVIOUS
  <2>2. PICK y \in S : TRUE
    OBVIOUS
  <2>3. u \in Nat /\ y \in Nat /\ y <= u /\ u # y
    BY <1>1, <2>1
  <2>4. u - 1 \in Nat
    BY <2>3
  <2>5. \A z \in S : z <= u - 1
    BY <1>1, <2>1, <2>4
  <2> QED
    BY <1>1, <2>4, <2>5
<1> QED
  BY <1>1, <1>2 DEF Max

(* A function on an interval 1..n of naturals with values in Nat is        *)
(* bounded: the least n for which it is not would have a bounded           *)
(* predecessor.                                                            *)
LEMMA BoundedOnInterval ==
  ASSUME NEW m \in Nat, NEW f \in [1..m -> Nat]
  PROVE  \E b \in Nat : \A i \in 1..m : f[i] <= b
<1> DEFINE Bounded(n) == \E b \in Nat : \A i \in 1..n : f[i] <= b
           T == {n \in 0..m : ~Bounded(n)}
<1>1. SUFFICES ASSUME T # {} PROVE FALSE
  <2>1. m \in 0..m
    OBVIOUS
  <2> QED
    BY <2>1, Zenon
<1>2. PICK n \in T : \A k \in T : n <= k
  <2>1. T \subseteq Nat
    OBVIOUS
  <2> QED
    BY <1>1, <2>1, LeastNat
<1>3. Bounded(0)
  <2>1. \A i \in 1..0 : f[i] <= 0
    OBVIOUS
  <2> QED
    BY <2>1
<1>4. n \in 1..m
  BY <1>2, <1>3
<1>5. n - 1 \in 0..m /\ n - 1 \notin T
  <2>1. n - 1 \in 0..m /\ ~(n <= n - 1)
    BY <1>4
  <2> QED
    BY <2>1, <1>2, Zenon
<1>6. PICK b \in Nat : \A i \in 1..(n - 1) : f[i] <= b
  BY <1>5
<1>7. f[n] \in Nat
  BY <1>4
<1> DEFINE c == IF f[n] <= b THEN b ELSE f[n]
<1>8. c \in Nat /\ f[n] <= c /\ b <= c
  BY <1>6, <1>7
<1>9. \A i \in 1..n : f[i] <= c
  <2>1. TAKE i \in 1..n
  <2>2. CASE i = n
    BY <2>2, <1>8
  <2>3. CASE i # n
    <3>1. i \in 1..(n - 1) /\ f[i] \in Nat
      BY <2>3, <1>4
    <3> QED
      BY <3>1, <1>6, <1>8
  <2> QED
    BY <2>2, <2>3
<1>10. Bounded(n)
  BY <1>8, <1>9
<1> QED
  BY <1>2, <1>10
-----------------------------------------------------------------------------
(* The recursion of MapThenSumSet, with the term at x named f[x]: F adds   *)
(* up the terms of every subset.                                           *)
One(s) == CHOOSE x \in s : TRUE
Adds(F, f, S) ==
    F = [s \in SUBSET S |-> IF s = {} THEN 0 ELSE f[One(s)] + F[s \ {One(s)}]]

(* CHOOSE takes an element of a set that has one. *)
LEMMA OneIsIn == ASSUME NEW s, s # {} PROVE One(s) \in s
BY DEF One

(* A set without one of its elements is smaller by one. *)
LEMMA Smaller ==
  ASSUME NEW S, IsFiniteSet(S), NEW s \in SUBSET S, NEW x \in s
  PROVE  /\ s \ {x} \in SUBSET S
         /\ Cardinality(s) \in Nat /\ Cardinality(s) > 0
         /\ Cardinality(s \ {x}) = Cardinality(s) - 1
         /\ Cardinality(s \ {x}) \in Nat
<1>1. IsFiniteSet(s)
  BY FS_Subset
<1>2. IsFiniteSet(s \ {x}) /\ Cardinality(s \ {x}) = Cardinality(s) - 1
  BY <1>1, FS_RemoveElement
<1>3. Cardinality(s) \in Nat /\ Cardinality(s \ {x}) \in Nat
  BY <1>1, <1>2, FS_CardinalityType
<1> QED
  BY <1>2, <1>3

(* The recursion of the sum has a solution on a finite set. *)
LEMMA AddsExists ==
  ASSUME NEW S, IsFiniteSet(S), NEW f
  PROVE  \E F : Adds(F, f, S)
<1> DEFINE Sum(F, s) == IF s = {} THEN 0 ELSE f[One(s)] + F[s \ {One(s)}]
           Part(F, n) == \A s \in SUBSET S : Cardinality(s) <= n => F[s] = Sum(F, s)
           T == {n \in Nat : ~\E F : Part(F, n)}
<1>1. SUFFICES ASSUME T # {} PROVE FALSE
  <2>1. Cardinality(S) \in Nat
    BY FS_CardinalityType
  <2>2. SUFFICES ASSUME T = {} PROVE \E F : Adds(F, f, S)
    BY Zenon
  <2>3. PICK F : Part(F, Cardinality(S))
    BY <2>1, <2>2
  <2> DEFINE G == [s \in SUBSET S |-> F[s]]
  <2>4. ASSUME NEW s \in SUBSET S PROVE G[s] = Sum(G, s)
    <3>1. F[s] = Sum(F, s)
      BY <2>1, <2>3, FS_Subset
    <3>2. s # {} => s \ {One(s)} \in SUBSET S
      BY OneIsIn
    <3> QED
      BY <3>1, <3>2
  <2>5. G = [s \in SUBSET S |-> Sum(G, s)]
    BY <2>4
  <2> QED
    BY <2>5 DEF Adds
<1>2. PICK n \in T : \A k \in T : n <= k
  <2>1. T \subseteq Nat
    OBVIOUS
  <2> HIDE DEF T
  <2> QED
    BY <1>1, <2>1, LeastNat
<1>3. n # 0
  <2> DEFINE F == [s \in SUBSET S |-> 0]
  <2>1. ASSUME NEW s \in SUBSET S, Cardinality(s) <= 0 PROVE F[s] = Sum(F, s)
    <3>1. s = {}
      <4>1. IsFiniteSet(s)
        BY FS_Subset
      <4> QED
        BY <4>1, <2>1, FS_EmptySet, FS_CardinalityType
    <3> QED
      BY <3>1
  <2>2. Part(F, 0)
    BY <2>1
  <2> HIDE DEF F, Part
  <2> QED
    BY <2>2
<1>4. n - 1 \in Nat /\ n - 1 \notin T
  <2>1. n \in Nat
    BY <1>2
  <2> HIDE DEF T
  <2>2. n - 1 \in Nat /\ ~(n <= n - 1)
    BY <2>1, <1>3
  <2> QED
    BY <2>2, <1>2
<1>5. PICK F : Part(F, n - 1)
  BY <1>4
<1> DEFINE G == [s \in SUBSET S |-> IF Cardinality(s) <= n - 1 THEN F[s] ELSE Sum(F, s)]
<1>6. ASSUME NEW s \in SUBSET S, Cardinality(s) <= n PROVE G[s] = Sum(G, s)
  <2>1. CASE s = {}
    <3>1. Cardinality(s) <= n - 1
      BY <2>1, <1>4, FS_EmptySet
    <3> QED
      BY <2>1, <3>1, <1>5
  <2>2. CASE s # {}
    <3>1. One(s) \in s
      BY <2>2, OneIsIn
    <3>2. /\ s \ {One(s)} \in SUBSET S
          /\ Cardinality(s) \in Nat
          /\ Cardinality(s \ {One(s)}) = Cardinality(s) - 1
      BY <3>1, Smaller
    <3>3. G[s \ {One(s)}] = F[s \ {One(s)}]
      BY <3>2, <1>6, <1>4
    <3>4. F[s] = Sum(F, s) \/ ~(Cardinality(s) <= n - 1)
      BY <1>5
    <3> QED
      BY <3>3, <3>4, <2>2
  <2> QED
    BY <2>1, <2>2
<1>7. Part(G, n)
  BY <1>6
<1> HIDE DEF G, Part
<1> QED
  BY <1>2, <1>7

(* Which element is taken off first does not matter. *)
LEMMA SumTakesOff ==
  ASSUME NEW S, IsFiniteSet(S), NEW f, NEW F, Adds(F, f, S),
         \A o \in S : f[o] \in Nat
  PROVE  \A s \in SUBSET S : /\ F[s] \in Nat
                             /\ \A o \in s : F[s] = f[o] + F[s \ {o}]
<1> DEFINE Good(s) == F[s] \in Nat /\ \A o \in s : F[s] = f[o] + F[s \ {o}]
           T == {n \in Nat : \E s \in SUBSET S : Cardinality(s) = n /\ ~Good(s)}
<1>1. SUFFICES ASSUME T # {} PROVE FALSE
  <2>1. SUFFICES ASSUME T = {} PROVE \A s \in SUBSET S : Good(s)
    BY Zenon
  <2>2. ASSUME NEW s \in SUBSET S PROVE Cardinality(s) \in Nat
    BY FS_Subset, FS_CardinalityType
  <2> HIDE DEF Good
  <2> QED
    BY <2>1, <2>2
<1>2. PICK n \in T : \A k \in T : n <= k
  <2>1. T \subseteq Nat
    OBVIOUS
  <2> HIDE DEF T
  <2> QED
    BY <1>1, <2>1, LeastNat
<1>3. PICK s \in SUBSET S : Cardinality(s) = n /\ ~Good(s)
  BY <1>2
<1>4. ASSUME NEW x \in s PROVE Good(s \ {x}) /\ s \ {x} \in SUBSET S
  <2>1. s \ {x} \in SUBSET S /\ Cardinality(s \ {x}) = n - 1 /\ n - 1 \in Nat
    BY <1>3, Smaller
  <2>2. n - 1 \notin T
    BY <2>1, <1>2
  <2> HIDE DEF Good
  <2> QED
    BY <2>1, <2>2
<1>5. s # {}
  <2>1. F[{}] = 0
    BY DEF Adds
  <2>2. Good({})
    BY <2>1
  <2> HIDE DEF Good
  <2> QED
    BY <2>2, <1>3
<1> DEFINE x == One(s)
<1>6. x \in s /\ F[s] = f[x] + F[s \ {x}]
  BY <1>5, OneIsIn DEF Adds
<1> HIDE DEF x
<1>7. F[s] \in Nat
  BY <1>4, <1>6
<1>8. ASSUME NEW o \in s PROVE F[s] = f[o] + F[s \ {o}]
  <2>1. CASE o = x
    BY <2>1, <1>6
  <2>2. CASE o # x
    <3>1. F[s \ {x}] = f[o] + F[(s \ {x}) \ {o}]
      BY <2>2, <1>4, <1>6
    <3>2. F[s \ {o}] = f[x] + F[(s \ {o}) \ {x}]
      BY <2>2, <1>4, <1>6
    <3>3. (s \ {x}) \ {o} = (s \ {o}) \ {x}
      OBVIOUS
    <3>4. F[(s \ {x}) \ {o}] \in Nat
      <4>1. Good(s \ {x}) /\ Good(s \ {o}) /\ F[s \ {o}] \in Nat /\ F[s \ {x}] \in Nat
        BY <1>4, <1>6
      <4>2. s \ {x} \in SUBSET S /\ o \in s \ {x}
        BY <2>2, <1>4, <1>6
      <4>3. /\ (s \ {x}) \ {o} \in SUBSET S
            /\ Cardinality((s \ {x}) \ {o}) = n - 2 /\ n - 2 \in Nat
        <5>1. Cardinality(s \ {x}) = n - 1
          BY <1>3, <1>6, Smaller
        <5>2. /\ (s \ {x}) \ {o} \in SUBSET S
              /\ Cardinality((s \ {x}) \ {o}) = Cardinality(s \ {x}) - 1
              /\ Cardinality((s \ {x}) \ {o}) \in Nat
          <6> HIDE DEF Good
          <6> DEFINE v == s \ {x}
          <6>1. v \in SUBSET S /\ o \in v
            BY <4>2
          <6> HIDE DEF v
          <6>2. /\ v \ {o} \in SUBSET S
                /\ Cardinality(v \ {o}) = Cardinality(v) - 1
                /\ Cardinality(v \ {o}) \in Nat
            BY <6>1, Smaller
          <6> QED
            BY <6>2 DEF v
        <5>3. n \in Nat
          BY <1>2
        <5> QED
          BY <5>1, <5>2, <5>3
      <4>4. n - 2 \notin T
        BY <4>3, <1>2
      <4>5. Good((s \ {x}) \ {o})
        <5> HIDE DEF Good
        <5> QED
          BY <4>3, <4>4
      <4> QED
        BY <4>5
    <3>5. f[x] \in Nat /\ f[o] \in Nat
      BY <1>6
    <3> HIDE DEF Good
    <3> DEFINE A == F[(s \ {x}) \ {o}]
    <3>6. F[s \ {x}] = f[o] + A /\ F[s \ {o}] = f[x] + A
      BY <3>1, <3>2, <3>3
    <3>7. A \in Nat /\ F[s] = f[x] + F[s \ {x}]
      BY <3>4, <1>6
    <3> HIDE DEF A
    <3> QED
      BY <3>5, <3>6, <3>7
  <2> QED
    BY <2>1, <2>2
<1> QED
  BY <1>3, <1>7, <1>8

(* Only the terms of what is in the set count. *)
LEMMA SumsAgree ==
  ASSUME NEW S, IsFiniteSet(S), NEW R, NEW f, NEW g, NEW F, NEW G,
         Adds(F, f, S), Adds(G, g, R),
         NEW U \in SUBSET S, U \in SUBSET R, \A o \in U : f[o] = g[o]
  PROVE  F[U] = G[U]
<1> DEFINE T == {n \in Nat : \E s \in SUBSET U : Cardinality(s) = n /\ F[s] # G[s]}
<1>1. SUFFICES ASSUME T # {} PROVE FALSE
  <2>1. SUFFICES ASSUME T = {} PROVE F[U] = G[U]
    BY Zenon
  <2>2. Cardinality(U) \in Nat /\ U \in SUBSET U
    BY FS_Subset, FS_CardinalityType
  <2> QED
    BY <2>1, <2>2
<1>2. PICK n \in T : \A k \in T : n <= k
  <2>1. T \subseteq Nat
    OBVIOUS
  <2> HIDE DEF T
  <2> QED
    BY <1>1, <2>1, LeastNat
<1>3. PICK s \in SUBSET U : Cardinality(s) = n /\ F[s] # G[s]
  BY <1>2
<1>4. s # {}
  <2>1. F[{}] = 0 /\ G[{}] = 0
    BY DEF Adds
  <2> QED
    BY <2>1, <1>3
<1> DEFINE x == One(s)
<1>5. x \in s /\ F[s] = f[x] + F[s \ {x}] /\ G[s] = g[x] + G[s \ {x}]
  <2>1. s \in SUBSET S /\ s \in SUBSET R
    OBVIOUS
  <2> QED
    BY <1>4, <2>1, OneIsIn DEF Adds
<1> HIDE DEF x
<1>6. s \ {x} \in SUBSET U /\ Cardinality(s \ {x}) = n - 1 /\ n - 1 \in Nat
  <2>1. IsFiniteSet(U)
    BY FS_Subset
  <2>2. /\ s \ {x} \in SUBSET U
        /\ Cardinality(s \ {x}) = Cardinality(s) - 1
        /\ Cardinality(s \ {x}) \in Nat
    BY <1>5, <2>1, Smaller
  <2> QED
    BY <2>2, <1>3
<1>7. F[s \ {x}] = G[s \ {x}]
  BY <1>2, <1>6
<1> QED
  BY <1>3, <1>5, <1>7

(* Changing one term changes the sum by as much. *)
LEMMA SumChanges ==
  ASSUME NEW S, IsFiniteSet(S), NEW f, NEW g, NEW F, NEW G, Adds(F, f, S), Adds(G, g, S),
         \A o \in S : f[o] \in Nat /\ g[o] \in Nat,
         NEW x \in S, \A o \in S \ {x} : f[o] = g[o]
  PROVE  F[S] \in Nat /\ G[S] \in Nat /\ F[S] + g[x] = G[S] + f[x]
<1>1. F[S] \in Nat /\ F[S] = f[x] + F[S \ {x}] /\ F[S \ {x}] \in Nat
  BY SumTakesOff
<1>2. G[S] \in Nat /\ G[S] = g[x] + G[S \ {x}]
  BY SumTakesOff
<1>3. F[S \ {x}] = G[S \ {x}]
  BY SumsAgree
<1>4. f[x] \in Nat /\ g[x] \in Nat
  OBVIOUS
<1> DEFINE A == F[S \ {x}]
<1>5. F[S] = f[x] + A /\ G[S] = g[x] + A /\ A \in Nat
  BY <1>1, <1>2, <1>3
<1> HIDE DEF A
<1> QED
  BY <1>1, <1>2, <1>4, <1>5

(* One term taken off, by two recursions that agree on what is left. *)
LEMMA SumWithout ==
  ASSUME NEW S, IsFiniteSet(S), NEW f, NEW g, NEW F, NEW G, NEW x \in S, NEW R, R = S \ {x},
         Adds(F, f, S), Adds(G, g, R), \A o \in S : f[o] \in Nat, \A o \in R : f[o] = g[o]
  PROVE  F[S] \in Nat /\ F[S] = f[x] + G[R]
<1>1. F[S] \in Nat /\ F[S] = f[x] + F[R]
  BY SumTakesOff
<1>2. R \in SUBSET S /\ R \in SUBSET R
  OBVIOUS
<1>3. F[R] = G[R]
  BY <1>2, SumsAgree
<1> QED
  BY <1>1, <1>3

(* Zeros add up to zero. *)
LEMMA SumOfZeros ==
  ASSUME NEW S, IsFiniteSet(S), NEW f, \A o \in S : f[o] = 0, NEW F, Adds(F, f, S)
  PROVE  F[S] = 0
<1> DEFINE G == [s \in SUBSET S |-> 0]
<1>1. ASSUME NEW s \in SUBSET S
      PROVE  G[s] = IF s = {} THEN 0 ELSE f[One(s)] + G[s \ {One(s)}]
  <2>1. CASE s = {}
    BY <2>1
  <2>2. CASE s # {}
    <3>1. One(s) \in S /\ s \ {One(s)} \in SUBSET S
      BY <2>2, OneIsIn
    <3> QED
      BY <2>2, <3>1
  <2> QED
    BY <2>1, <2>2
<1>2. G = [s \in SUBSET S |-> IF s = {} THEN 0 ELSE f[One(s)] + G[s \ {One(s)}]]
  BY <1>1
<1>3. G[S] = 0
  OBVIOUS
<1> HIDE DEF G
<1>4. Adds(G, f, S)
  BY <1>2 DEF Adds
<1>5. F[S] = G[S]
  BY <1>4, SumsAgree
<1> QED
  BY <1>3, <1>5
-----------------------------------------------------------------------------
(* The sum of the fields "size" of what d tells of a set. *)
SizeOf(d, S) == MapThenSumSet(LAMBDA o : d[o].size, S)
SizesOf(d, S) == [o \in S |-> d[o].size]

(* The sum follows the recursion of Adds. *)
LEMMA SizeUnfolds ==
  ASSUME NEW d, NEW S, NEW F, Adds(F, SizesOf(d, S), S)
  PROVE  \E G : Adds(G, SizesOf(d, S), S) /\ SizeOf(d, S) = G[S]
<1> DEFINE Rec(G) == G = [s \in SUBSET S |-> IF s = {} THEN 0
                                             ELSE d[One(s)].size + G[s \ {One(s)}]]
<1>1. ASSUME NEW G PROVE Adds(G, SizesOf(d, S), S) <=> Rec(G)
  <2>1. ASSUME NEW s \in SUBSET S, s # {} PROVE SizesOf(d, S)[One(s)] = d[One(s)].size
    BY <2>1, OneIsIn DEF SizesOf
  <2>2. [s \in SUBSET S |-> IF s = {} THEN 0 ELSE SizesOf(d, S)[One(s)] + G[s \ {One(s)}]]
          = [s \in SUBSET S |-> IF s = {} THEN 0 ELSE d[One(s)].size + G[s \ {One(s)}]]
    BY <2>1
  <2> QED
    BY <2>2 DEF Adds
<1>2. Rec(F)
  BY <1>1
<1>3. \E G : Rec(G) /\ SizeOf(d, S) = G[S]
  BY <1>2 DEF SizeOf, MapThenSumSet, MapThenFoldSet, One
<1> HIDE DEF Rec
<1> QED
  BY <1>1, <1>3

(* So the size of a finite set is what the recursion gives. *)
LEMMA SizeAdds ==
  ASSUME NEW d, NEW S, IsFiniteSet(S)
  PROVE  \E G : Adds(G, SizesOf(d, S), S) /\ SizeOf(d, S) = G[S]
BY AddsExists, SizeUnfolds

(* Nothing has size 0. *)
LEMMA SizeOfNone == ASSUME NEW d PROVE SizeOf(d, {}) = 0
<1>1. PICK G : Adds(G, SizesOf(d, {}), {}) /\ SizeOf(d, {}) = G[{}]
  BY SizeAdds, FS_EmptySet
<1> QED
  BY <1>1 DEF Adds

(* Sizes add up to a natural number. *)
LEMMA SizeIsNat ==
  ASSUME NEW d, NEW S, IsFiniteSet(S), \A o \in S : d[o].size \in Nat
  PROVE  SizeOf(d, S) \in Nat
<1>1. PICK G : Adds(G, SizesOf(d, S), S) /\ SizeOf(d, S) = G[S]
  BY SizeAdds
<1>2. \A o \in S : SizesOf(d, S)[o] \in Nat
  BY DEF SizesOf
<1> QED
  BY <1>1, <1>2, SumTakesOff

(* Taking one object off takes its size off. *)
LEMMA SizeWithout ==
  ASSUME NEW d, NEW S, IsFiniteSet(S), \A o \in S : d[o].size \in Nat, NEW o \in S
  PROVE  SizeOf(d, S) = d[o].size + SizeOf(d, S \ {o})
<1>1. PICK G : Adds(G, SizesOf(d, S), S) /\ SizeOf(d, S) = G[S]
  BY SizeAdds
<1>2. IsFiniteSet(S \ {o})
  BY FS_RemoveElement
<1>3. PICK H : Adds(H, SizesOf(d, S \ {o}), S \ {o}) /\ SizeOf(d, S \ {o}) = H[S \ {o}]
  BY <1>2, SizeAdds
<1>4. /\ \A x \in S : SizesOf(d, S)[x] \in Nat
      /\ \A x \in S \ {o} : SizesOf(d, S)[x] = SizesOf(d, S \ {o})[x]
      /\ SizesOf(d, S)[o] = d[o].size
  BY DEF SizesOf
<1> QED
  <2> DEFINE f == SizesOf(d, S)
             g == SizesOf(d, S \ {o})
             R == S \ {o}
  <2>1. Adds(G, f, S) /\ Adds(H, g, R) /\ f[o] = d[o].size
    BY <1>1, <1>3, <1>4
  <2>2. (\A x \in S : f[x] \in Nat) /\ (\A x \in R : f[x] = g[x]) /\ R = S \ {o}
    BY <1>4
  <2> HIDE DEF f, g, R
  <2>3. G[S] = f[o] + H[R]
    BY <2>1, <2>2, SumWithout
  <2> QED
    BY <2>1, <2>3, <1>1, <1>3 DEF R

(* A change of other objects keeps the sum. *)
LEMMA SizeKept ==
  ASSUME NEW d, NEW e, NEW S, IsFiniteSet(S), \A o \in S : d[o].size = e[o].size
  PROVE  SizeOf(d, S) = SizeOf(e, S)
<1>1. PICK G : Adds(G, SizesOf(d, S), S) /\ SizeOf(d, S) = G[S]
  BY SizeAdds
<1>2. PICK H : Adds(H, SizesOf(e, S), S) /\ SizeOf(e, S) = H[S]
  BY SizeAdds
<1>3. \A o \in S : SizesOf(d, S)[o] = SizesOf(e, S)[o]
  BY DEF SizesOf
<1> QED
  BY <1>1, <1>2, <1>3, SumsAgree

(* Nor has what has no size. *)
LEMMA SizeOfZeros ==
  ASSUME NEW d, NEW S, IsFiniteSet(S), \A o \in S : d[o].size = 0
  PROVE  SizeOf(d, S) = 0
<1>1. PICK G : Adds(G, SizesOf(d, S), S) /\ SizeOf(d, S) = G[S]
  BY SizeAdds
<1>2. \A o \in S : SizesOf(d, S)[o] = 0
  BY DEF SizesOf
<1> QED
  BY <1>1, <1>2, SumOfZeros
=============================================================================
