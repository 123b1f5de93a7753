---------------------------- MODULE Btest_proofs ----------------------------
(***************************************************************************)
(* Proofs about the bit puzzles and their harness, for every width of the  *)
(* code's words: each puzzle agrees with its test function on all words,   *)
(* and the harness scores what was tested, and tests the boundaries.       *)
(***************************************************************************)
EXTENDS Btest, NatLemmas, SequenceTheorems
-----------------------------------------------------------------------------
(* 1. Powers of two.  The provers know nothing of ^, but the library knows *)
(* how many subsets a set has.                                             *)

(* A power of two is a positive number, and twice the one before. *)
LEMMA PowerStep ==
  ASSUME NEW n \in Nat
  PROVE  2 ^ n \in Nat /\ 2 ^ (n + 1) = 2 * 2 ^ n
<1> DEFINE S == 1 .. n
           T == 1 .. n + 1
           Old == SUBSET S
           New == {s \cup {n + 1} : s \in Old}
<1>1. IsFiniteSet(S) /\ Cardinality(S) = n /\ IsFiniteSet(T) /\ Cardinality(T) = n + 1
  BY FS_Interval
<1>2. IsFiniteSet(Old) /\ Cardinality(Old) = 2 ^ n /\ Cardinality(SUBSET T) = 2 ^ (n + 1)
  BY <1>1, FS_SUBSET
<1>3. Cardinality(Old) \in Nat
  BY <1>2, FS_CardinalityType
<1>4. IsFiniteSet(New) /\ Cardinality(New) = Cardinality(Old)
  <2> DEFINE f == [s \in Old |-> s \cup {n + 1}]
  <2>1. \A s \in Old : n + 1 \notin s
    OBVIOUS
  <2>2. f \in Bijection(Old, New)
    <3>1. f \in [Old -> New]
      OBVIOUS
    <3>2. ASSUME NEW s \in Old, NEW t \in Old, f[s] = f[t] PROVE s = t
      BY <3>2, <2>1
    <3>3. \A u \in New : \E s \in Old : f[s] = u
      OBVIOUS
    <3> QED
      BY <3>1, <3>2, <3>3 DEF Bijection, Injection, Surjection, IsInjective
  <2>3. ExistsBijection(Old, New)
    BY <2>2 DEF ExistsBijection
  <2> HIDE DEF Old, New
  <2> QED
    BY <1>2, <2>3, FS_Bijection
<1>5. SUBSET T = Old \cup New /\ Old \cap New = {}
  <2>1. ASSUME NEW t \in SUBSET T, n + 1 \in t PROVE t \in New
    <3>1. t \ {n + 1} \in Old /\ t = (t \ {n + 1}) \cup {n + 1}
      BY <2>1
    <3> QED
      BY <3>1
  <2>2. \A t \in SUBSET T : n + 1 \notin t => t \in Old
    OBVIOUS
  <2>3. \A s \in Old : s \in SUBSET T /\ s \cup {n + 1} \in SUBSET T /\ n + 1 \notin s
    OBVIOUS
  <2>4. \A u \in New : u \in SUBSET T /\ u \notin Old
    BY <2>3
  <2>5. SUBSET T \subseteq Old \cup New
    <3> HIDE DEF Old, New
    <3> QED
      BY <2>1, <2>2
  <2>6. Old \subseteq SUBSET T
    OBVIOUS
  <2> HIDE DEF Old, New
  <2> QED
    BY <2>4, <2>5, <2>6
<1>6. IsFiniteSet(Old \cap New) /\ Cardinality(Old \cap New) = 0
  BY <1>5, FS_EmptySet
<1>7. Cardinality(Old \cup New) = Cardinality(Old) + Cardinality(New) - Cardinality(Old \cap New)
  BY <1>2, <1>4, FS_Union
<1> HIDE DEF Old, New
<1> DEFINE c == Cardinality(Old)
<1>8. c \in Nat /\ c = 2 ^ n /\ Cardinality(SUBSET T) = c + c - 0
  BY <1>2, <1>3, <1>4, <1>5, <1>6, <1>7
<1> HIDE DEF c, T
<1>9. 2 ^ (n + 1) = c + c
  BY <1>2, <1>8
<1> QED
  BY <1>8, <1>9

(* It is never 0. *)
LEMMA PowerPositive == ASSUME NEW n \in Nat PROVE 2 ^ n \in Nat \ {0}
<1> DEFINE S == {j \in Nat : 2 ^ j \in Nat \ {0}}
<1>1. 0 \in S
  OBVIOUS
<1>2. ASSUME NEW j \in 0 .. n - 1, j \in S PROVE j + 1 \in S
  <2>1. 2 ^ (j + 1) = 2 * 2 ^ j /\ 2 ^ j \in Nat \ {0}
    BY <1>2, PowerStep
  <2> QED
    BY <2>1
<1> HIDE DEF S
<1>3. n \in S
  BY <1>1, <1>2, UpTo
<1> QED
  BY <1>3 DEF S

(* Exponents add up. *)
LEMMA PowerSum == ASSUME NEW m \in Nat, NEW n \in Nat PROVE 2 ^ (m + n) = 2 ^ m * 2 ^ n
<1> DEFINE S == {j \in Nat : 2 ^ (m + j) = 2 ^ m * 2 ^ j}
<1>1. 0 \in S
  BY PowerPositive
<1>2. ASSUME NEW j \in 0 .. n - 1, j \in S PROVE j + 1 \in S
  <2>1. 2 ^ (j + 1) = 2 * 2 ^ j /\ 2 ^ j \in Nat /\ 2 ^ m \in Nat
    BY PowerStep
  <2>2. m + j \in Nat /\ m + (j + 1) = (m + j) + 1
    OBVIOUS
  <2>3. 2 ^ (m + (j + 1)) = 2 * 2 ^ (m + j) /\ 2 ^ (m + j) = 2 ^ m * 2 ^ j
    BY <2>2, <1>2, PowerStep
  <2> DEFINE a == 2 ^ m
             b == 2 ^ j
  <2>4. a \in Nat /\ b \in Nat /\ 2 * (a * b) = a * (2 * b)
    BY <2>1
  <2> QED
    BY <2>1, <2>3, <2>4
<1> HIDE DEF S
<1>3. n \in S
  BY <1>1, <1>2, UpTo
<1> QED
  BY <1>3 DEF S

(* Powers grow with the exponent. *)
LEMMA PowersGrow ==
  ASSUME NEW m \in Nat, NEW n \in Nat
  PROVE  (m <= n => 2 ^ m <= 2 ^ n) /\ (m < n => 2 * 2 ^ m <= 2 ^ n)
<1>1. ASSUME NEW l \in Nat, l <= n PROVE 2 ^ l <= 2 ^ n
  <2>1. n - l \in Nat /\ l + (n - l) = n
    BY <1>1
  <2>2. 2 ^ n = 2 ^ l * 2 ^ (n - l) /\ 2 ^ l \in Nat /\ 2 ^ (n - l) \in Nat \ {0}
    BY <2>1, PowerSum, PowerPositive
  <2> DEFINE a == 2 ^ l
             b == 2 ^ (n - l)
  <2>3. a \in Nat /\ b \in Nat /\ b >= 1 /\ 2 ^ n = a * b
    BY <2>2
  <2> HIDE DEF a, b
  <2>4. a <= a * b
    BY <2>3
  <2> QED
    BY <2>3, <2>4 DEF a
<1>2. 2 ^ (m + 1) = 2 * 2 ^ m
  BY PowerStep
<1> QED
  BY <1>1, <1>2

(* What determines a quotient and a remainder. *)
LEMMA DivIs ==
  ASSUME NEW a \in Int, NEW b \in Nat \ {0}, NEW q \in Int, NEW r \in 0 .. b - 1, a = b * q + r
  PROVE  a \div b = q /\ a % b = r
OBVIOUS

(* Every number has a quotient and a remainder. *)
LEMMA DivOf ==
  ASSUME NEW a \in Int, NEW b \in Nat \ {0}
  PROVE  a \div b \in Int /\ a % b \in 0 .. b - 1 /\ a = b * (a \div b) + (a % b)
OBVIOUS

(* The quotient of a natural number is one, and smaller than what bounds   *)
(* the number.                                                             *)
LEMMA DivBounds ==
  ASSUME NEW a \in Nat, NEW b \in Nat \ {0}, NEW c \in Nat
  PROVE  a \div b \in Nat /\ (a < b * c => a \div b < c) /\ (a >= b * c => a \div b >= c)
<1>1. a \div b \in Int /\ a % b \in 0 .. b - 1 /\ a = b * (a \div b) + (a % b)
  BY DivOf
<1> DEFINE q == a \div b
           r == a % b
<1>2. q \in Int /\ r \in 0 .. b - 1 /\ a = b * q + r
  BY <1>1
<1> HIDE DEF q, r
<1>3. q >= 0
  <2> SUFFICES ASSUME q <= -1 PROVE FALSE
    BY <1>2
  <2>1. b * q <= -b
    BY <1>2
  <2> QED
    BY <2>1, <1>2
<1>4. ASSUME a < b * c, q >= c PROVE FALSE
  <2>1. b * q >= b * c
    BY <1>2, <1>4
  <2> QED
    BY <2>1, <1>2, <1>4
<1>5. ASSUME a >= b * c, q <= c - 1 PROVE FALSE
  <2>1. b * q <= b * (c - 1) /\ b * (c - 1) = b * c - b
    BY <1>2, <1>5
  <2> QED
    BY <2>1, <1>2, <1>5
<1> QED
  BY <1>2, <1>3, <1>4, <1>5 DEF q

(* Dividing twice. *)
LEMMA DivDiv ==
  ASSUME NEW a \in Int, NEW b \in Nat \ {0}, NEW c \in Nat \ {0}
  PROVE  (a \div b) \div c = a \div (b * c)
<1> DEFINE q == a \div b
           r == a % b
           s == q \div c
           t == q % c
<1>1. q \in Int /\ r \in 0 .. b - 1 /\ a = b * q + r
  BY DivOf
<1> HIDE DEF q, r
<1>2. s \in Int /\ t \in 0 .. c - 1 /\ q = c * s + t
  BY <1>1, DivOf
<1> HIDE DEF s, t
<1>3. a = (b * c) * s + (b * t + r)
  <2>1. b * (c * s + t) = (b * c) * s + b * t
    BY <1>2
  <2> QED
    BY <2>1, <1>1, <1>2
<1>4. b * t + r \in 0 .. b * c - 1 /\ b * c \in Nat \ {0}
  <2>1. b * t <= b * (c - 1) /\ b * (c - 1) = b * c - b /\ b * t >= 0
    BY <1>2
  <2>2. b * c \in Nat /\ b * c >= b
    OBVIOUS
  <2> QED
    BY <2>1, <2>2, <1>1, <1>2
<1>5. a \div (b * c) = s
  BY <1>2, <1>3, <1>4, DivIs
<1> QED
  BY <1>5 DEF s, q

(* A multiple of the divisor adds to the quotient. *)
LEMMA DivAdds ==
  ASSUME NEW a \in Int, NEW b \in Nat \ {0}, NEW c \in Int
  PROVE  (a + b * c) \div b = a \div b + c /\ (a + b * c) % b = a % b
<1> DEFINE q == a \div b
           r == a % b
<1>1. q \in Int /\ r \in 0 .. b - 1 /\ a = b * q + r
  BY DivOf
<1> HIDE DEF q, r
<1>2. a + b * c = b * (q + c) + r
  <2>1. b * (q + c) = b * q + b * c
    BY <1>1
  <2> QED
    BY <2>1, <1>1
<1>3. (a + b * c) \div b = q + c /\ (a + b * c) % b = r
  BY <1>1, <1>2, DivIs
<1> QED
  BY <1>3 DEF q, r
-----------------------------------------------------------------------------
(* 2. A number and its bits.                                               *)
Bit(x, pos) == (x \div 2 ^ pos) % 2

(* Each quotient is twice the next one and a bit. *)
LEMMA Halving ==
  ASSUME NEW x \in Nat, NEW pos \in Nat
  PROVE  /\ x \div 2 ^ pos \in Nat /\ Bit(x, pos) \in {0, 1}
         /\ x \div 2 ^ pos = 2 * (x \div 2 ^ (pos + 1)) + Bit(x, pos)
<1> DEFINE b == 2 ^ pos
           q == x \div b
<1>1. b \in Nat \ {0} /\ 2 ^ (pos + 1) = b * 2
  BY PowerPositive, PowerStep
<1> HIDE DEF b
<1>2. q \in Nat /\ q \div 2 = x \div (b * 2)
  <2>1. 2 \in Nat \ {0} /\ x \in Int /\ 0 \in Nat
    OBVIOUS
  <2>2. q \in Nat
    BY <1>1, <2>1, DivBounds
  <2>3. (x \div b) \div 2 = x \div (b * 2)
    BY <1>1, <2>1, DivDiv
  <2> QED
    BY <2>2, <2>3
<1> HIDE DEF q
<1>3. q % 2 \in {0, 1} /\ q = 2 * (q \div 2) + (q % 2)
  BY <1>2
<1> QED
  BY <1>1, <1>2, <1>3 DEF Bit, q, b

(* Numbers below 2^n with the same n bits are the same. *)
LEMMA SameBits ==
  ASSUME NEW n \in Nat, NEW x \in 0 .. 2 ^ n - 1, NEW y \in 0 .. 2 ^ n - 1,
         \A pos \in 0 .. n - 1 : Bit(x, pos) = Bit(y, pos)
  PROVE  x = y
<1> DEFINE S == {j \in 0 .. n : x \div 2 ^ (n - j) = y \div 2 ^ (n - j)}
<1>0. 2 ^ n \in Nat \ {0} /\ x \in Nat /\ y \in Nat
  BY PowerPositive
<1>1. 0 \in S
  <2>1. ASSUME NEW z \in 0 .. 2 ^ n - 1 PROVE z \div 2 ^ n = 0
    BY <1>0, DivIs
  <2>2. n - 0 = n
    OBVIOUS
  <2> QED
    BY <2>1, <2>2
<1>2. ASSUME NEW j \in 0 .. n - 1, j \in S PROVE j + 1 \in S
  <2> DEFINE pos == n - (j + 1)
  <2>1. pos \in Nat /\ pos + 1 = n - j /\ j + 1 \in 0 .. n /\ pos \in 0 .. n - 1
    OBVIOUS
  <2>2. /\ x \div 2 ^ pos = 2 * (x \div 2 ^ (pos + 1)) + Bit(x, pos)
        /\ y \div 2 ^ pos = 2 * (y \div 2 ^ (pos + 1)) + Bit(y, pos)
    <3> HIDE DEF pos
    <3> QED
      BY <1>0, <2>1, Halving
  <2>3. x \div 2 ^ pos = y \div 2 ^ pos
    BY <1>2, <2>1, <2>2
  <2> QED
    BY <2>1, <2>3
<1> HIDE DEF S
<1>3. n \in S
  BY <1>1, <1>2, UpTo
<1>4. x \div 2 ^ (n - n) = x /\ y \div 2 ^ (n - n) = y
  <2>1. n - n = 0 /\ 2 ^ 0 = 1
    OBVIOUS
  <2> QED
    BY <2>1, <1>0
<1> QED
  BY <1>3, <1>4 DEF S

(* The sum of Number follows the recursion of Adds. *)
Powers(S) == [pos \in S |-> 2 ^ pos]

(* The number of a set of bits is the sum of their powers. *)
LEMMA NumberAdds ==
  ASSUME NEW S, IsFiniteSet(S)
  PROVE  \E G : Adds(G, Powers(S), S) /\ Number(S) = G[S]
<1>1. PICK F : Adds(F, Powers(S), S)
  BY AddsExists
<1> DEFINE Rec(G) == G = [s \in SUBSET S |-> IF s = {} THEN 0
                                             ELSE 2 ^ One(s) + G[s \ {One(s)}]]
<1>2. ASSUME NEW G PROVE Adds(G, Powers(S), S) <=> Rec(G)
  <2>1. ASSUME NEW s \in SUBSET S, s # {} PROVE Powers(S)[One(s)] = 2 ^ One(s)
    BY <2>1, OneIsIn DEF Powers
  <2>2. [s \in SUBSET S |-> IF s = {} THEN 0 ELSE Powers(S)[One(s)] + G[s \ {One(s)}]]
          = [s \in SUBSET S |-> IF s = {} THEN 0 ELSE 2 ^ One(s) + G[s \ {One(s)}]]
    BY <2>1
  <2> QED
    BY <2>2 DEF Adds
<1>3. Rec(F)
  BY <1>1, <1>2
<1>4. \E G : Rec(G) /\ Number(S) = G[S]
  BY <1>3 DEF Number, MapThenSumSet, MapThenFoldSet, One
<1> HIDE DEF Rec
<1> QED
  BY <1>2, <1>4

(* An element can be taken off. *)
LEMMA NumberOff ==
  ASSUME NEW S, IsFiniteSet(S), \A o \in S : 2 ^ o \in Nat, NEW x \in S
  PROVE  Number(S) \in Nat /\ Number(S) = 2 ^ x + Number(S \ {x})
<1> DEFINE f == Powers(S)
           g == Powers(S \ {x})
           R == S \ {x}
<1>1. PICK G : Adds(G, f, S) /\ Number(S) = G[S]
  BY NumberAdds
<1>2. IsFiniteSet(R)
  BY FS_RemoveElement
<1>3. PICK H : Adds(H, g, R) /\ Number(R) = H[R]
  BY <1>2, NumberAdds
<1>4. /\ (\A o \in S : f[o] \in Nat) /\ (\A o \in R : f[o] = g[o]) /\ R = S \ {x}
      /\ f[x] = 2 ^ x
  BY DEF Powers
<1> HIDE DEF f, g, R
<1>5. G[S] \in Nat /\ G[S] = f[x] + H[R]
  BY <1>1, <1>3, <1>4, SumWithout
<1> QED
  BY <1>1, <1>3, <1>4, <1>5

(* The number is the sum of its powers. *)
LEMMA NumberWithout ==
  ASSUME NEW S, S \subseteq Nat, IsFiniteSet(S)
  PROVE  /\ Number(S) \in Nat
         /\ Number({}) = 0
         /\ \A pos \in S : Number(S) = 2 ^ pos + Number(S \ {pos})
<1>1. Number({}) = 0
  <2>1. PICK E : Adds(E, Powers({}), {}) /\ Number({}) = E[{}]
    BY NumberAdds, FS_EmptySet
  <2> QED
    BY <2>1 DEF Adds
<1>2. \A o \in S : 2 ^ o \in Nat
  BY PowerPositive
<1>3. \A x \in S : Number(S) \in Nat /\ Number(S) = 2 ^ x + Number(S \ {x})
  BY <1>2, NumberOff
<1>4. Number(S) \in Nat
  <2>1. CASE S = {}
    BY <2>1, <1>1
  <2>2. CASE S # {}
    BY <2>2, <1>3
  <2> QED
    BY <2>1, <2>2
<1> QED
  BY <1>1, <1>3, <1>4

(* A power above a bit leaves the bit alone. *)
LEMMA HighPower ==
  ASSUME NEW v \in Int, NEW m \in Nat, NEW pos \in 0 .. m - 1
  PROVE  Bit(v + 2 ^ m, pos) = Bit(v, pos)
<1> DEFINE b == 2 ^ pos
           c == 2 ^ (m - pos - 1)
<1>1. b \in Nat \ {0} /\ c \in Nat /\ 2 ^ m = b * (2 * c)
  <2>1. m - pos \in Nat /\ pos + (m - pos) = m /\ m - pos - 1 \in Nat /\ (m - pos - 1) + 1 = m - pos
    OBVIOUS
  <2>2. 2 ^ m = 2 ^ pos * 2 ^ (m - pos) /\ 2 ^ (m - pos) = 2 * 2 ^ (m - pos - 1)
    <3> DEFINE d == m - pos - 1
    <3>1. pos \in Nat /\ d \in Nat /\ d + 1 = m - pos
      OBVIOUS
    <3>2. 2 ^ m = 2 ^ pos * 2 ^ (m - pos)
      BY <3>1, <2>1, PowerSum
    <3>3. 2 ^ (d + 1) = 2 * 2 ^ d
      BY <3>1, PowerStep
    <3> QED
      BY <3>1, <3>2, <3>3
  <2> QED
    BY <2>1, <2>2, PowerPositive
<1> HIDE DEF b, c
<1>2. (v + b * (2 * c)) \div b = v \div b + 2 * c
  <2>1. 2 * c \in Int
    BY <1>1
  <2> QED
    BY <2>1, <1>1, DivAdds
<1>3. v \div b \in Int
  BY <1>1, DivOf
<1>4. (v \div b + 2 * c) % 2 = (v \div b) % 2
  BY <1>1, <1>3, DivAdds
<1> QED
  BY <1>1, <1>2, <1>4 DEF Bit, b

(* The number of a set of bits has these bits. *)
LEMMA NumberBits ==
  ASSUME NEW n \in Nat, NEW S \in SUBSET (0 .. n - 1)
  PROVE  /\ Number(S) \in 0 .. 2 ^ n - 1
         /\ \A pos \in 0 .. n - 1 : Bit(Number(S), pos) = 1 <=> pos \in S
<1> DEFINE Good(m, s) == /\ Number(s) \in 0 .. 2 ^ m - 1
                         /\ \A pos \in 0 .. m - 1 : Bit(Number(s), pos) = 1 <=> pos \in s
           T == {m \in Nat : \A s \in SUBSET (0 .. m - 1) : Good(m, s)}
<1>1. 0 \in T
  <2>1. \A s \in SUBSET (0 .. 0 - 1) : s = {}
    OBVIOUS
  <2>2. Number({}) = 0 /\ 2 ^ 0 = 1
    BY NumberWithout, FS_EmptySet
  <2>3. Good(0, {})
    BY <2>2
  <2> HIDE DEF Good
  <2> QED
    BY <2>1, <2>3
<1>2. ASSUME NEW m \in 0 .. n - 1, m \in T PROVE m + 1 \in T
  <2> DEFINE p == 2 ^ m
  <2>0. p \in Nat \ {0} /\ 2 ^ (m + 1) = 2 * p /\ m \in Nat
    BY PowerPositive, PowerStep
  <2>1. SUFFICES ASSUME NEW s \in SUBSET (0 .. m + 1 - 1) PROVE Good(m + 1, s)
    OBVIOUS
  <2> DEFINE r == s \ {m}
             v == Number(r)
  <2>2. Good(m, r)
    <3>1. r \in SUBSET (0 .. m - 1)
      OBVIOUS
    <3> HIDE DEF Good, r
    <3> QED
      BY <3>1, <1>2
  <2>3. s \subseteq Nat /\ IsFiniteSet(s)
    <3>1. IsFiniteSet(0 .. m)
      BY <2>0, FS_Interval
    <3>2. s \in SUBSET (0 .. m) /\ s \subseteq Nat
      BY <2>0
    <3> QED
      BY <3>1, <3>2, FS_Subset
  <2>4. v \in 0 .. p - 1 /\ \A pos \in 0 .. m - 1 : Bit(v, pos) = 1 <=> pos \in s
    <3>1. v \in 0 .. p - 1 /\ \A pos \in 0 .. m - 1 : Bit(v, pos) = 1 <=> pos \in r
      BY <2>2
    <3> HIDE DEF v
    <3> QED
      BY <3>1
  <2>5. CASE m \in s
    <3>1. Number(s) = v + p
      <4>1. Number(s) = p + v
        BY <2>3, <2>5, NumberWithout
      <4> HIDE DEF p, v
      <4> QED
        BY <4>1, <2>0, <2>4
    <3>2. Number(s) \in 0 .. 2 ^ (m + 1) - 1
      <4> HIDE DEF p, v
      <4> QED
        BY <3>1, <2>0, <2>4
    <3>3. \A pos \in 0 .. m - 1 : Bit(Number(s), pos) = Bit(v, pos)
      <4>1. v \in Int
        <5> HIDE DEF v, p
        <5> QED
          BY <2>4
      <4> HIDE DEF v
      <4> QED
        BY <3>1, <4>1, <2>0, HighPower
    <3>4. Bit(Number(s), m) = 1
      <4> HIDE DEF p, v
      <4>1. v + p = p * 1 + v
        BY <2>0, <2>4
      <4>2. (v + p) \div p = 1
        BY <4>1, <2>0, <2>4, DivIs
      <4> QED
        BY <4>2, <3>1 DEF Bit, p
    <3> HIDE DEF v, p, r
    <3> QED
      BY <3>2, <3>3, <3>4, <2>4, <2>5, <2>0
  <2>6. CASE m \notin s
    <3>1. r = s
      BY <2>6
    <3>2. Number(s) = v
      BY <3>1
    <3>3. Bit(v, m) = 0
      <4> HIDE DEF p, v
      <4>1. v = p * 0 + v
        BY <2>0, <2>4
      <4>2. v \div p = 0
        BY <4>1, <2>0, <2>4, DivIs
      <4> QED
        BY <4>2 DEF Bit, p
    <3>4. v \in 0 .. 2 ^ (m + 1) - 1
      <4> HIDE DEF p, v
      <4> QED
        BY <2>0, <2>4
    <3> HIDE DEF v, p, r
    <3> QED
      BY <3>2, <3>3, <3>4, <2>4, <2>6, <2>0
  <2> QED
    BY <2>5, <2>6
<1> HIDE DEF T
<1>3. n \in T
  BY <1>1, <1>2, UpTo
<1> QED
  BY <1>3 DEF T
-----------------------------------------------------------------------------
(* 3. Words and the operators on them.                                     *)
Positions == 0 .. W - 1

(* The widths, and the numbers that depend on them. *)
LEMMA Widths ==
  /\ W \in {8, 16, 32} /\ W \in Nat
  /\ 2 ^ W = 2 * Sign /\ Sign \in Nat /\ Sign >= 128 /\ Sign = 2 ^ (W - 1)
  /\ TMax = Sign - 1 /\ TMax \in Nat
<1>1. W \in {8, 16, 32}
  <2>1. PICK log \in 3 .. 5 : W = 2 ^ log
    BY WidthAssumption
  <2>2. log \in {3, 4, 5} /\ 2 ^ 3 = 8 /\ 2 ^ 4 = 16 /\ 2 ^ 5 = 32
    OBVIOUS
  <2> QED
    BY <2>1, <2>2
<1>2. W \in Nat /\ W - 1 \in Nat /\ (W - 1) + 1 = W /\ 7 <= W - 1
  BY <1>1
<1>3. 2 ^ W = 2 * 2 ^ (W - 1) /\ 2 ^ (W - 1) \in Nat
  <2> DEFINE V == W - 1
  <2>1. 2 ^ (V + 1) = 2 * 2 ^ V /\ 2 ^ V \in Nat
    BY <1>2, PowerStep
  <2> QED
    BY <2>1, <1>2
<1>4. 2 ^ 7 <= 2 ^ (W - 1) /\ 2 ^ 7 = 128
  <2> DEFINE V == W - 1
             U == 7
  <2>1. U \in Nat /\ V \in Nat /\ U <= V
    BY <1>2
  <2> HIDE DEF U, V
  <2>2. 2 ^ U <= 2 ^ V
    BY <2>1, PowersGrow
  <2> QED
    BY <2>2 DEF U, V
<1> QED
  BY <1>1, <1>2, <1>3, <1>4 DEF Sign, TMax

(* A word is a natural number with its bits. *)
LEMMA OnesIs == ASSUME NEW x PROVE Ones(x) = {pos \in Positions : Bit(x, pos) = 1}
BY DEF Ones, Bit, Positions

(* A word is a natural number below twice the sign. *)
LEMMA WordsAre == ASSUME NEW x \in Words PROVE x \in Nat /\ x < 2 * Sign
BY Widths DEF Words

(* A set of positions is a word. *)
LEMMA OnesNumber ==
  ASSUME NEW S \in SUBSET Positions
  PROVE  Number(S) \in Words /\ Ones(Number(S)) = S
<1>1. /\ Number(S) \in 0 .. 2 ^ W - 1
      /\ \A pos \in 0 .. W - 1 : Bit(Number(S), pos) = 1 <=> pos \in S
  BY Widths, NumberBits DEF Positions
<1> QED
  BY <1>1, OnesIs DEF Words, Positions

(* Two words with the same bits are one. *)
LEMMA SameOnes ==
  ASSUME NEW x \in Words, NEW y \in Words, Ones(x) = Ones(y)
  PROVE  x = y
<1>1. x \in Nat /\ y \in Nat
  BY WordsAre
<1>2. ASSUME NEW pos \in 0 .. W - 1 PROVE Bit(x, pos) = Bit(y, pos)
  <2>0. pos \in Nat
    BY Widths
  <2>1. Bit(x, pos) \in {0, 1} /\ Bit(y, pos) \in {0, 1}
    BY <1>1, <2>0, Halving
  <2>2. Bit(x, pos) = 1 <=> Bit(y, pos) = 1
    BY OnesIs DEF Positions
  <2> QED
    BY <2>1, <2>2
<1> QED
  BY <1>2, Widths, SameBits DEF Words

(* What the operators of C do to the bits. *)
LEMMA Operators ==
  ASSUME NEW x, NEW y
  PROVE  /\ x & y \in Words /\ Ones(x & y) = Ones(x) \cap Ones(y)
         /\ (x | y) \in Words /\ Ones(x | y) = Ones(x) \cup Ones(y)
         /\ x ^^ y \in Words
         /\ Ones(x ^^ y) = (Ones(x) \ Ones(y)) \cup (Ones(y) \ Ones(x))
<1>1. Ones(x) \in SUBSET Positions /\ Ones(y) \in SUBSET Positions
  BY DEF Ones, Positions
<1> QED
  BY <1>1, OnesNumber DEF &, |, ^^

(* The powers below the width. *)
LEMMA PowerOf ==
  ASSUME NEW j \in Positions
  PROVE  /\ j \in Nat /\ 2 ^ j \in Nat \ {0} /\ 2 ^ j <= Sign
         /\ \E c \in Nat \ {0} : c = 2 ^ (W - 1 - j) /\ 2 ^ W = 2 ^ j * (2 * c) /\ Sign = 2 ^ j * c
<1> DEFINE e == W - 1 - j
           V == W - 1
<1>1. j \in Nat /\ e \in Nat /\ V \in Nat /\ j + e = V /\ j <= V
  BY Widths DEF Positions
<1>2. 2 ^ j \in Nat \ {0} /\ 2 ^ e \in Nat \ {0} /\ 2 ^ (j + e) = 2 ^ j * 2 ^ e
  <2> HIDE DEF e, V
  <2> QED
    BY <1>1, PowerPositive, PowerSum
<1>3. 2 ^ j <= 2 ^ V
  <2> HIDE DEF e, V
  <2> QED
    BY <1>1, PowersGrow
<1>4. Sign = 2 ^ V /\ 2 ^ W = 2 * Sign
  BY Widths
<1> DEFINE b == 2 ^ j
           c == 2 ^ e
<1>5. b \in Nat /\ c \in Nat /\ Sign = b * c
  BY <1>1, <1>2, <1>4
<1> HIDE DEF b, c
<1>6. 2 * (b * c) = b * (2 * c)
  BY <1>5
<1> QED
  BY <1>1, <1>2, <1>3, <1>4, <1>5, <1>6 DEF b, c

(* The sign bit. *)
LEMMA TopBit == ASSUME NEW x \in Words PROVE W - 1 \in Ones(x) <=> x >= Sign
<1>1. x \in Nat /\ x < 2 * Sign /\ Sign \in Nat /\ Sign >= 128 /\ Sign = 2 ^ (W - 1)
  BY WordsAre, Widths
<1>2. CASE x >= Sign
  <2>1. x = Sign * 1 + (x - Sign) /\ x - Sign \in 0 .. Sign - 1
    BY <1>1, <1>2
  <2>2. x \div Sign = 1
    BY <2>1, <1>1, DivIs
  <2> QED
    BY <2>2, <1>1, <1>2, Widths, OnesIs DEF Positions, Bit
<1>3. CASE x < Sign
  <2>1. x = Sign * 0 + x /\ x \in 0 .. Sign - 1
    BY <1>1, <1>3
  <2>2. x \div Sign = 0
    BY <2>1, <1>1, DivIs
  <2> QED
    BY <2>2, <1>1, <1>3, Widths, OnesIs DEF Positions, Bit
<1> QED
  BY <1>1, <1>2, <1>3

(* ~ turns every bit. *)
LEMMA ComplementBits ==
  ASSUME NEW x \in Words
  PROVE  Complement(x) \in Words /\ Ones(Complement(x)) = Positions \ Ones(x)
<1>1. x \in Nat /\ x < 2 * Sign /\ 2 ^ W = 2 * Sign /\ Sign \in Nat
  BY WordsAre, Widths
<1>2. Complement(x) \in Words
  BY <1>1 DEF Complement, Words
<1>3. ASSUME NEW j \in Positions PROVE Bit(Complement(x), j) = 1 <=> Bit(x, j) # 1
  <2> DEFINE b == 2 ^ j
             q == x \div b
             r == x % b
  <2>1. PICK c \in Nat : 2 ^ W = b * (2 * c)
    BY PowerOf
  <2>2. b \in Nat \ {0}
    BY PowerOf
  <2> HIDE DEF b
  <2>3. q \in Int /\ r \in 0 .. b - 1 /\ x = b * q + r
    BY <2>2, <1>1, DivOf
  <2> HIDE DEF q, r
  <2>4. Complement(x) = b * (2 * c - 1 - q) + (b - 1 - r)
    <3>1. b * (2 * c - 1 - q) = b * (2 * c) - b - b * q
      BY <2>1, <2>2, <2>3
    <3> QED
      BY <3>1, <2>1, <2>2, <2>3 DEF Complement
  <2>5. Complement(x) \div b = 2 * c - 1 - q
    <3>1. 2 * c - 1 - q \in Int /\ b - 1 - r \in 0 .. b - 1 /\ Complement(x) \in Int
      BY <2>1, <2>2, <2>3, <1>1 DEF Complement
    <3> QED
      BY <3>1, <2>2, <2>4, DivIs
  <2>6. (2 * c - 1 - q) % 2 = 1 <=> q % 2 # 1
    BY <2>1, <2>3
  <2> QED
    BY <2>5, <2>6 DEF Bit, b, q
<1> QED
  BY <1>2, <1>3, OnesIs

(* >> repeats the sign bit. *)
LEMMA RightBits ==
  ASSUME NEW x \in Words, NEW h \in Positions
  PROVE  /\ Right(x, h) \in Words
         /\ Ones(Right(x, h)) = {j \in Positions : Lesser(j + h, W - 1) \in Ones(x)}
         /\ x < Sign => Right(x, h) = x \div 2 ^ h
<1> DEFINE a == 2 ^ h
           q == x \div a
           s == IF x >= Sign THEN 1 ELSE 0
           y == Right(x, h)
<1>1. /\ x \in Nat /\ x < 2 * Sign /\ 2 ^ W = 2 * Sign /\ Sign \in Nat /\ Sign >= 128
      /\ h \in Nat /\ W \in Nat /\ W >= 8
  BY WordsAre, Widths DEF Positions
<1>2. PICK e \in Nat \ {0} : e = 2 ^ (W - 1 - h) /\ 2 ^ W = a * (2 * e) /\ Sign = a * e
  BY PowerOf
<1>3. a \in Nat \ {0}
  BY PowerOf
<1>4. q \in Nat /\ q < 2 * e /\ (x < Sign => q < e) /\ (x >= Sign => q >= e)
  <2>1. 2 * e \in Nat
    BY <1>2
  <2> HIDE DEF a
  <2> QED
    BY <2>1, <1>1, <1>2, <1>3, DivBounds
<1>5. y = q + (2 * Sign - 2 * e) * s /\ y \in Words
  <2>1. Signed(x) \div a = q - 2 * e * s
    <3>1. Signed(x) = x + a * (-(2 * e) * s)
      <4>1. CASE x >= Sign
        <5>1. a * (-(2 * e) * 1) = -(a * (2 * e))
          BY <1>2, <1>3
        <5> HIDE DEF a
        <5> QED
          BY <4>1, <5>1, <1>1, <1>2 DEF Signed
      <4>2. CASE x < Sign
        <5>1. a * (-(2 * e) * 0) = 0
          BY <1>2, <1>3
        <5> HIDE DEF a
        <5> QED
          BY <4>2, <5>1, <1>1 DEF Signed
      <4> QED
        BY <4>1, <4>2, <1>1
    <3>2. s \in {0, 1} /\ -(2 * e) * s \in Int
      BY <1>2
    <3> DEFINE t == -(2 * e) * s
    <3>3. t \in Int /\ Signed(x) = x + a * t /\ x \in Int
      BY <3>1, <3>2, <1>1
    <3> HIDE DEF a, t
    <3>4. (x + a * t) \div a = x \div a + t
      BY <3>3, <1>3, DivAdds
    <3>5. t = -(2 * e * s)
      <4> HIDE DEF s
      <4> QED
        BY <3>2, <1>2 DEF t
    <3> HIDE DEF s
    <3> QED
      BY <3>2, <3>3, <3>4, <3>5, <1>2, <1>4
  <2> DEFINE d == q - 2 * e * s
  <2>2. d \in Int /\ (s = 0 => d = q) /\ (s = 1 => d = q - 2 * e) /\ s \in {0, 1}
    BY <1>2, <1>4
  <2>3. Right(x, h) = d % (2 * Sign)
    BY <2>1, <1>1 DEF Right, Word
  <2>4. e <= Sign
    <3>1. a >= 1 /\ a * e >= e
      BY <1>2, <1>3
    <3> HIDE DEF a
    <3> QED
      BY <3>1, <1>1, <1>2
  <2> HIDE DEF q, d
  <2>5. CASE x < Sign
    <3>1. d = (2 * Sign) * 0 + q /\ q \in 0 .. 2 * Sign - 1
      BY <2>2, <2>4, <2>5, <1>1, <1>2, <1>4
    <3>2. d % (2 * Sign) = q
      BY <3>1, <1>1, DivIs
    <3> QED
      BY <3>1, <3>2, <2>3, <2>5, <1>1, <1>4 DEF Words
  <2>6. CASE x >= Sign
    <3>1. /\ d = (2 * Sign) * (-1) + (q - 2 * e + 2 * Sign)
          /\ q - 2 * e + 2 * Sign \in 0 .. 2 * Sign - 1
      BY <2>2, <2>4, <2>6, <1>1, <1>2, <1>4
    <3>2. d % (2 * Sign) = q - 2 * e + 2 * Sign
      <4> DEFINE z == q - 2 * e + 2 * Sign
                 N == 2 * Sign
      <4>1. z \in 0 .. N - 1 /\ N \in Nat \ {0} /\ d = N * (-1) + z /\ -1 \in Int /\ d \in Int
        BY <3>1, <1>1, <2>2
      <4> HIDE DEF z, N
      <4>2. d % N = z
        BY <4>1, DivIs
      <4> QED
        BY <4>2 DEF z, N
    <3> QED
      BY <3>1, <3>2, <2>3, <2>6, <1>1, <1>2, <1>4 DEF Words
  <2> QED
    BY <2>5, <2>6, <1>1
<1>6. x < Sign => y = x \div a
  <2>1. x < Sign => s = 0
    BY <1>1
  <2>2. x < Sign => y = q
    <3> HIDE DEF q, y, s
    <3> QED
      BY <2>1, <1>1, <1>2, <1>4, <1>5
  <2> QED
    BY <2>2
<1>7. W - 1 \in Ones(x) <=> s = 1
  BY TopBit
<1>8. s \in {0, 1} /\ (s = 0 => q < e /\ y = q)
      /\ (s = 1 => q >= e /\ y = 2 * Sign - (2 * e - q))
  <2>1. s \in {0, 1} /\ (s = 0 => x < Sign) /\ (s = 1 => x >= Sign)
    BY <1>1
  <2> HIDE DEF q, y, s
  <2> QED
    BY <2>1, <1>1, <1>2, <1>4, <1>5
<1>9. ASSUME NEW j \in Positions
      PROVE  Bit(y, j) = 1 <=> Lesser(j + h, W - 1) \in Ones(x)
  <2> DEFINE b == 2 ^ j
  <2>1. PICK g \in Nat \ {0} : g = 2 ^ (W - 1 - j) /\ 2 ^ W = b * (2 * g)
    BY PowerOf
  <2>2. j \in Nat /\ b \in Nat \ {0} /\ j <= W - 1 /\ h <= W - 1
    BY PowerOf, Widths DEF Positions
  <2>3. CASE j + h <= W - 1
    <3>1. PICK f \in Nat : e = b * f
      <4> DEFINE m == W - 1 - h - j
      <4>1. m \in Nat /\ j + m = W - 1 - h
        BY <2>2, <2>3, <1>1
      <4>2. 2 ^ (j + m) = 2 ^ j * 2 ^ m /\ 2 ^ m \in Nat
        <5> HIDE DEF m
        <5> QED
          BY <4>1, <2>2, PowerSum, PowerPositive
      <4> QED
        BY <4>1, <4>2, <1>2
    <3>2. y = q + b * (2 * (g - f) * s)
      <4>1. b * (2 * (g - f) * s) = (b * (2 * g) - 2 * (b * f)) * s
        BY <2>1, <2>2, <3>1, <1>8
      <4> HIDE DEF b, q, y, s
      <4> QED
        BY <4>1, <3>1, <2>1, <1>1, <1>5
    <3>3. y \div b = q \div b + 2 * (g - f) * s
      <4>1. 2 * (g - f) * s \in Int
        BY <2>1, <3>1, <1>8
      <4> DEFINE t == 2 * (g - f) * s
      <4>2. t \in Int /\ y = q + b * t /\ q \in Int
        BY <4>1, <3>2, <1>4
      <4> HIDE DEF b, q, y, s, t
      <4>3. (q + b * t) \div b = q \div b + t
        BY <4>2, <2>2, DivAdds
      <4> QED
        BY <4>2, <4>3 DEF t
    <3>4. (y \div b) % 2 = (q \div b) % 2
      <4>1. q \div b \in Nat
        <5> HIDE DEF q, b
        <5> QED
          BY <2>2, <1>4, DivBounds
      <4>2. (g - f) * s \in Int /\ 2 * (g - f) * s = 2 * ((g - f) * s)
        BY <2>1, <3>1, <1>8
      <4> DEFINE z == (g - f) * s
                 p == q \div b
      <4>3. z \in Int /\ p \in Int /\ y \div b = p + 2 * z
        BY <3>3, <4>1, <4>2
      <4> HIDE DEF z, p
      <4>4. (p + 2 * z) % 2 = p % 2
        BY <4>3
      <4> QED
        BY <4>3, <4>4 DEF p
    <3>5. q \div b = x \div 2 ^ (j + h)
      <4>1. (x \div a) \div b = x \div (a * b)
        <5>1. x \in Int /\ a \in Nat \ {0} /\ b \in Nat \ {0}
          BY <1>1, <1>3, <2>2
        <5> HIDE DEF a, b
        <5> QED
          BY <5>1, DivDiv
      <4>2. 2 ^ (h + j) = a * b /\ h + j = j + h
        BY <1>1, <2>2, PowerSum
      <4> QED
        BY <4>1, <4>2
    <3>6. Lesser(j + h, W - 1) = j + h /\ j + h \in Positions
      BY <2>2, <2>3, <1>1 DEF Lesser, Positions
    <3> QED
      BY <3>4, <3>5, <3>6, OnesIs DEF Bit
  <2>4. CASE j + h > W - 1
    <3>1. e <= b
      <4> DEFINE m == W - 1 - h
      <4>1. m \in Nat /\ m <= j
        BY <2>2, <2>4, <1>1
      <4> HIDE DEF m
      <4>2. 2 ^ m <= 2 ^ j
        BY <4>1, <2>2, PowersGrow
      <4> QED
        BY <4>2, <1>2 DEF m
    <3>2. Lesser(j + h, W - 1) = W - 1
      BY <2>2, <2>4, <1>1 DEF Lesser
    <3>3. CASE s = 0
      <4>1. y = b * 0 + y /\ y \in 0 .. b - 1
        <5> HIDE DEF q, y, b, s
        <5> QED
          BY <3>1, <3>3, <1>2, <1>4, <1>8, <2>2
      <4>2. y \div b = 0
        <5> HIDE DEF y, b
        <5> QED
          BY <4>1, <2>2, DivIs
      <4> HIDE DEF s, y
      <4> QED
        BY <4>2, <3>2, <3>3, <1>7 DEF Bit
    <3>4. CASE s = 1
      <4> DEFINE t == b - (2 * e - q)
      <4>1. y = b * (2 * g - 1) + t /\ t \in 0 .. b - 1 /\ 2 * g - 1 \in Int /\ y \in Int
        <5>1. b * (2 * g - 1) = b * (2 * g) - b
          BY <2>1, <2>2
        <5> HIDE DEF q, y, b, s
        <5> QED
          BY <5>1, <3>1, <3>4, <1>1, <1>2, <1>4, <1>8, <2>1, <2>2
      <4>2. y \div b = 2 * g - 1
        <5> HIDE DEF y, b, t
        <5> QED
          BY <4>1, <2>2, DivIs
      <4>3. (2 * g - 1) % 2 = 1
        BY <2>1
      <4> HIDE DEF s, y
      <4> QED
        BY <4>2, <4>3, <3>2, <3>4, <1>7 DEF Bit
    <3> HIDE DEF s
    <3> QED
      BY <3>3, <3>4, <1>8
  <2> QED
    BY <2>2, <2>3, <2>4, <1>1
<1> HIDE DEF y
<1>10. y \in Words /\ Ones(y) = {j \in Positions : Lesser(j + h, W - 1) \in Ones(x)}
  BY <1>5, <1>9, OnesIs
<1> QED
  BY <1>6, <1>10 DEF y

(* Arithmetic wraps around. *)
LEMMA WordIs ==
  ASSUME NEW n \in Int
  PROVE  /\ Word(n) \in Words
         /\ 0 <= n /\ n < 2 * Sign => Word(n) = n
         /\ 2 * Sign <= n /\ n < 4 * Sign => Word(n) = n - 2 * Sign
         /\ -(2 * Sign) <= n /\ n < 0 => Word(n) = n + 2 * Sign
<1> DEFINE N == 2 ^ W
<1>1. N = 2 * Sign /\ Sign \in Nat /\ N \in Nat \ {0}
  BY Widths
<1> HIDE DEF N
<1>2. n % N \in 0 .. N - 1
  BY <1>1, DivOf
<1>3. ASSUME NEW q \in Int, NEW r \in 0 .. N - 1, n = N * q + r PROVE n % N = r
  BY <1>1, <1>3, DivIs
<1>4. N * 0 = 0 /\ N * 1 = N /\ N * (-1) = -N
  BY <1>1
<1>5. 0 <= n /\ n < N => n % N = n
  BY <1>1, <1>3, <1>4
<1>6. N <= n /\ n < 2 * N => n % N = n - N
  <2>1. n = N * 1 + (n - N)
    BY <1>1, <1>4
  <2>2. N <= n /\ n < 2 * N => n - N \in 0 .. N - 1
    BY <1>1
  <2> QED
    BY <1>3, <2>1, <2>2
<1>7. -N <= n /\ n < 0 => n % N = n + N
  <2>1. n = N * (-1) + (n + N)
    BY <1>1, <1>4
  <2>2. -N <= n /\ n < 0 => n + N \in 0 .. N - 1
    BY <1>1
  <2> QED
    BY <1>3, <2>1, <2>2
<1> QED
  BY <1>1, <1>2, <1>5, <1>6, <1>7 DEF Word, Words, N

(* Nothing, everything, and one bit. *)
LEMMA SmallBits ==
  /\ 0 \in Words /\ Ones(0) = {}
  /\ 1 \in Words /\ Ones(1) = {0}
  /\ 2 ^ W - 1 \in Words /\ Ones(2 ^ W - 1) = Positions
  /\ \A pos \in Positions : 2 ^ pos \in Words /\ Ones(2 ^ pos) = {pos}
<1>1. 0 \in Words /\ Ones(0) = {} /\ Number({}) = 0
  <2>1. Number({}) = 0
    BY NumberWithout, FS_EmptySet
  <2> QED
    BY <2>1, OnesNumber
<1>2. ASSUME NEW pos \in Positions PROVE 2 ^ pos \in Words /\ Ones(2 ^ pos) = {pos}
  <2>1. pos \in Nat /\ 2 ^ pos \in Nat
    BY PowerOf
  <2> DEFINE S == {pos}
  <2>2. S \subseteq Nat /\ IsFiniteSet(S) /\ pos \in S /\ S \ {pos} = {} /\ S \in SUBSET Positions
    BY <2>1, FS_Singleton
  <2> HIDE DEF S
  <2>3. Number(S) = 2 ^ pos + Number({})
    BY <2>2, NumberWithout
  <2>4. Number(S) = 2 ^ pos
    BY <2>1, <2>3, <1>1
  <2>5. Number(S) \in Words /\ Ones(Number(S)) = S
    BY <2>2, OnesNumber
  <2> QED
    BY <2>4, <2>5 DEF S
<1>3. 1 \in Words /\ Ones(1) = {0}
  <2>1. 0 \in Positions /\ 2 ^ 0 = 1
    BY Widths DEF Positions
  <2> QED
    BY <2>1, <1>2
<1>4. 2 ^ W - 1 \in Words /\ Ones(2 ^ W - 1) = Positions
  <2>1. Complement(0) \in Words /\ Ones(Complement(0)) = Positions \ {}
    BY <1>1, ComplementBits
  <2>2. Complement(0) = 2 ^ W - 1
    BY Widths DEF Complement
  <2> QED
    BY <2>1, <2>2
<1> QED
  BY <1>1, <1>2, <1>3, <1>4

(* The operators on truth values. *)
LEMMA TruthBits ==
  ASSUME NEW p \in BOOLEAN, NEW q \in BOOLEAN
  PROVE  /\ Truth(p) \in Words /\ Ones(Truth(p)) = IF p THEN {0} ELSE {}
         /\ Truth(p) & Truth(q) = Truth(p /\ q)
         /\ (Truth(p) | Truth(q)) = Truth(p \/ q)
         /\ Truth(p) ^^ Truth(q) = Truth(p # q)
         /\ LogicalNot(Truth(p)) = Truth(~p)
<1>1. ASSUME NEW r \in BOOLEAN
      PROVE  Truth(r) \in Words /\ Ones(Truth(r)) = IF r THEN {0} ELSE {}
  BY SmallBits DEF Truth
<1>2. LogicalNot(Truth(p)) = Truth(~p)
  BY DEF LogicalNot, Truth
<1>3. /\ Ones(Truth(p /\ q)) = Ones(Truth(p)) \cap Ones(Truth(q))
      /\ Ones(Truth(p \/ q)) = Ones(Truth(p)) \cup Ones(Truth(q))
      /\ Ones(Truth(p # q)) = (Ones(Truth(p)) \ Ones(Truth(q))) \cup (Ones(Truth(q)) \ Ones(Truth(p)))
  BY SmallBits DEF Truth
<1>4. Truth(p /\ q) \in Words /\ Truth(p \/ q) \in Words /\ Truth(p # q) \in Words
  BY SmallBits DEF Truth
<1> DEFINE x == Truth(p)
           y == Truth(q)
<1>5. /\ x & y \in Words /\ Ones(x & y) = Ones(x) \cap Ones(y)
      /\ (x | y) \in Words /\ Ones(x | y) = Ones(x) \cup Ones(y)
      /\ x ^^ y \in Words
      /\ Ones(x ^^ y) = (Ones(x) \ Ones(y)) \cup (Ones(y) \ Ones(x))
  BY Operators
<1>6. x & y = Truth(p /\ q)
  BY <1>3, <1>4, <1>5, SameOnes
<1>7. (x | y) = Truth(p \/ q)
  BY <1>3, <1>4, <1>5, SameOnes
<1>8. x ^^ y = Truth(p # q)
  BY <1>3, <1>4, <1>5, SameOnes
<1> QED
  BY <1>1, <1>2, <1>6, <1>7, <1>8

(* The lowest bit, by masking. *)
LEMMA LowBit ==
  ASSUME NEW x \in Words
  PROVE  x & 1 = Truth(0 \in Ones(x)) /\ (0 \in Ones(x) <=> x % 2 = 1)
<1>1. x & 1 \in Words /\ Ones(x & 1) = Ones(x) \cap {0}
  BY Operators, SmallBits
<1>2. Truth(0 \in Ones(x)) \in Words
      /\ Ones(Truth(0 \in Ones(x))) = IF 0 \in Ones(x) THEN {0} ELSE {}
  BY SmallBits DEF Truth
<1>3. Ones(x) \cap {0} = IF 0 \in Ones(x) THEN {0} ELSE {}
  OBVIOUS
<1>4. x & 1 = Truth(0 \in Ones(x))
  BY <1>1, <1>2, <1>3, SameOnes
<1>5. 0 \in Ones(x) <=> x % 2 = 1
  <2>1. x \div 2 ^ 0 = x /\ 0 \in Positions
    BY WordsAre, Widths DEF Positions
  <2> QED
    BY <2>1, OnesIs DEF Bit
<1> QED
  BY <1>4, <1>5

(* The sign, by shifting it down. *)
LEMMA NegativeIs == ASSUME NEW x \in Words PROVE Negative(x) = Truth(x >= Sign)
<1>1. W - 1 \in Positions /\ 0 \in Positions /\ Lesser(0 + (W - 1), W - 1) = W - 1
  BY Widths DEF Positions, Lesser
<1>2. /\ Right(x, W - 1) \in Words
      /\ Ones(Right(x, W - 1)) = {j \in Positions : Lesser(j + (W - 1), W - 1) \in Ones(x)}
  BY <1>1, RightBits
<1>3. 0 \in Ones(Right(x, W - 1)) <=> x >= Sign
  BY <1>1, <1>2, TopBit
<1>4. Right(x, W - 1) & 1 = Truth(0 \in Ones(Right(x, W - 1)))
  BY <1>2, LowBit
<1> QED
  BY <1>3, <1>4 DEF Negative, Truth
-----------------------------------------------------------------------------
(* 4. The puzzles on integers.                                             *)

(* bitXor agrees with ^ on all pairs of words (bits.c). *)
LEMMA BitXorRight ==
  ASSUME NEW x \in Words, NEW y \in Words
  PROVE  bitXor(x, y) = test_bitXor(x, y)
<1> DEFINE A == Ones(x)
           B == Ones(y)
           u == Complement(x) & Complement(y)
           v == x & y
<1>1. u \in Words /\ Ones(u) = (Positions \ A) \cap (Positions \ B)
  BY Operators, ComplementBits
<1>2. v \in Words /\ Ones(v) = A \cap B
  BY Operators
<1> HIDE DEF u, v
<1>3. /\ Complement(u) & Complement(v) \in Words
      /\ Ones(Complement(u) & Complement(v)) = (Positions \ Ones(u)) \cap (Positions \ Ones(v))
  BY <1>1, <1>2, Operators, ComplementBits
<1>4. x ^^ y \in Words /\ Ones(x ^^ y) = (A \ B) \cup (B \ A)
  BY Operators
<1>5. A \subseteq Positions /\ B \subseteq Positions
  BY OnesIs
<1>6. Ones(Complement(u) & Complement(v)) = Ones(x ^^ y)
  <2> HIDE DEF A, B
  <2> QED
    BY <1>1, <1>2, <1>3, <1>4, <1>5
<1>7. Complement(u) & Complement(v) = x ^^ y
  BY <1>3, <1>4, <1>6, SameOnes
<1> QED
  BY <1>7 DEF bitXor, test_bitXor, u, v

(* tmin is the least int (bits.c). *)
LEMMA TminRight == tmin = test_tmin
<1>1. 1 * 2 ^ (W - 1) = Sign /\ Sign \in Nat /\ 0 <= Sign /\ Sign < 2 * Sign
  BY Widths
<1>2. Word(Sign) = Sign
  BY <1>1, WordIs
<1> QED
  BY <1>1, <1>2 DEF tmin, test_tmin, Left

(* isTmax agrees on all words: only TMax and -1 differ from their          *)
(* successor in every bit, and -1 is told apart (bits.c).                  *)
LEMMA IsTmaxRight == ASSUME NEW x \in Words PROVE isTmax(x) = test_isTmax(x)
<1> DEFINE y == Word(x + 1)
           z == x ^^ y
<1>1. /\ x \in Nat /\ x < 2 * Sign /\ Sign \in Nat /\ Sign >= 128 /\ 2 ^ W = 2 * Sign
      /\ TMax = Sign - 1
  BY WordsAre, Widths
<1>2. y \in Words /\ y = (IF x + 1 < 2 * Sign THEN x + 1 ELSE 0) /\ y \in Nat
  <2>1. x + 1 \in Int
    BY <1>1
  <2>2. x + 1 < 2 * Sign => Word(x + 1) = x + 1
    BY <1>1, <2>1, WordIs
  <2>3. x + 1 >= 2 * Sign => Word(x + 1) = 0
    BY <1>1, <2>1, WordIs
  <2>4. Word(x + 1) \in Words
    BY <2>1, WordIs
  <2> QED
    BY <1>1, <2>2, <2>3, <2>4
<1> HIDE DEF y
<1>3. z \in Words /\ Ones(z) = (Ones(x) \ Ones(y)) \cup (Ones(y) \ Ones(x))
  BY Operators
<1> HIDE DEF z
<1>4. Complement(z) = 0 <=> y = Complement(x)
  <2>1. Complement(z) = 0 <=> z = 2 ^ W - 1
    BY <1>1, <1>3, WordsAre DEF Complement
  <2>2. z = 2 ^ W - 1 <=> Ones(z) = Positions
    BY <1>3, SmallBits, SameOnes
  <2>3. Ones(x) \subseteq Positions /\ Ones(y) \subseteq Positions
    BY OnesIs
  <2>4. Ones(z) = Positions <=> Ones(y) = Positions \ Ones(x)
    BY <1>3, <2>3
  <2>5. Complement(x) \in Words /\ Ones(Complement(x)) = Positions \ Ones(x)
    BY ComplementBits
  <2>6. Ones(y) = Positions \ Ones(x) <=> y = Complement(x)
    BY <1>2, <2>5, SameOnes
  <2> QED
    BY <2>1, <2>2, <2>4, <2>6
<1>5. y # 0 /\ y = Complement(x) <=> x = TMax
  BY <1>1, <1>2 DEF Complement
<1>6. LogicalNot(LogicalNot(y)) = Truth(y # 0) /\ LogicalNot(Complement(z)) = Truth(Complement(z) = 0)
  BY DEF LogicalNot, Truth
<1>7. Truth(y # 0) & Truth(Complement(z) = 0) = Truth(y # 0 /\ Complement(z) = 0)
  BY TruthBits
<1> QED
  BY <1>4, <1>5, <1>6, <1>7 DEF isTmax, test_isTmax, y, z, Truth

(* negate agrees on all words (bits.c). *)
LEMMA NegateRight == ASSUME NEW x \in Words PROVE negate(x) = test_negate(x)
<1>1. x \in Nat /\ x < 2 * Sign /\ Sign \in Nat /\ Sign >= 128 /\ 2 ^ W = 2 * Sign
  BY WordsAre, Widths
<1>2. Complement(x) + 1 = 2 * Sign - x
  BY <1>1 DEF Complement
<1>3. Word(2 * Sign - x) = IF x = 0 THEN 0 ELSE 2 * Sign - x
  <2>1. 2 * Sign - x \in Int
    BY <1>1
  <2> QED
    BY <2>1, <1>1, WordIs
<1>4. Word(-Signed(x)) = IF x = 0 THEN 0 ELSE 2 * Sign - x
  <2>1. Signed(x) = IF x >= Sign THEN x - 2 * Sign ELSE x
    BY <1>1 DEF Signed
  <2>2. -Signed(x) \in Int
    BY <1>1, <2>1
  <2> QED
    BY <2>1, <2>2, <1>1, WordIs
<1> QED
  BY <1>2, <1>3, <1>4 DEF negate, test_negate

(* isAsciiDigit agrees on all words: the two differences overflow in the   *)
(* right places (bits.c).                                                  *)
LEMMA IsAsciiDigitRight == ASSUME NEW x \in Words PROVE isAsciiDigit(x) = test_isAsciiDigit(x)
<1>1. x \in Nat /\ x < 2 * Sign /\ Sign \in Nat /\ Sign >= 128 /\ 2 ^ W = 2 * Sign
  BY WordsAre, Widths
<1>2. Left(1, W - 1) = Sign
  BY TminRight DEF tmin, test_tmin
<1> DEFINE ub == Word(Left(1, W - 1) + Word(Complement(48) + 1))
           lb == Complement(57)
           u == Word(x + ub)
           l == Word(x + lb)
<1>3. Word(Complement(48) + 1) = 2 * Sign - 48
  <2>1. Complement(48) + 1 = 2 * Sign - 48 /\ 2 * Sign - 48 \in Int
    BY <1>1 DEF Complement
  <2> QED
    BY <2>1, <1>1, WordIs
<1>4. ub = Sign - 48
  <2>1. Sign + (2 * Sign - 48) \in Int
    BY <1>1
  <2>2. Word(Sign + (2 * Sign - 48)) = Sign + (2 * Sign - 48) - 2 * Sign
    BY <2>1, <1>1, WordIs
  <2> QED
    BY <2>2, <1>1, <1>2, <1>3
<1>5. lb = 2 * Sign - 58
  BY <1>1 DEF Complement
<1> HIDE DEF ub, lb
<1>6. u \in Words /\ (u >= Sign <=> 48 <= x /\ x < Sign + 48)
  <2>1. x + ub \in Int
    BY <1>1, <1>4
  <2>2. u = IF x + ub < 2 * Sign THEN x + ub ELSE x + ub - 2 * Sign
    BY <2>1, <1>1, <1>4, WordIs
  <2>3. u \in Words
    BY <2>1, WordIs
  <2> HIDE DEF u
  <2> QED
    BY <2>2, <2>3, <1>1, <1>4
<1>7. l \in Words /\ (l >= Sign <=> x < 58 \/ x >= Sign + 58)
  <2>1. x + lb \in Int
    BY <1>1, <1>5
  <2>2. l = IF x + lb < 2 * Sign THEN x + lb ELSE x + lb - 2 * Sign
    BY <2>1, <1>1, <1>5, WordIs
  <2>3. l \in Words
    BY <2>1, WordIs
  <2> HIDE DEF l
  <2> QED
    BY <2>2, <2>3, <1>1, <1>5
<1> HIDE DEF u, l
<1> DEFINE p == u >= Sign
           q == l >= Sign
<1>8. Negative(u) & Negative(l) = Truth(p /\ q)
  <2>1. p \in BOOLEAN /\ q \in BOOLEAN /\ Negative(u) = Truth(p) /\ Negative(l) = Truth(q)
    BY <1>6, <1>7, NegativeIs
  <2> HIDE DEF p, q
  <2> QED
    BY <2>1, TruthBits
<1>9. Truth(p /\ q) & 1 = Truth(p /\ q)
  <2> DEFINE r == p /\ q
             t == TRUE
  <2>1. r \in BOOLEAN /\ t \in BOOLEAN /\ Truth(t) = 1 /\ (r /\ t <=> r) /\ (r /\ t) \in BOOLEAN
    BY DEF Truth
  <2> HIDE DEF r, t
  <2>2. Truth(r) & Truth(t) = Truth(r /\ t)
    BY <2>1, TruthBits
  <2>3. Truth(r /\ t) = Truth(r)
    BY <2>1 DEF Truth
  <2> QED
    BY <2>1, <2>2, <2>3 DEF r
<1>10. u >= Sign /\ l >= Sign <=> 48 <= Signed(x) /\ Signed(x) <= 57
  BY <1>1, <1>6, <1>7 DEF Signed
<1>11. isAsciiDigit(x) = Negative(u) & Negative(l) & 1
  BY DEF isAsciiDigit, u, l, ub, lb
<1> QED
  BY <1>8, <1>9, <1>10, <1>11 DEF test_isAsciiDigit, Truth

(* conditional agrees on all triples of words (bits.c). *)
LEMMA ConditionalRight ==
  ASSUME NEW x \in Words, NEW y \in Words, NEW z \in Words
  PROVE  conditional(x, y, z) = test_conditional(x, y, z)
<1>1. /\ x \in Nat /\ Sign \in Nat /\ Sign >= 128 /\ 2 ^ W = 2 * Sign
      /\ Ones(y) \subseteq Positions /\ Ones(z) \subseteq Positions
  BY WordsAre, Widths, OnesIs
<1> DEFINE mask == Word(Complement(LogicalNot(x)) + 1)
           got == (mask & z) | (Complement(mask) & y)
<1>2. mask \in Words /\ Ones(mask) = IF x = 0 THEN Positions ELSE {}
  <2>1. CASE x = 0
    <3>1. Complement(LogicalNot(x)) + 1 = 2 * Sign - 1 /\ 2 * Sign - 1 \in Int
      BY <2>1, <1>1 DEF Complement, LogicalNot
    <3>2. mask = 2 ^ W - 1
      BY <3>1, <1>1, WordIs
    <3> QED
      BY <3>2, <2>1, SmallBits
  <2>2. CASE x # 0
    <3>1. Complement(LogicalNot(x)) + 1 = 2 * Sign /\ 2 * Sign \in Int
      BY <2>2, <1>1 DEF Complement, LogicalNot
    <3>2. mask = 0
      BY <3>1, <1>1, WordIs
    <3> QED
      BY <3>2, <2>2, SmallBits
  <2> QED
    BY <2>1, <2>2
<1> HIDE DEF mask
<1>3. /\ got \in Words
      /\ Ones(got) = (Ones(mask) \cap Ones(z)) \cup ((Positions \ Ones(mask)) \cap Ones(y))
  BY <1>2, Operators, ComplementBits
<1>4. Ones(got) = IF x = 0 THEN Ones(z) ELSE Ones(y)
  <2> HIDE DEF got
  <2> QED
    BY <1>1, <1>2, <1>3
<1> HIDE DEF got
<1>5. got = IF x = 0 THEN z ELSE y
  BY <1>3, <1>4, SameOnes
<1> QED
  BY <1>5 DEF conditional, test_conditional, got, mask

(* isLessOrEqual agrees on all pairs of words, also where the difference   *)
(* overflows (bits.c).                                                     *)
LEMMA IsLessOrEqualRight ==
  ASSUME NEW x \in Words, NEW y \in Words
  PROVE  isLessOrEqual(x, y) = test_isLessOrEqual(x, y)
<1>1. /\ x \in Nat /\ x < 2 * Sign /\ y \in Nat /\ y < 2 * Sign
      /\ Sign \in Nat /\ Sign >= 128 /\ 2 ^ W = 2 * Sign
  BY WordsAre, Widths
<1> DEFINE diff == Word(x + Word(Complement(y) + 1))
           sx == x >= Sign
           sy == y >= Sign
<1>2. Word(Complement(y) + 1) = IF y = 0 THEN 0 ELSE 2 * Sign - y
  <2>1. Complement(y) + 1 = 2 * Sign - y /\ 2 * Sign - y \in Int
    BY <1>1 DEF Complement
  <2> QED
    BY <2>1, <1>1, WordIs
<1>3. diff \in Words /\ diff = IF x >= y THEN x - y ELSE x - y + 2 * Sign
  <2> DEFINE n == x + Word(Complement(y) + 1)
  <2>1. n \in Int /\ n = (IF y = 0 THEN x ELSE x + (2 * Sign - y))
    BY <1>1, <1>2
  <2> HIDE DEF n
  <2>2. Word(n) \in Words /\ Word(n) = IF x >= y THEN x - y ELSE x - y + 2 * Sign
    BY <2>1, <1>1, WordIs
  <2> QED
    BY <2>2 DEF n
<1>4. Negative(x) = Truth(sx) /\ Negative(y) = Truth(sy) /\ Negative(diff) = Truth(diff >= Sign)
  BY <1>3, NegativeIs
<1>5. LogicalNot(diff) = Truth(diff = 0)
  BY DEF LogicalNot, Truth
<1> DEFINE same == LogicalNot(Truth(sx) ^^ Truth(sy))
           less == Truth(diff >= Sign) | LogicalNot(diff)
           fewer == Truth(sx) & LogicalNot(Truth(sy))
<1>0. sx \in BOOLEAN /\ sy \in BOOLEAN
  BY <1>1
<1>6. same = Truth(~(sx # sy))
  <2> DEFINE d == sx # sy
  <2>1. d \in BOOLEAN
    OBVIOUS
  <2>2. Truth(sx) ^^ Truth(sy) = Truth(d)
    <3> HIDE DEF sx, sy
    <3> QED
      BY <1>0, TruthBits
  <2> HIDE DEF d
  <2>3. LogicalNot(Truth(d)) = Truth(~d)
    BY <2>1, TruthBits
  <2> QED
    BY <2>2, <2>3 DEF d
<1>7. less = Truth(diff >= Sign \/ diff = 0)
  <2> DEFINE d == diff >= Sign
             o == diff = 0
  <2>1. d \in BOOLEAN /\ o \in BOOLEAN /\ LogicalNot(diff) = Truth(o)
    BY <1>1, <1>3, <1>5
  <2> HIDE DEF d, o
  <2>2. (Truth(d) | Truth(o)) = Truth(d \/ o)
    BY <2>1, TruthBits
  <2> QED
    BY <2>1, <2>2 DEF d, o
<1>8. fewer = Truth(sx /\ ~sy)
  <2> DEFINE n == ~sy
  <2>1. n \in BOOLEAN
    OBVIOUS
  <2>2. LogicalNot(Truth(sy)) = Truth(n)
    <3> HIDE DEF sy
    <3> QED
      BY <1>0, TruthBits
  <2>3. Truth(sx) & Truth(n) = Truth(sx /\ n)
    <3> HIDE DEF sx, n
    <3> QED
      BY <1>0, <2>1, TruthBits
  <2> QED
    BY <2>2, <2>3
<1>9. isLessOrEqual(x, y) = (same & less) | fewer
  BY <1>4 DEF isLessOrEqual
<1> DEFINE p == ~(sx # sy)
           q == diff >= Sign \/ diff = 0
           r == sx /\ ~sy
<1> HIDE DEF same, less, fewer
<1>10. ((Truth(p) & Truth(q)) | Truth(r)) = Truth((p /\ q) \/ r)
  <2>1. p \in BOOLEAN /\ q \in BOOLEAN /\ r \in BOOLEAN /\ (p /\ q) \in BOOLEAN
    OBVIOUS
  <2> HIDE DEF p, q, r
  <2> QED
    BY <2>1, TruthBits
<1>11. (p /\ q) \/ r <=> Signed(x) <= Signed(y)
  <2> HIDE DEF diff
  <2> QED
    BY <1>1, <1>3 DEF Signed
<1> QED
  BY <1>6, <1>7, <1>8, <1>9, <1>10, <1>11 DEF test_isLessOrEqual, Truth
-----------------------------------------------------------------------------
(* 5. The puzzles that fold a word in halves.                              *)

(* A loop of n rounds has a run: a function of the rounds done.            *)
IsRun(f, n, a, step) ==
    f[0] = a /\ \A j \in 1 .. n : f[j] = step[j][f[j - 1]]

(* Every loop has a run. *)
LEMMA LoopExists ==
  ASSUME NEW n \in Nat, NEW S, NEW a \in S, NEW step \in [1 .. n -> [S -> S]]
  PROVE  \E f \in [0 .. n -> S] : IsRun(f, n, a, step)
<1> DEFINE Run(f, m) == \A j \in 0 .. m : f[j] = IF j = 0 THEN a ELSE step[j][f[j - 1]]
           T == {m \in 0 .. n : \E f \in [0 .. n -> S] : Run(f, m)}
<1>1. 0 \in T
  <2> DEFINE f == [j \in 0 .. n |-> a]
  <2>1. f \in [0 .. n -> S] /\ Run(f, 0) /\ 0 \in 0 .. n
    OBVIOUS
  <2> HIDE DEF f, Run
  <2> QED
    BY <2>1
<1>2. ASSUME NEW m \in 0 .. n - 1, m \in T PROVE m + 1 \in T
  <2>1. PICK f \in [0 .. n -> S] : Run(f, m)
    BY <1>2
  <2> DEFINE v == step[m + 1][f[m]]
             g == [f EXCEPT ![m + 1] = v]
  <2>2. v \in S
    <3>1. m + 1 \in 1 .. n /\ f[m] \in S
      OBVIOUS
    <3> QED
      BY <3>1
  <2> HIDE DEF v
  <2>3. g \in [0 .. n -> S] /\ g[m + 1] = v /\ (\A j \in 0 .. m : g[j] = f[j]) /\ m + 1 \in 0 .. n
    BY <2>2
  <2> HIDE DEF g
  <2>4. ASSUME NEW j \in 0 .. m + 1 PROVE g[j] = IF j = 0 THEN a ELSE step[j][g[j - 1]]
    <3>1. CASE j = m + 1
      <4>1. j # 0 /\ j - 1 = m /\ g[m] = f[m]
        BY <3>1, <2>3
      <4> QED
        BY <4>1, <3>1, <2>3 DEF v
    <3>2. CASE j # m + 1
      <4>1. j \in 0 .. m /\ (j # 0 => j - 1 \in 0 .. m)
        BY <3>2
      <4> QED
        BY <4>1, <2>1, <2>3
    <3> QED
      BY <3>1, <3>2
  <2>5. Run(g, m + 1)
    BY <2>4
  <2> HIDE DEF Run
  <2> QED
    BY <2>3, <2>5
<1> HIDE DEF T
<1>3. 0 .. n \subseteq T
  BY ONLY n \in Nat, <1>1, <1>2, UpTo
<1>4. n \in T
  BY <1>3
<1>5. PICK f \in [0 .. n -> S] : Run(f, n)
  BY <1>4 DEF T
<1>6. IsRun(f, n, a, step)
  BY <1>5 DEF IsRun
<1> QED
  BY <1>6

(* The widths of the halves, the whole word as the first. *)
Half(j) == IF j = 0 THEN W ELSE Halves[j]

(* The halves are W / 2 to 1, each half of the one before. *)
LEMMA HalvesAre ==
  \E log \in {3, 4, 5} :
     /\ W = 2 ^ log /\ DOMAIN Halves = 1 .. log /\ Len(Halves) = log
     /\ \A j \in 1 .. log : Half(j) \in Nat /\ Half(j) >= 1 /\ Half(j - 1) = 2 * Half(j)
     /\ \A j \in 1 .. log : Halves[j] = Half(j) /\ Half(j) \in Positions
     /\ Half(0) = W /\ Half(log) = 1 /\ Half(log - 1) = 2
<1>1. PICK log \in 3 .. 5 : W = 2 ^ log /\ Halves = [j \in 1 .. log |-> W \div 2 ^ j]
  BY WidthAssumption DEF Halves
<1>2. /\ log \in {3, 4, 5} /\ 2 ^ 1 = 2 /\ 2 ^ 2 = 4 /\ 2 ^ 3 = 8 /\ 2 ^ 4 = 16 /\ 2 ^ 5 = 32
      /\ Len(Halves) = log /\ DOMAIN Halves = 1 .. log
  BY <1>1
<1>3. CASE log = 3
  <2>1. Halves[1] = 4 /\ Halves[2] = 2 /\ Halves[3] = 1 /\ W = 8
    BY <1>1, <1>2, <1>3
  <2>2. \A j \in 1 .. log : j \in {1, 2, 3}
    BY <1>3
  <2> QED
    BY <1>1, <1>2, <1>3, <2>1, <2>2 DEF Half, Positions
<1>4. CASE log = 4
  <2>1. Halves[1] = 8 /\ Halves[2] = 4 /\ Halves[3] = 2 /\ Halves[4] = 1 /\ W = 16
    BY <1>1, <1>2, <1>4
  <2>2. \A j \in 1 .. log : j \in {1, 2, 3, 4}
    BY <1>4
  <2> QED
    BY <1>1, <1>2, <1>4, <2>1, <2>2 DEF Half, Positions
<1>5. CASE log = 5
  <2>1. Halves[1] = 16 /\ Halves[2] = 8 /\ Halves[3] = 4 /\ Halves[4] = 2 /\ Halves[5] = 1 /\ W = 32
    BY <1>1, <1>2, <1>5
  <2>2. \A j \in 1 .. log : j \in {1, 2, 3, 4, 5}
    BY <1>5
  <2> QED
    BY <1>1, <1>2, <1>5, <2>1, <2>2 DEF Half, Positions
<1> QED
  BY <1>2, <1>3, <1>4, <1>5

(* After j rounds a bit is set when all at distances of multiples of a     *)
(* half are, as far as the sign.                                           *)
LEMMA AndShiftedIs ==
  ASSUME NEW x \in Words, NEW n \in 0 .. Len(Halves)
  PROVE  /\ AndShifted(x, n) \in Words
         /\ \A pos \in Positions :
               pos \in Ones(AndShifted(x, n)) <=>
                  \A q \in 0 .. 2 ^ n - 1 : Lesser(pos + q * Half(n), W - 1) \in Ones(x)
<1>1. PICK log \in {3, 4, 5} :
         /\ Len(Halves) = log
         /\ \A j \in 1 .. log : Half(j) \in Nat /\ Half(j) >= 1 /\ Half(j - 1) = 2 * Half(j)
         /\ \A j \in 1 .. log : Halves[j] = Half(j) /\ Half(j) \in Positions
  BY HalvesAre
<1>2. n \in Nat /\ n <= log /\ W \in Nat /\ W >= 8
  BY <1>1, Widths
<1> DEFINE Rec(f) == f = [j \in 0 .. n |-> IF j = 0 THEN x
                                           ELSE LET y == f[j - 1] IN Right(y, Halves[j]) & y]
           step == [j \in 1 .. n |-> [y \in Words |-> Right(y, Halves[j]) & y]]
<1>3. PICK g \in [0 .. n -> Words] : IsRun(g, n, x, step)
  <2>1. step \in [1 .. n -> [Words -> Words]]
    BY Operators
  <2> HIDE DEF step
  <2> QED
    BY ONLY <2>1, n \in Nat, x \in Words, LoopExists
<1>4. Rec(g)
  <2>1. ASSUME NEW j \in 0 .. n
        PROVE  g[j] = IF j = 0 THEN x ELSE LET y == g[j - 1] IN Right(y, Halves[j]) & y
    <3>1. CASE j = 0
      BY <3>1, <1>3 DEF IsRun
    <3>2. CASE j # 0
      <4>1. j \in 1 .. n /\ j - 1 \in 0 .. n
        BY <3>2, <1>2
      <4> QED
        BY <4>1, <3>2, <1>3 DEF IsRun
    <3> QED
      BY <3>1, <3>2
  <2> QED
    BY <2>1
<1>5. \E f : Rec(f) /\ AndShifted(x, n) = f[n]
  BY <1>4 DEF AndShifted
<1>6. PICK f : Rec(f) /\ AndShifted(x, n) = f[n]
  <2> HIDE DEF Rec
  <2> QED
    BY <1>5
<1>7. /\ f[0] = x
      /\ \A j \in 1 .. n : f[j] = Right(f[j - 1], Halves[j]) & f[j - 1]
  BY <1>2, <1>6
<1> HIDE DEF Rec
<1> DEFINE Good(j) == /\ f[j] \in Words
                      /\ \A pos \in Positions :
                            pos \in Ones(f[j]) <=>
                               \A q \in 0 .. 2 ^ j - 1 :
                                  Lesser(pos + q * Half(j), W - 1) \in Ones(x)
           T == {j \in 0 .. n : Good(j)}
<1>8. 0 \in T
  <2>1. 2 ^ 0 = 1 /\ 0 .. 1 - 1 = {0} /\ 0 * Half(0) = 0
    BY Widths DEF Half
  <2>2. ASSUME NEW pos \in Positions PROVE Lesser(pos + 0, W - 1) = pos
    BY Widths DEF Positions, Lesser
  <2>3. Good(0)
    BY <2>1, <2>2, <1>7
  <2> HIDE DEF Good
  <2> QED
    BY <2>3, <1>2
<1>9. ASSUME NEW j \in 0 .. n - 1, j \in T PROVE j + 1 \in T
  <2> DEFINE c == Half(j + 1)
             y == f[j]
             N == 2 ^ j
  <2>1. j + 1 \in 1 .. n /\ (j + 1) - 1 = j /\ j + 1 \in 1 .. log /\ j + 1 \in 0 .. n /\ j \in Nat
    BY <1>2
  <2>2. c \in Nat /\ c >= 1 /\ Half(j) = 2 * c /\ Halves[j + 1] = c /\ c \in Positions
    BY <1>1, <2>1
  <2>3. y \in Words /\ f[j + 1] = Right(y, c) & y
    BY <1>7, <1>9, <2>1, <2>2
  <2>4. N \in Nat /\ 2 ^ (j + 1) = 2 * N
    BY <2>1, PowerStep
  <2>5. ASSUME NEW pos \in Positions
        PROVE  pos \in Ones(y) <=> \A q \in 0 .. N - 1 : Lesser(pos + q * (2 * c), W - 1) \in Ones(x)
    BY <1>9, <2>2
  <2> HIDE DEF c, y, N
  <2>6. /\ f[j + 1] \in Words /\ Ones(f[j + 1]) = Ones(Right(y, c)) \cap Ones(y)
        /\ Ones(Right(y, c)) = {pos \in Positions : Lesser(pos + c, W - 1) \in Ones(y)}
    BY <2>2, <2>3, Operators, RightBits
  <2>7. ASSUME NEW pos \in Positions
        PROVE  pos \in Ones(f[j + 1]) <=>
                  \A q \in 0 .. 2 * N - 1 : Lesser(pos + q * c, W - 1) \in Ones(x)
    <3> DEFINE next == Lesser(pos + c, W - 1)
    <3>1. pos \in Nat /\ next \in Positions
      BY <1>2, <2>2 DEF Positions, Lesser
    <3>2. pos \in Ones(f[j + 1]) <=> pos \in Ones(y) /\ next \in Ones(y)
      BY <2>6
    <3>3. next \in Ones(y) <=> \A q \in 0 .. N - 1 : Lesser(next + q * (2 * c), W - 1) \in Ones(x)
      <4> HIDE DEF next
      <4> QED
        BY <3>1, <2>5
    <3>4. ASSUME NEW q \in 0 .. N - 1
          PROVE  /\ q * (2 * c) = (2 * q) * c /\ (2 * q + 1) * c = (2 * q) * c + c
                 /\ Lesser(next + q * (2 * c), W - 1) = Lesser(pos + (2 * q + 1) * c, W - 1)
      <4>1. q * (2 * c) = (2 * q) * c /\ (2 * q + 1) * c = (2 * q) * c + c /\ (2 * q) * c \in Nat
        BY <2>2
      <4> DEFINE d == (2 * q) * c
      <4>2. d \in Nat /\ q * (2 * c) = d /\ (2 * q + 1) * c = d + c
        BY <4>1
      <4> HIDE DEF d
      <4>3. Lesser(next + d, W - 1) = Lesser(pos + (d + c), W - 1)
        BY <4>2, <3>1, <1>2, <2>2 DEF Lesser
      <4> QED
        BY <4>1, <4>2, <4>3
    <3>5. ASSUME NEW q \in 0 .. 2 * N - 1
          PROVE  \E r \in 0 .. N - 1 : q = 2 * r \/ q = 2 * r + 1
      <4>1. q \div 2 \in 0 .. N - 1 /\ (q = 2 * (q \div 2) \/ q = 2 * (q \div 2) + 1)
        BY <2>4
      <4> QED
        BY <4>1
    <3>6. \A q \in 0 .. N - 1 : 2 * q \in 0 .. 2 * N - 1 /\ 2 * q + 1 \in 0 .. 2 * N - 1
      BY <2>4
    <3> HIDE DEF next
    <3>7. ASSUME pos \in Ones(f[j + 1])
          PROVE  \A q \in 0 .. 2 * N - 1 : Lesser(pos + q * c, W - 1) \in Ones(x)
      <4>1. TAKE q \in 0 .. 2 * N - 1
      <4>2. PICK r \in 0 .. N - 1 : q = 2 * r \/ q = 2 * r + 1
        BY <3>5
      <4>3. /\ Lesser(pos + r * (2 * c), W - 1) \in Ones(x)
            /\ Lesser(next + r * (2 * c), W - 1) \in Ones(x)
        BY <3>2, <3>3, <3>7, <2>5
      <4>4. /\ r * (2 * c) = (2 * r) * c
            /\ Lesser(next + r * (2 * c), W - 1) = Lesser(pos + (2 * r + 1) * c, W - 1)
        BY <3>4
      <4> QED
        BY <4>2, <4>3, <4>4
    <3>8. ASSUME \A q \in 0 .. 2 * N - 1 : Lesser(pos + q * c, W - 1) \in Ones(x)
          PROVE  pos \in Ones(f[j + 1])
      <4>1. ASSUME NEW r \in 0 .. N - 1
            PROVE  /\ Lesser(pos + r * (2 * c), W - 1) \in Ones(x)
                   /\ Lesser(next + r * (2 * c), W - 1) \in Ones(x)
        <5>1. /\ r * (2 * c) = (2 * r) * c
              /\ Lesser(next + r * (2 * c), W - 1) = Lesser(pos + (2 * r + 1) * c, W - 1)
          BY <3>4
        <5>2. 2 * r \in 0 .. 2 * N - 1 /\ 2 * r + 1 \in 0 .. 2 * N - 1
          BY <3>6
        <5> QED
          BY <5>1, <5>2, <3>8
      <4> QED
        BY <4>1, <3>2, <3>3, <2>5
    <3> QED
      BY <3>7, <3>8
  <2>8. Good(j + 1)
    BY <2>4, <2>6, <2>7 DEF c
  <2> HIDE DEF Good
  <2> QED
    BY <2>1, <2>8
<1> HIDE DEF T, Good
<1>10. Good(n)
  <2>1. n \in T
    BY <1>2, <1>8, <1>9, UpTo
  <2> QED
    BY <2>1 DEF T
<1> QED
  BY <1>6, <1>10 DEF Good

(* logicalNeg agrees on all words (bits.c). *)
LEMMA LogicalNegRight == ASSUME NEW x \in Words PROVE logicalNeg(x) = test_logicalNeg(x)
<1>1. PICK log \in {3, 4, 5} : W = 2 ^ log /\ Len(Halves) = log /\ Half(log) = 1
  BY HalvesAre
<1> DEFINE c == Complement(x)
           y == AndShifted(c, Len(Halves))
<1>2. c \in Words /\ Ones(c) = Positions \ Ones(x) /\ log \in 0 .. Len(Halves) /\ W \in Nat /\ W >= 8
  BY <1>1, ComplementBits, Widths
<1> HIDE DEF c
<1>3. /\ y \in Words
      /\ 0 \in Ones(y) <=> \A q \in 0 .. W - 1 : Lesser(0 + q * 1, W - 1) \in Ones(c)
  <2>1. 0 \in Positions
    BY <1>2 DEF Positions
  <2>2. /\ AndShifted(c, log) \in Words
        /\ \A pos \in Positions :
              pos \in Ones(AndShifted(c, log)) <=>
                 \A q \in 0 .. 2 ^ log - 1 : Lesser(pos + q * Half(log), W - 1) \in Ones(c)
    BY <1>2, AndShiftedIs
  <2> QED
    BY <1>1, <2>1, <2>2
<1>4. \A q \in 0 .. W - 1 : Lesser(0 + q * 1, W - 1) = q
  BY <1>2 DEF Lesser
<1>5. 0 \in Ones(y) <=> Ones(x) = {}
  <2>1. Ones(x) \subseteq Positions
    BY OnesIs
  <2>2. 0 \in Ones(y) <=> \A q \in Positions : q \in Ones(c)
    BY <1>3, <1>4 DEF Positions
  <2> HIDE DEF y
  <2> QED
    BY <1>2, <2>1, <2>2
<1>6. Ones(x) = {} <=> x = 0
  BY SmallBits, SameOnes
<1>7. y & 1 = Truth(0 \in Ones(y))
  BY <1>3, LowBit
<1> QED
  BY <1>5, <1>6, <1>7 DEF logicalNeg, test_logicalNeg, LogicalNot, Truth, y, c

(* allOddBits agrees on all words (bits.c). *)
LEMMA AllOddBitsRight == ASSUME NEW x \in Words PROVE allOddBits(x) = test_allOddBits(x)
<1>1. PICK log \in {3, 4, 5} : W = 2 ^ log /\ Len(Halves) = log /\ Half(log - 1) = 2
  BY HalvesAre
<1> DEFINE n == Len(Halves) - 1
           y == AndShifted(x, n)
           odd == {j \in 1 .. W - 1 : j % 2 = 1}
<1>2. /\ n \in 0 .. Len(Halves) /\ n = log - 1 /\ n \in Nat /\ W \in {8, 16, 32} /\ Half(n) = 2
      /\ 2 ^ n \in Nat /\ W = 2 * 2 ^ n
  <2>1. n \in 0 .. Len(Halves) /\ n = log - 1 /\ n \in Nat /\ n + 1 = log
    BY <1>1
  <2> HIDE DEF n
  <2>2. 2 ^ n \in Nat /\ 2 ^ (n + 1) = 2 * 2 ^ n
    BY <2>1, PowerStep
  <2> QED
    BY <2>1, <2>2, <1>1, Widths
<1> HIDE DEF n
<1>3. 0 \in Positions /\ 1 \in Positions /\ Lesser(0 + 1, W - 1) = 1
  BY <1>2 DEF Positions, Lesser
<1>4. y \in Words /\ (1 \in Ones(y) <=> \A q \in 0 .. 2 ^ n - 1 : Lesser(1 + q * 2, W - 1) \in Ones(x))
  BY <1>2, <1>3, AndShiftedIs
<1>5. \A q \in 0 .. 2 ^ n - 1 : Lesser(1 + q * 2, W - 1) = 1 + q * 2 /\ 1 + q * 2 \in odd
  BY <1>2 DEF Lesser
<1>6. ASSUME NEW j \in odd PROVE \E q \in 0 .. 2 ^ n - 1 : j = 1 + q * 2
  <2>1. (j - 1) \div 2 \in 0 .. 2 ^ n - 1 /\ j = 1 + ((j - 1) \div 2) * 2
    BY <1>2
  <2> QED
    BY <2>1
<1>7. ASSUME NEW j \in odd PROVE x & Left(1, j) # 0 <=> j \in Ones(x)
  <2>1. j \in Positions
    BY <1>2 DEF Positions
  <2>2. 2 ^ j \in Nat \ {0} /\ 2 ^ j <= Sign /\ Ones(2 ^ j) = {j}
    BY <2>1, PowerOf, SmallBits
  <2>3. Left(1, j) = 2 ^ j
    <3>1. 1 * 2 ^ j = 2 ^ j /\ 2 ^ j \in Int /\ 0 <= 2 ^ j /\ 2 ^ j < 2 * Sign
      BY <2>2, Widths
    <3> QED
      BY <3>1, WordIs DEF Left
  <2> DEFINE z == x & Left(1, j)
  <2>4. z \in Words /\ Ones(z) = Ones(x) \cap {j}
    BY <2>2, <2>3, Operators
  <2> HIDE DEF z
  <2>5. z = 0 <=> Ones(z) = {}
    BY <2>4, SmallBits, SameOnes
  <2> QED
    BY <2>4, <2>5 DEF z
<1>8. 1 \in Ones(y) <=> \A j \in odd : x & Left(1, j) # 0
  <2> HIDE DEF odd, y
  <2> QED
    BY <1>4, <1>5, <1>6, <1>7
<1>9. Right(y, 1) \in Words /\ (0 \in Ones(Right(y, 1)) <=> 1 \in Ones(y))
  BY <1>3, <1>4, RightBits
<1>10. Right(y, 1) & 1 = Truth(0 \in Ones(Right(y, 1)))
  BY <1>9, LowBit
<1> QED
  BY <1>8, <1>9, <1>10 DEF allOddBits, test_allOddBits, Truth, y, n

(* howManyBits agrees on all words: the search ends at the highest bit     *)
(* (bits.c).                                                               *)
LEMMA HowManyBitsRight == ASSUME NEW x \in Words PROVE howManyBits(x) = test_howManyBits(x)
<1> DEFINE a == x ^^ Right(x, W - 1)
<1>1. /\ x \in Nat /\ x < 2 * Sign /\ Sign \in Nat /\ Sign >= 128 /\ 2 ^ W = 2 * Sign
      /\ W \in Nat /\ W >= 8
  BY WordsAre, Widths
<1>2. a = (IF x >= Sign THEN Complement(x) ELSE x)
  <2>1. W - 1 \in Positions /\ \A j \in Positions : Lesser(j + (W - 1), W - 1) = W - 1
    BY <1>1 DEF Positions, Lesser
  <2>2. Ones(Right(x, W - 1)) = IF x >= Sign THEN Positions ELSE {}
    <3>1. Ones(Right(x, W - 1)) = {j \in Positions : Lesser(j + (W - 1), W - 1) \in Ones(x)}
      BY <2>1, RightBits
    <3>2. Ones(Right(x, W - 1)) = {j \in Positions : W - 1 \in Ones(x)}
      BY <2>1, <3>1
    <3>3. W - 1 \in Ones(x) <=> x >= Sign
      BY TopBit
    <3> QED
      BY <3>2, <3>3
  <2>3. a \in Words /\ Ones(a) = (Ones(x) \ Ones(Right(x, W - 1))) \cup (Ones(Right(x, W - 1)) \ Ones(x))
    BY Operators
  <2>4. Ones(x) \subseteq Positions
    BY OnesIs
  <2>5. Ones(a) = IF x >= Sign THEN Positions \ Ones(x) ELSE Ones(x)
    BY <2>2, <2>3, <2>4
  <2>6. Complement(x) \in Words /\ Ones(Complement(x)) = Positions \ Ones(x)
    BY ComplementBits
  <2> HIDE DEF a
  <2> QED
    BY <2>3, <2>5, <2>6, SameOnes
<1>3. a \in Nat /\ a < Sign /\ a \in Words
  <2> HIDE DEF a
  <2> QED
    BY <1>1, <1>2 DEF Complement, Words
<1>4. (IF Signed(x) < 0 THEN Word(-Signed(x) - 1) ELSE x) = a
  <2>1. CASE x >= Sign
    <3>1. Signed(x) < 0 /\ -Signed(x) - 1 = 2 * Sign - 1 - x /\ 2 * Sign - 1 - x \in Int
      BY <2>1, <1>1 DEF Signed
    <3>2. Word(2 * Sign - 1 - x) = 2 * Sign - 1 - x
      BY <3>1, <2>1, <1>1, WordIs
    <3> HIDE DEF a
    <3> QED
      BY <3>1, <3>2, <2>1, <1>1, <1>2 DEF Complement
  <2>2. CASE x < Sign
    BY <2>2, <1>1, <1>2 DEF Signed
  <2> QED
    BY <2>1, <2>2, <1>1
<1>5. PICK log \in {3, 4, 5} :
         /\ Len(Halves) = log
         /\ \A j \in 1 .. log : Half(j) \in Nat /\ Half(j) >= 1 /\ Half(j - 1) = 2 * Half(j)
         /\ \A j \in 1 .. log : Halves[j] = Half(j) /\ Half(j) \in Positions
         /\ Half(0) = W /\ Half(log) = 1
  BY HalvesAre
<1> DEFINE S == [x : Words, n : Nat]
           Upper(y, j) == Truth(Right(y.x, Halves[j]) # 0) * Halves[j]
           Round(y, j) == [x |-> Right(y.x, Upper(y, j)), n |-> y.n + Upper(y, j)]
           Rec(f) == f = [j \in 0 .. Len(Halves) |->
                             IF j = 0 THEN [x |-> a, n |-> 0]
                             ELSE LET y == f[j - 1]
                                      upper == Truth(Right(y.x, Halves[j]) # 0) * Halves[j]
                                  IN  [x |-> Right(y.x, upper), n |-> y.n + upper]]
           step == [j \in 1 .. log |-> [y \in S |-> Round(y, j)]]
<1>6. ASSUME NEW y \in S, NEW j \in 1 .. log
      PROVE  /\ Upper(y, j) \in {0, Half(j)} /\ Upper(y, j) \in Positions /\ Upper(y, j) \in Nat
             /\ (Upper(y, j) = 0 <=> Right(y.x, Half(j)) = 0)
             /\ Round(y, j) \in S
  <2>1. Halves[j] = Half(j) /\ Half(j) \in Positions /\ Half(j) \in Nat /\ Half(j) >= 1
    BY <1>5
  <2>2. /\ Upper(y, j) \in {0, Half(j)} /\ Upper(y, j) \in Positions /\ Upper(y, j) \in Nat
        /\ (Upper(y, j) = 0 <=> Right(y.x, Half(j)) = 0)
    BY <2>1, <1>1 DEF Truth, Positions
  <2> HIDE DEF Upper
  <2>3. Right(y.x, Upper(y, j)) \in Words
    BY <2>2, RightBits
  <2> QED
    BY <2>2, <2>3
<1>7. PICK g \in [0 .. log -> S] : IsRun(g, log, [x |-> a, n |-> 0], step)
  <2>1. step \in [1 .. log -> [S -> S]]
    <3> HIDE DEF S, Round
    <3> QED
      BY <1>6
  <2>2. [x |-> a, n |-> 0] \in S /\ log \in Nat
    BY <1>3
  <2> HIDE DEF step, S
  <2> QED
    BY ONLY <2>1, <2>2, LoopExists
<1>8. Rec(g)
  <2>1. ASSUME NEW j \in 0 .. log
        PROVE  g[j] = IF j = 0 THEN [x |-> a, n |-> 0] ELSE Round(g[j - 1], j)
    <3>1. CASE j = 0
      BY <3>1, <1>7 DEF IsRun
    <3>2. CASE j # 0
      <4>1. j \in 1 .. log /\ j - 1 \in 0 .. log
        BY <3>2, <1>5
      <4> HIDE DEF S, Round
      <4> QED
        BY <4>1, <3>2, <1>7 DEF IsRun
    <3> QED
      BY <3>1, <3>2
  <2>2. g = [j \in 0 .. log |-> IF j = 0 THEN [x |-> a, n |-> 0] ELSE Round(g[j - 1], j)]
    <3> HIDE DEF S, Round, a
    <3> QED
      BY <2>1
  <2> QED
    BY <2>2, <1>5
<1>9. \E f : Rec(f) /\ howManyBits(x) = f[Len(Halves)].n + f[Len(Halves)].x + 1
  <2> DEFINE s == CHOOSE f : Rec(f)
  <2>1. Rec(s)
    <3> HIDE DEF Rec
    <3> QED
      BY <1>8
  <2>2. howManyBits(x) = s[Len(Halves)].n + s[Len(Halves)].x + 1
    BY DEF howManyBits
  <2> HIDE DEF Rec, s
  <2> QED
    BY <2>1, <2>2
<1> HIDE DEF a, S
<1>10. PICK f : Rec(f) /\ howManyBits(x) = f[Len(Halves)].n + f[Len(Halves)].x + 1
  <2> HIDE DEF Rec
  <2> QED
    BY <1>9
<1>11. /\ f[0] = [x |-> a, n |-> 0]
       /\ \A j \in 1 .. log : f[j] = Round(f[j - 1], j)
  <2>1. f = [j \in 0 .. log |-> IF j = 0 THEN [x |-> a, n |-> 0] ELSE Round(f[j - 1], j)]
    BY <1>5, <1>10
  <2>2. 0 \in 0 .. log /\ \A j \in 1 .. log : j \in 0 .. log /\ j # 0
    BY <1>5
  <2> HIDE DEF Round
  <2>3. f[0] = [x |-> a, n |-> 0]
    BY <2>1, <2>2
  <2>4. ASSUME NEW j \in 1 .. log PROVE f[j] = Round(f[j - 1], j)
    BY <2>1, <2>2
  <2> QED
    BY <2>3, <2>4
<1> HIDE DEF Rec, Upper, Round, step
<1> DEFINE Good(j) == LET y == f[j] IN
                      /\ y \in S /\ y.x = a \div 2 ^ y.n /\ y.x < 2 ^ Half(j)
                      /\ y.n = 0 \/ y.x >= 1
           T == {j \in 0 .. log : Good(j)}
<1>12. 0 \in T
  <2>1. a \div 2 ^ 0 = a
    BY <1>3
  <2>2. f[0] \in S /\ f[0].x = a /\ f[0].n = 0 /\ a < 2 ^ Half(0)
    BY <1>1, <1>3, <1>5, <1>11 DEF S
  <2>3. f[0].x = a \div 2 ^ f[0].n
    BY <2>1, <2>2
  <2>4. Good(0)
    BY <2>2, <2>3
  <2> HIDE DEF Good
  <2> QED
    BY <2>4, <1>5
<1>13. ASSUME NEW j \in 0 .. log - 1, j \in T PROVE j + 1 \in T
  <2> DEFINE y == f[j]
             z == f[j + 1]
             h == Half(j + 1)
             u == Upper(y, j + 1)
             b == 2 ^ h
             N == 2 ^ y.n
  <2>1. j + 1 \in 1 .. log /\ (j + 1) - 1 = j /\ j + 1 \in 0 .. log
    BY <1>5
  <2>2. y \in S /\ y.x = a \div N /\ y.x < 2 ^ (2 * h) /\ (y.n = 0 \/ y.x >= 1) /\ h \in Nat /\ h \in Positions
    BY <1>5, <1>13, <2>1
  <2>3. z = Round(y, j + 1) /\ z \in S /\ u \in {0, h} /\ (u = 0 <=> Right(y.x, h) = 0) /\ u \in Positions
    BY <1>6, <1>11, <2>1, <2>2
  <2>4. z.x = Right(y.x, u) /\ z.n = y.n + u
    BY <2>3 DEF Round
  <2> HIDE DEF u
  <2>5. y.x \in Words /\ y.n \in Nat /\ y.x \in Nat
    BY <2>2, WordsAre DEF S
  <2>6. b \in Nat \ {0} /\ N \in Nat \ {0} /\ 2 ^ (2 * h) = b * b /\ 2 ^ (y.n + h) = N * b
    <3>1. h + h = 2 * h /\ h \in Nat /\ y.n \in Nat
      BY <2>2, <2>5
    <3> HIDE DEF h, y
    <3>2. 2 ^ (h + h) = 2 ^ h * 2 ^ h /\ 2 ^ (y.n + h) = 2 ^ y.n * 2 ^ h /\ 2 ^ h \in Nat \ {0}
          /\ 2 ^ y.n \in Nat \ {0}
      BY <3>1, PowerSum, PowerPositive
    <3> QED
      BY <3>1, <3>2
  <2>7. y.x < Sign
    <3> HIDE DEF N, y
    <3>1. a < N * Sign
      <4>1. Sign <= N * Sign
        BY <1>1, <2>6
      <4> QED
        BY <4>1, <1>1, <1>3, <2>6
    <3> QED
      BY <3>1, <1>1, <1>3, <2>2, <2>6, DivBounds
  <2> HIDE DEF y, z, h
  <2>8. Right(y.x, h) = y.x \div b /\ Right(y.x, 0) = y.x
    <3>1. 0 \in Positions /\ y.x \div 2 ^ 0 = y.x
      BY <2>5, <1>1 DEF Positions
    <3> QED
      BY <3>1, <2>2, <2>5, <2>7, RightBits
  <2> HIDE DEF b, N
  <2>9. CASE u = 0
    <3>1. y.x < b
      <4>1. y.x \div b = 0
        BY <2>3, <2>8, <2>9
      <4>2. y.x >= b * 1 => y.x \div b >= 1
        BY <2>5, <2>6, DivBounds
      <4> QED
        BY <4>1, <4>2, <2>5, <2>6
    <3>2. z.x = y.x /\ z.n = y.n
      BY <2>4, <2>5, <2>8, <2>9
    <3> QED
      BY <3>1, <3>2, <2>1, <2>2, <2>3 DEF z, h, b, N
  <2>10. CASE u = h /\ u # 0
    <3>1. z.x = y.x \div b /\ z.n = y.n + h
      BY <2>4, <2>8, <2>10
    <3>2. z.x # 0 /\ z.x \in Nat /\ z.x < b
      <4>1. z.x # 0
        BY <3>1, <2>3, <2>8, <2>10
      <4>2. y.x < b * b => y.x \div b < b
        BY <2>5, <2>6, DivBounds
      <4>3. y.x \div b \in Nat
        BY <2>5, <2>6, DivBounds
      <4> QED
        BY <4>1, <4>2, <4>3, <3>1, <2>2, <2>6
    <3>3. z.x = a \div 2 ^ z.n
      <4>1. (a \div N) \div b = a \div (N * b)
        <5>1. a \in Int /\ N \in Nat \ {0} /\ b \in Nat \ {0}
          BY <1>3, <2>6
        <5> QED
          BY ONLY <5>1, DivDiv
      <4> QED
        BY <4>1, <3>1, <2>2, <2>6
    <3> QED
      BY <3>2, <3>3, <2>1, <2>3 DEF z, h, b
  <2> QED
    BY <2>3, <2>9, <2>10
<1>14. Good(log)
  <2> HIDE DEF T, Good
  <2>1. 0 .. log \subseteq T
    BY <1>5, <1>12, <1>13, UpTo
  <2>2. log \in T
    BY <2>1, <1>5
  <2> QED
    BY <2>2 DEF T
<1> DEFINE n == f[log].n
           r == f[log].x
<1>15. n \in Nat /\ r \in {0, 1} /\ r = a \div 2 ^ n /\ (n = 0 \/ r = 1) /\ howManyBits(x) = n + r + 1
  <2>1. 2 ^ 1 = 2 /\ f[log] \in S /\ r \in Nat
    BY <1>14, WordsAre DEF S
  <2>2. n \in Nat
    BY <1>14 DEF S
  <2> QED
    BY <2>1, <2>2, <1>5, <1>10, <1>14
<1> HIDE DEF n, r, Good
<1> DEFINE Fits(cnt) == a < 2 ^ cnt /\ (cnt = 0 \/ a >= 2 ^ (cnt - 1))
<1>16. n + r \in 0 .. W /\ Fits(n + r)
  <2> DEFINE N == 2 ^ n
  <2>1. N \in Nat \ {0} /\ 2 ^ (n + 1) = 2 * N /\ 2 ^ 0 = 1
    BY <1>15, PowerPositive, PowerStep
  <2>2. CASE r = 0
    <3>1. n = 0 /\ a < 1
      <4>1. n = 0 /\ a \div 1 = a
        BY <1>3, <1>15, <2>2
      <4>2. a \div 2 ^ 0 = a /\ a \div 2 ^ n = a \div 2 ^ 0
        BY <4>1, <2>1
      <4> QED
        BY <4>1, <4>2, <1>3, <1>15, <2>2
    <3> QED
      BY <3>1, <1>1, <2>1, <2>2
  <2>3. CASE r = 1
    <3>1. N <= a /\ a < 2 * N
      <4>1. r = a \div N
        BY <1>15
      <4> HIDE DEF N
      <4>2. a \div N \in Int /\ a % N \in 0 .. N - 1 /\ a = N * (a \div N) + (a % N)
        <5>1. a \in Int /\ N \in Nat \ {0}
          BY <1>3, <2>1
        <5> QED
          BY ONLY <5>1, DivOf
      <4>3. N * (a \div N) = N
        BY <4>1, <2>1, <2>3
      <4> QED
        BY <4>2, <4>3, <2>1, <1>3
    <3>2. n < W
      <4>1. W <= n => 2 ^ W <= 2 ^ n
        BY <1>1, <1>15, PowersGrow
      <4> QED
        BY <4>1, <3>1, <1>1, <1>3, <1>15, <2>1
    <3>3. (n + 1) - 1 = n /\ n + 1 \in 0 .. W
      BY <3>2, <1>1, <1>15
    <3> HIDE DEF N
    <3> QED
      BY <3>1, <3>3, <2>1, <2>3 DEF N
  <2> QED
    BY <2>2, <2>3, <1>15
<1>17. ASSUME NEW c \in 0 .. W, NEW d \in 0 .. W, Fits(c), Fits(d), c < d PROVE FALSE
  <2> DEFINE e == d - 1
  <2>1. c \in Nat /\ e \in Nat /\ c <= e /\ a >= 2 ^ e /\ a < 2 ^ c
    BY <1>1, <1>17
  <2> HIDE DEF e
  <2>2. 2 ^ c <= 2 ^ e /\ 2 ^ c \in Nat /\ 2 ^ e \in Nat
    BY <2>1, PowersGrow, PowerPositive
  <2> QED
    BY <2>1, <2>2, <1>3
<1>18. \A c \in 0 .. W : Fits(c) => c = n + r
  <2> HIDE DEF Fits
  <2>1. \A c, d \in 0 .. W : c < d \/ d < c \/ c = d
    BY <1>1
  <2> QED
    BY <2>1, <1>16, <1>17
<1>19. (CHOOSE cnt \in 0 .. W : a < 2 ^ cnt /\ (cnt = 0 \/ a >= 2 ^ (cnt - 1))) = n + r
  <2> DEFINE cnt0 == CHOOSE cnt \in 0 .. W : Fits(cnt)
  <2>1. cnt0 \in 0 .. W /\ Fits(cnt0)
    <3> HIDE DEF Fits
    <3> QED
      BY <1>16
  <2>2. cnt0 = n + r
    <3> HIDE DEF cnt0, Fits
    <3> QED
      BY <2>1, <1>18
  <2> QED
    BY <2>2
<1>20. test_howManyBits(x) = 1 + (n + r)
  BY <1>4, <1>19 DEF test_howManyBits
<1> QED
  BY <1>15, <1>20
-----------------------------------------------------------------------------
(* 6. Sums and remainders of bits.                                         *)

(* The numbers of disjoint sets add up. *)
LEMMA NumberUnion ==
  ASSUME NEW n \in Nat, NEW S \in SUBSET (0 .. n - 1), NEW R \in SUBSET (0 .. n - 1), S \cap R = {}
  PROVE  Number(S \cup R) = Number(S) + Number(R)
<1> DEFINE Sum(s, r) == Number(s \cup r) = Number(s) + Number(r)
           T == {m \in Nat : \A s, r \in SUBSET (0 .. m - 1) : s \cap r = {} => Sum(s, r)}
<1>0. Number({}) = 0
  BY NumberWithout, FS_EmptySet
<1>1. 0 \in T
  <2>1. \A s \in SUBSET (0 .. 0 - 1) : s = {}
    OBVIOUS
  <2>2. Sum({}, {})
    BY <1>0
  <2> HIDE DEF Sum
  <2> QED
    BY <2>1, <2>2
<1>2. ASSUME NEW m \in 0 .. n - 1, m \in T PROVE m + 1 \in T
  <2>1. SUFFICES ASSUME NEW s \in SUBSET (0 .. m + 1 - 1), NEW r \in SUBSET (0 .. m + 1 - 1),
                        s \cap r = {}
                 PROVE  Sum(s, r)
    OBVIOUS
  <2>2. ASSUME NEW t \in SUBSET (0 .. m)
        PROVE  /\ t \ {m} \in SUBSET (0 .. m - 1) /\ Number(t) \in Nat /\ Number(t \ {m}) \in Nat
               /\ Number(t) = Number(t \ {m}) + (IF m \in t THEN 2 ^ m ELSE 0)
    <3>1. IsFiniteSet(0 .. m) /\ m \in Nat /\ 2 ^ m \in Nat
      BY FS_Interval, PowerPositive
    <3>2. IsFiniteSet(t) /\ t \subseteq Nat
      <4>1. IsFiniteSet(t)
        BY <3>1, FS_Subset
      <4>2. t \subseteq Nat
        BY <3>1
      <4> QED
        BY <4>1, <4>2
    <3>3. IsFiniteSet(t \ {m}) /\ t \ {m} \subseteq Nat
      BY <3>2, FS_Subset
    <3>4. Number(t) \in Nat /\ Number(t \ {m}) \in Nat
      <4> DEFINE u == t \ {m}
      <4>1. IsFiniteSet(u) /\ u \subseteq Nat
        BY <3>3
      <4> HIDE DEF u
      <4>2. Number(u) \in Nat
        BY <4>1, NumberWithout
      <4>3. Number(t) \in Nat
        BY <3>2, NumberWithout
      <4> QED
        BY <4>2, <4>3 DEF u
    <3>5. m \in t => Number(t) = Number(t \ {m}) + 2 ^ m
      <4>1. m \in t => Number(t) = 2 ^ m + Number(t \ {m})
        BY <3>2, NumberWithout
      <4> QED
        BY <4>1, <3>1, <3>4
    <3>6. m \notin t => Number(t) = Number(t \ {m})
      <4>1. m \notin t => t \ {m} = t
        OBVIOUS
      <4> QED
        BY <4>1
    <3>7. t \ {m} \in SUBSET (0 .. m - 1)
      OBVIOUS
    <3> QED
      BY <3>4, <3>5, <3>6, <3>7
  <2> DEFINE t == s \cup r
             s1 == s \ {m}
             r1 == r \ {m}
  <2>3. m + 1 - 1 = m /\ m \in Nat /\ 2 ^ m \in Nat
    BY PowerPositive
  <2>4. s \in SUBSET (0 .. m) /\ r \in SUBSET (0 .. m) /\ t \in SUBSET (0 .. m)
    BY <2>1, <2>3
  <2>5. t \ {m} = s1 \cup r1 /\ s1 \cap r1 = {}
    BY <2>1
  <2>6. s1 \in SUBSET (0 .. m - 1) /\ r1 \in SUBSET (0 .. m - 1)
    BY <2>2, <2>4
  <2>7. Sum(s1, r1)
    <3> HIDE DEF s1, r1, Sum
    <3> QED
      BY <1>2, <2>5, <2>6
  <2>8. m \in t <=> m \in s \/ m \in r
    OBVIOUS
  <2>9. ~(m \in s /\ m \in r)
    BY <2>1
  <2>10. /\ Number(s) \in Nat /\ Number(s1) \in Nat
         /\ Number(s) = Number(s1) + (IF m \in s THEN 2 ^ m ELSE 0)
    BY <2>2, <2>4
  <2>11. /\ Number(r) \in Nat /\ Number(r1) \in Nat
         /\ Number(r) = Number(r1) + (IF m \in r THEN 2 ^ m ELSE 0)
    BY <2>2, <2>4
  <2>12. Number(t) = Number(s1 \cup r1) + (IF m \in t THEN 2 ^ m ELSE 0)
    <3> HIDE DEF t
    <3> QED
      BY <2>2, <2>4, <2>5
  <2>13. Number(s1 \cup r1) = Number(s1) + Number(r1)
    BY <2>7
  <2> HIDE DEF s1, r1, t
  <2>14. Number(t) = Number(s) + Number(r)
    BY <2>3, <2>8, <2>9, <2>10, <2>11, <2>12, <2>13
  <2> QED
    BY <2>14 DEF t
<1> HIDE DEF T
<1>3. 0 .. n \subseteq T
  BY <1>1, <1>2, UpTo
<1>4. n \in T
  BY <1>3
<1> QED
  BY <1>4 DEF T

(* Words without a common bit: | is a sum. *)
LEMMA DisjointSum ==
  ASSUME NEW x \in Words, NEW y \in Words, Ones(x) \cap Ones(y) = {}
  PROVE  (x | y) = x + y /\ x + y \in Words /\ Ones(x + y) = Ones(x) \cup Ones(y)
<1>1. Ones(x) \in SUBSET (0 .. W - 1) /\ Ones(y) \in SUBSET (0 .. W - 1) /\ W \in Nat
  BY Widths DEF Ones
<1>2. x = Number(Ones(x)) /\ y = Number(Ones(y))
  BY <1>1, OnesNumber, SameOnes DEF Positions
<1>3. Number(Ones(x) \cup Ones(y)) = Number(Ones(x)) + Number(Ones(y))
  BY <1>1, NumberUnion
<1>4. (x | y) = x + y
  BY <1>2, <1>3 DEF |
<1> QED
  BY <1>4, Operators

(* The remainder keeps the low bits. *)
LEMMA RemainderOnes ==
  ASSUME NEW x \in Words, NEW n \in 0 .. W
  PROVE  /\ 2 ^ n \in Nat \ {0} /\ x % 2 ^ n \in Words /\ x % 2 ^ n \in 0 .. 2 ^ n - 1
         /\ Ones(x % 2 ^ n) = Ones(x) \cap (0 .. n - 1)
<1> DEFINE a == 2 ^ n
           q == x \div a
           r == x % a
<1>1. n \in Nat /\ W \in Nat /\ x \in Nat /\ x < 2 ^ W /\ 2 ^ W \in Nat
  BY Widths, WordsAre
<1>2. a \in Nat \ {0} /\ a <= 2 ^ W
  BY <1>1, PowerPositive, PowersGrow
<1> HIDE DEF a
<1>3. q \in Int /\ r \in 0 .. a - 1 /\ x = a * q + r
  <2>1. x \in Int
    BY <1>1
  <2> QED
    BY ONLY <2>1, <1>2, DivOf
<1> HIDE DEF q, r
<1>4. r \in Words
  BY <1>1, <1>2, <1>3 DEF Words
<1>5. ASSUME NEW j \in Positions, j < n PROVE Bit(r, j) = Bit(x, j)
  <2> DEFINE b == 2 ^ j
             d == n - j - 1
             c == 2 ^ d
  <2>1. j \in Nat /\ d \in Nat /\ j + (d + 1) = n
    BY <1>1, <1>5 DEF Positions
  <2>2. b \in Nat \ {0} /\ c \in Nat /\ a = b * (2 * c)
    <3> HIDE DEF d
    <3>1. 2 ^ (j + (d + 1)) = 2 ^ j * 2 ^ (d + 1) /\ 2 ^ (d + 1) = 2 * 2 ^ d /\ 2 ^ d \in Nat
      BY <2>1, PowerSum, PowerStep
    <3> QED
      BY <2>1, <3>1, PowerPositive DEF a
  <2> HIDE DEF b, c
  <2>3. x = r + b * (2 * (c * q)) /\ c * q \in Int
    <3>1. (b * (2 * c)) * q = b * (2 * (c * q))
      BY <1>3, <2>2
    <3> QED
      BY <3>1, <1>3, <2>2
  <2> DEFINE z == c * q
  <2>4. z \in Int /\ x = r + b * (2 * z) /\ 2 * z \in Int /\ r \in Int
    BY <1>3, <2>3
  <2> HIDE DEF z
  <2>5. (r + b * (2 * z)) \div b = r \div b + 2 * z /\ r \div b \in Int
    <3>1. r \in Int /\ b \in Nat \ {0} /\ 2 * z \in Int
      BY <2>2, <2>4
    <3> QED
      BY ONLY <3>1, DivAdds, DivOf
  <2>6. (r \div b + 2 * z) % 2 = (r \div b) % 2
    <3>1. r \div b \in Int /\ 2 \in Nat \ {0} /\ z \in Int
      BY <2>4, <2>5
    <3> QED
      BY ONLY <3>1, DivAdds
  <2> QED
    BY <2>4, <2>5, <2>6 DEF Bit, b
<1>6. ASSUME NEW j \in Positions, j >= n PROVE Bit(r, j) = 0
  <2> DEFINE b == 2 ^ j
  <2>1. b \in Nat \ {0} /\ a <= b
    <3>1. j \in Nat
      BY <1>1 DEF Positions
    <3> QED
      BY <3>1, <1>1, <1>6, PowersGrow, PowerPositive DEF a
  <2> HIDE DEF b
  <2>2. r = b * 0 + r /\ r \in 0 .. b - 1 /\ r \in Int
    BY <2>1, <1>2, <1>3
  <2>3. r \div b = 0
    BY ONLY <2>1, <2>2, DivIs
  <2> QED
    BY <2>3 DEF Bit, b
<1>7. ASSUME NEW j \in Positions PROVE j \in Ones(r) <=> j \in Ones(x) /\ j \in 0 .. n - 1
  <2>1. j \in Nat
    BY <1>1 DEF Positions
  <2>2. (j \in Ones(r) <=> Bit(r, j) = 1) /\ (j \in Ones(x) <=> Bit(x, j) = 1)
    BY OnesIs
  <2>3. CASE j < n
    BY <2>1, <2>2, <2>3, <1>1, <1>5
  <2>4. CASE j >= n
    BY <2>1, <2>2, <2>4, <1>1, <1>6
  <2> QED
    BY <2>1, <2>3, <2>4, <1>1
<1>8. Ones(r) \subseteq Positions /\ Ones(x) \subseteq Positions
  BY OnesIs
<1>9. Ones(r) = Ones(x) \cap (0 .. n - 1)
  <2> HIDE DEF r
  <2> QED
    BY <1>7, <1>8
<1> QED
  BY <1>2, <1>3, <1>4, <1>9 DEF r, a

(* So masking with ones takes a remainder; a small word has low bits, and  *)
(* a multiple of a power has none.                                         *)
LEMMA Masks ==
  ASSUME NEW x \in Words, NEW n \in 0 .. W
  PROVE  /\ 2 ^ n - 1 \in Words /\ Ones(2 ^ n - 1) = 0 .. n - 1
         /\ x & (2 ^ n - 1) = x % 2 ^ n
         /\ x < 2 ^ n => Ones(x) \subseteq 0 .. n - 1
         /\ \A q \in Int : x = 2 ^ n * q => Ones(x) \cap (0 .. n - 1) = {}
<1> DEFINE a == 2 ^ n
           d == W - n
           c == 2 ^ d
<1>1. /\ n \in Nat /\ d \in Nat /\ n + d = W /\ x \in Nat /\ W \in Nat /\ 0 .. n - 1 \subseteq Positions
  BY Widths, WordsAre DEF Positions
<1>2. a \in Nat \ {0} /\ c \in Nat \ {0} /\ 2 ^ W = a * c
  <2> HIDE DEF d
  <2>1. 2 ^ (n + d) = 2 ^ n * 2 ^ d
    BY <1>1, PowerSum
  <2> QED
    BY <1>1, <2>1, PowerPositive
<1> HIDE DEF a, c
<1>3. (2 ^ W - 1) % a = a - 1
  <2>1. a * (c - 1) = a * c - a
    BY <1>2
  <2>2. 2 ^ W - 1 = a * (c - 1) + (a - 1) /\ a - 1 \in 0 .. a - 1 /\ c - 1 \in Int /\ 2 ^ W - 1 \in Int
    BY <2>1, <1>2
  <2> QED
    BY ONLY <2>2, <1>2, DivIs
<1>4. a - 1 \in Words /\ Ones(a - 1) = 0 .. n - 1
  <2> DEFINE y == 2 ^ W - 1
  <2>1. y \in Words /\ Ones(y) = Positions
    BY SmallBits
  <2> HIDE DEF y
  <2>2. y % a \in Words /\ Ones(y % a) = Positions \cap (0 .. n - 1)
    BY <2>1, RemainderOnes DEF a
  <2>3. y % a = a - 1
    BY <1>3 DEF y
  <2> QED
    BY <2>2, <2>3, <1>1
<1>5. x % a \in Words /\ Ones(x % a) = Ones(x) \cap (0 .. n - 1)
  BY RemainderOnes DEF a
<1>6. x & (a - 1) = x % a
  <2> DEFINE y == a - 1
             z == x & y
             r == x % a
  <2>1. z \in Words /\ Ones(z) = Ones(x) \cap (0 .. n - 1)
    BY <1>4, Operators
  <2>2. r \in Words /\ Ones(r) = Ones(x) \cap (0 .. n - 1)
    BY <1>5
  <2> HIDE DEF z, r
  <2>3. z = r
    BY <2>1, <2>2, SameOnes
  <2> QED
    BY <2>3 DEF z, r
<1>7. ASSUME x < a PROVE Ones(x) \subseteq 0 .. n - 1
  <2>1. x = a * 0 + x /\ x \in 0 .. a - 1 /\ x \in Int
    BY <1>1, <1>2, <1>7
  <2>2. x % a = x
    BY ONLY <2>1, <1>2, DivIs
  <2> QED
    BY <2>2, <1>5
<1>8. ASSUME NEW q \in Int, x = a * q PROVE Ones(x) \cap (0 .. n - 1) = {}
  <2>1. x = a * q + 0 /\ 0 \in 0 .. a - 1 /\ x \in Int
    BY <1>1, <1>2, <1>8
  <2>2. x % a = 0
    BY ONLY <2>1, <1>2, DivIs
  <2> QED
    BY <2>2, <1>5, SmallBits
<1> QED
  BY <1>4, <1>6, <1>7, <1>8 DEF a
-----------------------------------------------------------------------------
(* 7. Floats.                                                              *)
Unit == 2 ^ MantBits
Exponent(uf) == (uf % Sign) \div Unit
Mantissa(uf) == uf % Unit
SignOf(uf) == IF uf >= Sign THEN Sign ELSE 0

(* The widths and the constants of the floats. *)
LEMMA FloatWidths ==
  /\ MantBits \in Nat /\ MantBits >= 1 /\ ExpBits \in Nat /\ ExpBits >= 2 /\ MantBits + ExpBits = W - 1
  /\ W \in Nat /\ W >= 8
  /\ Unit \in Nat /\ Unit >= 2 /\ 2 ^ (MantBits + 1) = 2 * Unit
  /\ 2 ^ ExpBits = 2 * (BIAS + 1) /\ BIAS \in Nat /\ BIAS >= 1 /\ W <= BIAS + 2
  /\ Sign = Unit * (2 * (BIAS + 1)) /\ Sign \in Nat
  /\ Infinity = Unit * (2 * BIAS + 1) /\ Infinity = Sign - Unit /\ Infinity \in Nat
  /\ Fraction = Unit - 1
  /\ Smallest = -(BIAS - 1 + MantBits) /\ Smallest \in Int /\ Smallest <= -1
<1>1. /\ MantBits \in Nat /\ MantBits >= 1 /\ ExpBits \in Nat /\ ExpBits >= 2
      /\ MantBits + ExpBits = W - 1 /\ W \in Nat /\ W >= 8 /\ W <= 2 ^ (ExpBits - 1) + 1
  BY WidthAssumption, Widths
<1>2. 2 ^ 1 = 2 /\ 2 ^ 1 <= Unit /\ Unit \in Nat /\ 2 ^ (MantBits + 1) = 2 * Unit
  BY <1>1, PowersGrow, PowerPositive, PowerStep DEF Unit
<1> DEFINE d == ExpBits - 1
           b == 2 ^ d
<1>3. d \in Nat /\ d >= 1 /\ d + 1 = ExpBits
  BY <1>1
<1>4. b \in Nat /\ 2 <= b /\ 2 ^ ExpBits = 2 * b
  <2> HIDE DEF d
  <2> QED
    BY <1>2, <1>3, PowersGrow, PowerPositive, PowerStep
<1>5. BIAS = b - 1 /\ W <= b + 1
  BY <1>1 DEF BIAS
<1>6. Sign = Unit * 2 ^ ExpBits
  <2>1. 2 ^ (MantBits + ExpBits) = 2 ^ MantBits * 2 ^ ExpBits
    BY <1>1, PowerSum
  <2> QED
    BY <2>1, <1>1 DEF Sign, Unit
<1> HIDE DEF b, d
<1>7. Infinity = (2 ^ ExpBits - 1) * Unit /\ Fraction = Unit - 1
  BY DEF Infinity, Fraction, Unit
<1>8. /\ 2 ^ ExpBits = 2 * (BIAS + 1) /\ BIAS \in Nat /\ BIAS >= 1 /\ W <= BIAS + 2
      /\ b = BIAS + 1
  BY <1>4, <1>5
<1>9. /\ Sign = Unit * (2 * (BIAS + 1)) /\ Infinity = (2 * BIAS + 1) * Unit
  BY <1>6, <1>7, <1>8
<1>10. /\ Unit * (2 * (BIAS + 1)) = Unit * (2 * BIAS + 1) + Unit
       /\ (2 * BIAS + 1) * Unit = Unit * (2 * BIAS + 1) /\ Unit * (2 * BIAS + 1) \in Nat
  BY <1>2, <1>8
<1>11. Smallest = -(BIAS - 1 + MantBits) /\ Smallest \in Int /\ Smallest <= -1
  BY <1>1, <1>8 DEF Smallest
<1>12. Infinity = Unit * (2 * BIAS + 1) /\ Infinity = Sign - Unit /\ Infinity \in Nat /\ Sign \in Nat
  BY <1>2, <1>9, <1>10
<1> QED
  BY <1>1, <1>2, <1>7, <1>8, <1>9, <1>11, <1>12

(* A float's fields, and the masks that take them out. *)
LEMMA FloatFields ==
  ASSUME NEW uf \in Words
  PROVE  /\ Exponent(uf) \in 0 .. 2 * BIAS + 1 /\ Mantissa(uf) \in 0 .. Unit - 1
         /\ uf % Sign = Unit * Exponent(uf) + Mantissa(uf) /\ uf % Sign \in 0 .. Sign - 1
         /\ uf = SignOf(uf) + (uf % Sign)
         /\ uf & Sign = SignOf(uf) /\ uf & TMax = uf % Sign
         /\ uf & Fraction = Mantissa(uf) /\ uf & Infinity = Unit * Exponent(uf)
<1> DEFINE mag == uf % Sign
           s == SignOf(uf)
           e == mag \div Unit
           m == mag % Unit
<1>1. /\ uf \in Nat /\ uf < 2 * Sign /\ Sign \in Nat /\ Sign >= 128 /\ Unit \in Nat \ {0}
      /\ 2 ^ W = 2 * Sign /\ TMax = Sign - 1
  BY WordsAre, Widths, FloatWidths
<1>2. uf = s + mag /\ mag \in 0 .. Sign - 1
  <2>1. ASSUME NEW q \in Int, NEW r \in 0 .. Sign - 1, uf = Sign * q + r PROVE uf % Sign = r
    <3>1. uf \in Int /\ Sign \in Nat \ {0}
      BY <1>1
    <3> QED
      BY ONLY <3>1, <2>1, DivIs
  <2>2. Sign * 0 = 0 /\ Sign * 1 = Sign
    BY <1>1
  <2>3. CASE uf >= Sign
    <3>1. uf - Sign \in 0 .. Sign - 1 /\ uf = Sign * 1 + (uf - Sign)
      BY <2>2, <2>3, <1>1
    <3>2. mag = uf - Sign
      BY <3>1, <2>1
    <3> QED
      BY <3>1, <3>2, <2>3, <1>1 DEF SignOf
  <2>4. CASE uf < Sign
    <3>1. uf \in 0 .. Sign - 1 /\ uf = Sign * 0 + uf
      BY <2>2, <2>4, <1>1
    <3>2. mag = uf
      BY <3>1, <2>1
    <3> QED
      BY <3>1, <3>2, <2>4, <1>1 DEF SignOf
  <2> QED
    BY <2>3, <2>4, <1>1
<1> HIDE DEF mag
<1>3. e \in Int /\ m \in 0 .. Unit - 1 /\ mag = Unit * e + m
  <2>1. mag \in Int
    BY <1>1, <1>2
  <2> QED
    BY ONLY <2>1, <1>1, DivOf
<1>4. e \in 0 .. 2 * BIAS + 1
  <2>1. mag \in Nat /\ Unit \in Nat \ {0} /\ 2 * (BIAS + 1) \in Nat /\ mag < Unit * (2 * (BIAS + 1))
        /\ BIAS \in Nat
    BY <1>1, <1>2, FloatWidths
  <2>2. mag \div Unit \in Nat /\ mag \div Unit < 2 * (BIAS + 1)
    BY ONLY <2>1, DivBounds
  <2> QED
    BY <2>1, <2>2
<1> HIDE DEF e, m
<1>5. mag \in Words /\ Ones(mag) = Ones(uf) \cap (0 .. W - 2) /\ uf & TMax = mag
  <2>1. W - 1 \in 0 .. W /\ (W - 1) - 1 = W - 2 /\ Sign = 2 ^ (W - 1)
    BY Widths
  <2>2. uf % Sign \in Words /\ Ones(uf % Sign) = Ones(uf) \cap (0 .. (W - 1) - 1)
    BY <2>1, RemainderOnes
  <2>3. uf & (Sign - 1) = uf % Sign
    BY <2>1, Masks
  <2> QED
    BY <2>1, <2>2, <2>3, <1>1 DEF mag
<1>6. /\ m \in Words /\ Ones(m) = Ones(uf) \cap (0 .. MantBits - 1)
      /\ Mantissa(uf) = m /\ uf & Fraction = m
  <2>1. MantBits \in 0 .. W /\ MantBits <= W - 2 /\ MantBits \in Nat /\ W \in Nat
    BY FloatWidths
  <2>2. mag % Unit \in Words /\ Ones(mag % Unit) = Ones(mag) \cap (0 .. MantBits - 1)
    BY <1>5, <2>1, RemainderOnes DEF Unit
  <2>3. uf % Unit \in Words /\ Ones(uf % Unit) = Ones(uf) \cap (0 .. MantBits - 1)
    BY <2>1, RemainderOnes DEF Unit
  <2>4. Ones(mag) \cap (0 .. MantBits - 1) = Ones(uf) \cap (0 .. MantBits - 1)
    BY <2>1, <1>5
  <2>5. mag % Unit = uf % Unit
    <3> DEFINE u == mag % Unit
               v == uf % Unit
    <3>1. u \in Words /\ v \in Words /\ Ones(u) = Ones(v)
      BY <2>2, <2>3, <2>4
    <3> HIDE DEF u, v
    <3>2. u = v
      BY <3>1, SameOnes
    <3> QED
      BY <3>2 DEF u, v
  <2>6. uf & (Unit - 1) = uf % Unit
    BY <2>1, Masks DEF Unit
  <2> QED
    BY <2>3, <2>5, <2>6, FloatWidths DEF m, Mantissa
<1>7. uf & Sign = s
  <2>1. W - 1 \in Positions /\ Sign = 2 ^ (W - 1)
    BY Widths DEF Positions
  <2>2. Sign \in Words /\ Ones(Sign) = {W - 1} /\ 0 \in Words /\ Ones(0) = {}
    BY <2>1, SmallBits
  <2> DEFINE z == uf & Sign
  <2>3. z \in Words /\ Ones(z) = Ones(uf) \cap {W - 1}
    BY <2>2, Operators
  <2>4. W - 1 \in Ones(uf) <=> uf >= Sign
    BY TopBit
  <2>5. s \in Words /\ Ones(s) = IF uf >= Sign THEN {W - 1} ELSE {}
    BY <2>2 DEF SignOf
  <2>6. Ones(z) = Ones(s)
    BY <2>3, <2>4, <2>5
  <2> HIDE DEF z, s
  <2>7. z = s
    BY <2>3, <2>5, <2>6, SameOnes
  <2> QED
    BY <2>7 DEF z
<1>8. uf & Infinity = Unit * e
  <2>1. MantBits \in 0 .. W /\ W - 1 \in 0 .. W /\ (W - 1) - 1 = W - 2 /\ Sign = 2 ^ (W - 1)
        /\ MantBits <= W - 2 /\ MantBits \in Nat /\ W \in Nat
    BY FloatWidths, Widths
  <2>2. Infinity \in Words /\ Infinity < Sign /\ Infinity = Unit * (2 * BIAS + 1) /\ 2 * BIAS + 1 \in Int
    BY <1>1, FloatWidths DEF Words
  <2>3. Ones(Infinity) \subseteq 0 .. W - 2 /\ Ones(Infinity) \cap (0 .. MantBits - 1) = {}
    <3>1. Ones(Infinity) \subseteq 0 .. (W - 1) - 1
      BY <2>1, <2>2, Masks
    <3>2. Ones(Infinity) \cap (0 .. MantBits - 1) = {}
      BY <2>1, <2>2, Masks DEF Unit
    <3> QED
      BY <2>1, <3>1, <3>2
  <2>4. Fraction \in Words /\ Ones(Fraction) = 0 .. MantBits - 1 /\ TMax \in Words /\ Ones(TMax) = 0 .. W - 2
    BY <2>1, <1>1, FloatWidths, Masks DEF Unit
  <2>5. Infinity + Fraction = TMax
    BY <1>1, FloatWidths
  <2>6. Ones(TMax) = Ones(Infinity) \cup Ones(Fraction)
    <3>1. Ones(Infinity) \cap Ones(Fraction) = {}
      BY <2>3, <2>4
    <3>2. Ones(Infinity + Fraction) = Ones(Infinity) \cup Ones(Fraction)
      BY <3>1, <2>2, <2>4, DisjointSum
    <3> QED
      BY <3>2, <2>5
  <2> DEFINE z == uf & Infinity
  <2>7. z \in Words /\ Ones(z) = Ones(uf) \cap Ones(Infinity)
    BY Operators
  <2> HIDE DEF z
  <2>8. Ones(z) \cap Ones(m) = {} /\ Ones(z) \cup Ones(m) = Ones(mag)
    BY <2>3, <2>4, <2>6, <2>7, <1>5, <1>6
  <2>9. z + m \in Words /\ Ones(z + m) = Ones(mag)
    BY <2>7, <2>8, <1>6, DisjointSum
  <2>10. z + m = mag
    <3> DEFINE v == z + m
    <3>1. v \in Words /\ Ones(v) = Ones(mag)
      BY <2>9
    <3> HIDE DEF v
    <3>2. v = mag
      BY <3>1, <1>5, SameOnes
    <3> QED
      BY <3>2 DEF v
  <2>11. z \in Nat /\ Unit * e \in Int
    BY <2>7, <1>1, <1>3, WordsAre
  <2>12. z = Unit * e
    BY <2>10, <2>11, <1>3
  <2> QED
    BY <2>12 DEF z
<1>9. Exponent(uf) = e
  BY DEF Exponent, e, mag
<1>10. /\ Exponent(uf) \in 0 .. 2 * BIAS + 1 /\ uf & Infinity = Unit * Exponent(uf)
       /\ mag = Unit * Exponent(uf) + Mantissa(uf)
  BY <1>3, <1>4, <1>6, <1>8, <1>9
<1>11. Mantissa(uf) \in 0 .. Unit - 1 /\ uf & Fraction = Mantissa(uf)
  BY <1>3, <1>6
<1>12. mag = uf % Sign
  BY DEF mag
<1>13. /\ uf % Sign \in 0 .. Sign - 1 /\ uf = SignOf(uf) + (uf % Sign)
       /\ uf % Sign = Unit * Exponent(uf) + Mantissa(uf)
  BY <1>2, <1>10 DEF mag
<1>14. uf & TMax = uf % Sign
  BY <1>5, <1>12
<1> QED
  BY <1>7, <1>10, <1>11, <1>13, <1>14

(* And how they are put together. *)
LEMMA FloatJoined ==
  ASSUME NEW s \in {0, Sign}, NEW e \in 0 .. 2 * BIAS + 1, NEW m \in 0 .. Unit - 1
  PROVE  /\ Unit * e + m \in 0 .. Sign - 1
         /\ (s | (Unit * e)) \in Words /\ ((s | (Unit * e)) | m) = s + (Unit * e + m)
<1>1. /\ Sign \in Nat /\ Sign >= 128 /\ 2 ^ W = 2 * Sign /\ Unit \in Nat /\ Unit >= 2 /\ BIAS \in Nat
      /\ W - 1 \in 0 .. W /\ MantBits \in 0 .. W /\ Sign = 2 ^ (W - 1) /\ MantBits \in Nat
      /\ MantBits <= W - 2 /\ W \in Nat /\ Infinity = Sign - Unit /\ Infinity = Unit * (2 * BIAS + 1)
      /\ (W - 1) - 1 = W - 2
  BY Widths, FloatWidths
<1> DEFINE h == Unit * e
<1>2. h \in Nat /\ h <= Sign - Unit /\ e \in Int
  <2>1. Unit * e <= Unit * (2 * BIAS + 1) /\ Unit * e \in Nat /\ e \in Int
    BY <1>1
  <2> QED
    BY <2>1, <1>1
<1>3. h + m \in 0 .. Sign - 1 /\ m \in Nat
  <2> HIDE DEF h
  <2> QED
    BY <1>1, <1>2
<1>4. h \in Words /\ m \in Words /\ s \in Words
  <2> HIDE DEF h
  <2> QED
    BY <1>1, <1>2 DEF Words
<1>5. Ones(h) \cap (0 .. MantBits - 1) = {} /\ Ones(h) \subseteq 0 .. W - 2
  <2>1. Ones(h) \cap (0 .. MantBits - 1) = {}
    BY <1>1, <1>2, <1>4, Masks DEF Unit
  <2> HIDE DEF h
  <2>2. Ones(h) \subseteq 0 .. (W - 1) - 1
    BY <1>1, <1>2, <1>4, Masks
  <2> QED
    BY <2>1, <2>2, <1>1
<1>6. Ones(m) \subseteq 0 .. MantBits - 1
  <2>1. m < 2 ^ MantBits
    BY <1>1, <1>3 DEF Unit
  <2> QED
    BY <2>1, <1>1, <1>4, Masks
<1>7. Ones(s) \subseteq {W - 1}
  <2>1. W - 1 \in Positions
    BY <1>1 DEF Positions
  <2> QED
    BY <2>1, <1>1, SmallBits
<1> HIDE DEF h
<1>8. Ones(s) \cap Ones(h) = {}
  BY <1>1, <1>5, <1>7
<1>9. (s | h) = s + h /\ (s | h) \in Words /\ Ones(s + h) = Ones(s) \cup Ones(h)
  BY <1>4, <1>8, DisjointSum
<1> DEFINE t == s + h
<1>10. t \in Words /\ Ones(t) \cap Ones(m) = {}
  BY <1>1, <1>5, <1>6, <1>7, <1>9
<1> HIDE DEF t
<1>11. (t | m) = t + m
  BY <1>4, <1>10, DisjointSum
<1>12. t + m = s + (h + m)
  BY <1>1, <1>2, <1>3 DEF t
<1> QED
  BY <1>3, <1>9, <1>11, <1>12 DEF h, t

(* The value of a float's magnitude, by its fields; the exponent bounds it. *)
LEMMA ValueIs ==
  ASSUME NEW e \in Nat, NEW m \in 0 .. Unit - 1
  PROVE  /\ u2f(Unit * e + m) \in Nat /\ u2f(Unit * e + m) < Unit * 2 ^ e
         /\ e = 0 => u2f(Unit * e + m) = m
         /\ e # 0 => /\ u2f(Unit * e + m) = (Unit + m) * 2 ^ (e - 1)
                     /\ Unit * 2 ^ (e - 1) <= u2f(Unit * e + m)
<1> DEFINE v == Unit * e + m
<1>1. Unit \in Nat \ {0} /\ v \in Nat /\ 2 ^ 0 = 1
  BY FloatWidths
<1>2. v \div Unit = e /\ v % Unit = m
  <2>1. v \in Int /\ e \in Int /\ v = Unit * e + m
    BY <1>1
  <2> HIDE DEF v
  <2> QED
    BY ONLY <2>1, <1>1, m \in 0 .. Unit - 1, DivIs
<1>3. u2f(v) = IF e = 0 THEN m ELSE (Unit + m) * 2 ^ (e - 1)
  <2> HIDE DEF v
  <2> QED
    BY <1>2 DEF u2f, Unit
<1>4. CASE e = 0
  BY <1>1, <1>3, <1>4
<1>5. CASE e # 0
  <2> DEFINE d == e - 1
             p == 2 ^ d
  <2>1. d \in Nat /\ d + 1 = e
    BY <1>5
  <2>2. p \in Nat \ {0} /\ 2 ^ e = 2 * p
    <3> HIDE DEF d
    <3> QED
      BY <2>1, PowerPositive, PowerStep
  <2> HIDE DEF p
  <2>3. (Unit + m) * p \in Nat /\ (Unit + m) * p = Unit * p + m * p /\ m * p < Unit * p /\ m * p >= 0
        /\ Unit * (2 * p) = Unit * p + Unit * p /\ Unit * p \in Nat
    <3>1. (Unit + m) * p = Unit * p + m * p /\ Unit * (2 * p) = Unit * p + Unit * p
      BY <1>1, <2>2
    <3>2. m * p >= 0 /\ m * p \in Nat /\ Unit * p \in Nat
      BY <1>1, <2>2
    <3>3. m * p < Unit * p
      <4>1. (Unit - m) * p >= 1 * p /\ (Unit - m) * p = Unit * p - m * p
        BY <1>1, <2>2
      <4> QED
        BY <4>1, <3>2, <2>2
    <3> QED
      BY <3>1, <3>2, <3>3
  <2>4. u2f(v) = (Unit + m) * p
    BY <1>3, <1>5 DEF p
  <2>5. u2f(v) \in Nat /\ u2f(v) < Unit * 2 ^ e /\ Unit * p <= u2f(v)
    <3> DEFINE A == Unit * p
               B == m * p
    <3>1. (Unit + m) * p = A + B /\ B < A /\ B \in Nat /\ A \in Nat /\ Unit * 2 ^ e = A + A
      BY <2>2, <2>3, <1>1
    <3> HIDE DEF A, B, v
    <3> QED
      BY <3>1, <2>4 DEF A
  <2> QED
    BY <1>5, <2>4, <2>5 DEF p
<1> QED
  BY <1>4, <1>5

(* Every natural number has fields. *)
LEMMA Fields ==
  ASSUME NEW v \in Nat
  PROVE  /\ v \div Unit \in Nat /\ v % Unit \in 0 .. Unit - 1 /\ v = Unit * (v \div Unit) + (v % Unit)
         /\ v < Infinity => v \div Unit <= 2 * BIAS
<1>1. Unit \in Nat \ {0} /\ v \in Int /\ BIAS \in Nat /\ Infinity = Unit * (2 * BIAS + 1)
  BY FloatWidths
<1>2. v % Unit \in 0 .. Unit - 1 /\ v = Unit * (v \div Unit) + (v % Unit)
  BY ONLY <1>1, DivOf
<1>3. 2 * BIAS + 1 \in Nat
  BY <1>1
<1>4. v \div Unit \in Nat /\ (v < Unit * (2 * BIAS + 1) => v \div Unit < 2 * BIAS + 1)
  BY ONLY <1>1, <1>3, v \in Nat, DivBounds
<1> QED
  BY <1>1, <1>2, <1>4

(* Values grow with magnitudes. *)
LEMMA ValuesGrow ==
  ASSUME NEW a \in Nat, NEW b \in Nat, a < b
  PROVE  u2f(a) \in Nat /\ u2f(b) \in Nat /\ u2f(a) < u2f(b)
<1>1. PICK d \in Nat, m \in 0 .. Unit - 1 : a = Unit * d + m
  BY Fields
<1>2. PICK e \in Nat, n \in 0 .. Unit - 1 : b = Unit * e + n
  BY Fields
<1>3. Unit \in Nat /\ Unit >= 2
  BY FloatWidths
<1>4. /\ u2f(a) \in Nat /\ u2f(a) < Unit * 2 ^ d
      /\ d = 0 => u2f(a) = m
      /\ d # 0 => u2f(a) = (Unit + m) * 2 ^ (d - 1)
  BY <1>1, ValueIs
<1>5. /\ u2f(b) \in Nat
      /\ e = 0 => u2f(b) = n
      /\ e # 0 => u2f(b) = (Unit + n) * 2 ^ (e - 1) /\ Unit * 2 ^ (e - 1) <= u2f(b)
  BY <1>2, ValueIs
<1>6. d <= e
  <2> SUFFICES ASSUME d >= e + 1 PROVE FALSE
    OBVIOUS
  <2>1. Unit * d >= Unit * (e + 1) /\ Unit * (e + 1) = Unit * e + Unit
    BY <1>3
  <2> QED
    BY <2>1, <1>1, <1>2, <1>3
<1>7. CASE d = e
  <2>1. m < n
    BY <1>1, <1>2, <1>3, <1>7
  <2>2. CASE d = 0
    BY <2>1, <2>2, <1>4, <1>5, <1>7
  <2>3. CASE d # 0
    <3> DEFINE c == d - 1
               p == 2 ^ c
    <3>1. p \in Nat \ {0}
      <4>1. c \in Nat
        BY <2>3
      <4> HIDE DEF c
      <4> QED
        BY <4>1, PowerPositive
    <3>2. u2f(a) = (Unit + m) * p /\ u2f(b) = (Unit + n) * p
      BY <2>3, <1>4, <1>5, <1>7
    <3> HIDE DEF p
    <3>3. (Unit + n) * p = (Unit + m) * p + (n - m) * p /\ (n - m) * p >= 1 * p
      BY <3>1, <2>1, <1>3
    <3>4. (Unit + m) * p \in Nat /\ (n - m) * p \in Int
      BY <3>1, <1>3
    <3> QED
      BY <3>1, <3>2, <3>3, <3>4, <1>4, <1>5
  <2> QED
    BY <2>2, <2>3
<1>8. CASE d < e
  <2> DEFINE c == e - 1
             p == 2 ^ d
             q == 2 ^ c
  <2>1. c \in Nat /\ d <= c
    BY <1>8
  <2>2. p <= q /\ p \in Nat /\ q \in Nat
    <3> HIDE DEF c
    <3> QED
      BY <2>1, PowersGrow, PowerPositive
  <2>3. u2f(a) < Unit * p /\ Unit * q <= u2f(b)
    BY <1>4, <1>5, <1>8
  <2> HIDE DEF p, q
  <2>4. Unit * p <= Unit * q /\ Unit * p \in Nat /\ Unit * q \in Nat
    BY <2>2, <1>3
  <2> QED
    BY <2>3, <2>4, <1>4, <1>5
<1> QED
  BY <1>4, <1>5, <1>6, <1>7, <1>8

(* So a value gives its magnitude back. *)
LEMMA ValueBack ==
  ASSUME NEW a \in Nat, a < Infinity
  PROVE  f2u(u2f(a)) = a
<1> DEFINE top == Infinity - 1
<1>1. Infinity \in Nat /\ top \in Nat /\ a <= top /\ a \in 0 .. Infinity - 1
  BY FloatWidths
<1>2. u2f(a) \in Nat /\ u2f(top) \in Nat
  BY <1>1, ValuesGrow
<1>3. ~(u2f(a) > u2f(top))
  <2> HIDE DEF top
  <2>1. CASE a = top
    BY <2>1, <1>2
  <2>2. CASE a < top
    BY <2>2, <1>1, <1>2, ValuesGrow
  <2> QED
    BY <2>1, <2>2, <1>1
<1>4. ASSUME NEW b \in 0 .. Infinity - 1, u2f(b) = u2f(a) PROVE b = a
  <2>1. b \in Nat
    BY <1>1
  <2>2. b < a => u2f(b) < u2f(a)
    BY <2>1, ValuesGrow
  <2>3. a < b => u2f(a) < u2f(b)
    BY <2>1, ValuesGrow
  <2> QED
    BY <1>2, <1>4, <2>1, <2>2, <2>3
<1>5. (CHOOSE magnitude \in 0 .. Infinity - 1 : u2f(magnitude) = u2f(a)) = a
  BY <1>1, <1>4
<1> QED
  BY <1>3, <1>5 DEF f2u

(* floatScale2 agrees on all floats that it does not turn into a NaN       *)
(* (bits.c).                                                               *)
LEMMA FloatScale2Right ==
  ASSUME NEW uf \in Words, ~ScalesToNaN(uf)
  PROVE  floatScale2(uf) = test_floatScale2(uf)
<1> DEFINE mag == uf % Sign
           s == SignOf(uf)
           e == Exponent(uf)
           m == Mantissa(uf)
<1>1. /\ Unit \in Nat /\ Unit >= 2 /\ BIAS \in Nat /\ BIAS >= 1 /\ Sign \in Nat /\ Sign >= 128
      /\ Sign = Unit * (2 * (BIAS + 1)) /\ Infinity = Unit * (2 * BIAS + 1) /\ Infinity = Sign - Unit
      /\ Infinity \in Nat /\ Fraction = Unit - 1 /\ 2 ^ W = 2 * Sign
  BY FloatWidths, Widths
<1>2. /\ e \in 0 .. 2 * BIAS + 1 /\ m \in 0 .. Unit - 1 /\ mag = Unit * e + m /\ mag \in 0 .. Sign - 1
      /\ uf = s + mag /\ uf & Sign = s /\ uf & TMax = mag /\ uf & Fraction = m
      /\ uf & Infinity = Unit * e /\ s \in {0, Sign}
  BY FloatFields DEF SignOf
<1>3. floatScale2(uf) = CASE Unit * e = Infinity -> uf
                          [] Unit * e = 0 -> s | Left(mag, 1)
                          [] OTHER -> s | Word(Unit * e + Unit) | m
  BY <1>2 DEF floatScale2, Unit
<1>4. test_floatScale2(uf) = IF mag >= Infinity THEN uf ELSE uf - mag + f2u(2 * u2f(mag))
  BY DEF test_floatScale2
<1>5. ~(mag \in Infinity - Fraction .. Infinity - 1)
  BY DEF ScalesToNaN
<1> HIDE DEF mag, s, e, m
<1>6. uf - mag = s
  BY <1>1, <1>2
<1>7. /\ Unit * e = Infinity <=> e = 2 * BIAS + 1
      /\ Unit * e = 0 <=> e = 0
      /\ mag >= Infinity <=> e = 2 * BIAS + 1
  <2>1. e <= 2 * BIAS => Unit * e <= Unit * (2 * BIAS) /\ Unit * (2 * BIAS) = Infinity - Unit
    BY <1>1, <1>2
  <2>2. e >= 1 => Unit * e >= Unit * 1
    BY <1>1, <1>2
  <2>3. Unit * 0 = 0 /\ Unit * e \in Nat
    BY <1>1, <1>2
  <2> QED
    BY <2>1, <2>2, <2>3, <1>1, <1>2
<1>8. CASE e = 2 * BIAS + 1
  <2>1. Unit * e = Infinity /\ ~(Unit * e = 0) /\ mag >= Infinity
    BY <1>1, <1>7, <1>8
  <2>2. floatScale2(uf) = uf
    BY <1>3, <2>1
  <2> QED
    BY <1>4, <2>1, <2>2
<1>9. CASE e = 0
  <2> DEFINE v == 2 * m
  <2>1. mag = m /\ u2f(mag) = m /\ m < Unit
    <3>1. Unit * 0 + m = m /\ 0 \in Nat
      BY <1>1, <1>2
    <3>2. u2f(Unit * 0 + m) = m
      BY <1>2, ValueIs
    <3> QED
      BY <3>1, <3>2, <1>1, <1>2, <1>9
  <2>2. v \in Nat /\ v < 2 * Unit /\ v < Infinity /\ v < Sign
    <3>1. Unit * (2 * BIAS + 1) >= Unit * 3
      BY <1>1
    <3> QED
      BY <3>1, <2>1, <1>1, <1>2
  <2>3. u2f(v) = v
    <3>1. CASE v < Unit
      <4>1. v \in 0 .. Unit - 1 /\ Unit * 0 + v = v
        BY <2>2, <3>1, <1>1
      <4> HIDE DEF v
      <4>2. u2f(Unit * 0 + v) = v
        BY <4>1, ValueIs
      <4> QED
        BY <4>1, <4>2
    <3>2. CASE v >= Unit
      <4> DEFINE n == v - Unit
      <4>1. n \in 0 .. Unit - 1 /\ Unit * 1 + n = v /\ 2 ^ (1 - 1) = 1 /\ (Unit + n) * 1 = v
        BY <2>2, <3>2, <1>1
      <4> DEFINE o == 1
      <4> HIDE DEF v, n
      <4>2. u2f(Unit * 1 + n) = (Unit + n) * 2 ^ (1 - 1)
        <5>1. o \in Nat /\ o # 0
          OBVIOUS
        <5> HIDE DEF o
        <5>2. u2f(Unit * o + n) = (Unit + n) * 2 ^ (o - 1)
          BY <4>1, <5>1, ValueIs
        <5> QED
          BY <5>2 DEF o
      <4> QED
        BY <4>1, <4>2
    <3> QED
      BY <3>1, <3>2, <2>2, <1>1
  <2>4. f2u(v) = v
    <3> HIDE DEF v
    <3> QED
      BY <2>2, <2>3, ValueBack
  <2>5. Left(mag, 1) = v
    <3>1. mag * 2 ^ 1 = v /\ v \in Int /\ 0 <= v /\ v < 2 * Sign
      BY <2>1, <2>2, <1>1, <1>2
    <3> HIDE DEF v
    <3> QED
      BY <3>1, WordIs DEF Left
  <2>6. (s | v) = s + v
    <3>1. v \in Words /\ s \in Words
      BY <2>2, <1>1, <1>2 DEF Words
    <3>2. W - 1 \in 0 .. W /\ W - 1 \in Positions /\ v < 2 ^ (W - 1) /\ Sign = 2 ^ (W - 1) /\ W \in Nat
      BY <2>2, Widths DEF Positions
    <3> HIDE DEF v
    <3>3. Ones(v) \subseteq 0 .. (W - 1) - 1
      BY <3>1, <3>2, Masks
    <3>4. Ones(s) \subseteq {W - 1}
      BY <3>2, <1>2, SmallBits
    <3>5. Ones(s) \cap Ones(v) = {}
      BY <3>2, <3>3, <3>4
    <3> QED
      BY <3>1, <3>5, DisjointSum
  <2>7. ~(mag >= Infinity) /\ Unit * e = 0 /\ Unit * e # Infinity
    BY <1>1, <1>7, <1>9
  <2>8. floatScale2(uf) = s + v
    BY <1>3, <2>5, <2>6, <2>7
  <2>9. 2 * u2f(mag) = v
    BY <2>1
  <2> QED
    BY <1>4, <1>6, <2>4, <2>7, <2>8, <2>9
<1>10. CASE e \in 1 .. 2 * BIAS
  <2> DEFINE d == e - 1
             p == 2 ^ d
  <2>1. d \in Nat /\ d + 1 = e /\ e # 0 /\ e \in Nat /\ ~(mag >= Infinity) /\ Unit * e # Infinity
        /\ Unit * e # 0
    BY <1>1, <1>7, <1>10
  <2>2. p \in Nat \ {0} /\ 2 ^ e = 2 * p
    <3> HIDE DEF d
    <3> QED
      BY <2>1, PowerPositive, PowerStep
  <2>3. u2f(mag) = (Unit + m) * p
    BY <2>1, <1>2, ValueIs
  <2>4. Unit * e + Unit = Unit * (e + 1) /\ Unit * (e + 1) \in Nat /\ Unit * (e + 1) <= Infinity
    <3>1. Unit * (e + 1) <= Unit * (2 * BIAS + 1)
      BY <1>1, <1>10
    <3> QED
      BY <3>1, <1>1, <1>10
  <2>5. Word(Unit * e + Unit) = Unit * (e + 1)
    <3> DEFINE v == Unit * (e + 1)
    <3>1. v \in Int /\ 0 <= v /\ v < 2 * Sign
      BY <2>4, <1>1
    <3> HIDE DEF v
    <3>2. Word(v) = v
      BY <3>1, WordIs
    <3> QED
      BY <3>2, <2>4 DEF v
  <2> DEFINE f == e + 1
             v == Unit * f + m
  <2>6. f \in 0 .. 2 * BIAS + 1 /\ f \in Nat /\ f # 0 /\ f - 1 = e
    BY <1>1, <1>10
  <2>7. ((s | (Unit * f)) | m) = s + v
    <3> HIDE DEF f
    <3> QED
      BY <2>6, <1>2, FloatJoined
  <2>8. floatScale2(uf) = s + v
    BY <2>1, <2>5, <2>7, <1>3
  <2> HIDE DEF p, d
  <2>9. 2 * u2f(mag) = (Unit + m) * (2 * p)
    <3>1. 2 * ((Unit + m) * p) = (Unit + m) * (2 * p)
      BY <2>2, <1>1, <1>2
    <3> QED
      BY <3>1, <2>3
  <2>10. 2 * u2f(mag) = u2f(v)
    <3> HIDE DEF f
    <3>1. u2f(Unit * f + m) = (Unit + m) * 2 ^ (f - 1)
      BY <2>6, <1>2, ValueIs
    <3> QED
      BY <3>1, <2>2, <2>6, <2>9
  <2>11. CASE e < 2 * BIAS
    <3>1. v \in Nat /\ v < Infinity
      <4>1. Unit * f <= Unit * (2 * BIAS) /\ Unit * (2 * BIAS) = Infinity - Unit /\ Unit * f \in Nat
        BY <2>11, <2>6, <1>1
      <4> QED
        BY <4>1, <1>1, <1>2
    <3> HIDE DEF v
    <3>2. f2u(u2f(v)) = v
      BY <3>1, ValueBack
    <3> QED
      BY <3>2, <2>1, <2>8, <2>10, <1>4, <1>6
  <2>12. CASE e = 2 * BIAS
    <3>1. m = 0
      <4>1. mag = Infinity - Unit + m
        <5>1. Unit * (2 * BIAS) = Infinity - Unit
          BY <1>1
        <5> QED
          BY <5>1, <2>12, <1>2
      <4> QED
        BY <4>1, <1>1, <1>2, <1>5
    <3>2. v = Infinity
      BY <3>1, <2>12, <1>1
    <3>3. u2f(Infinity - 1) < u2f(Infinity) /\ u2f(Infinity - 1) \in Nat /\ u2f(Infinity) \in Nat
      <4> DEFINE t == Infinity - 1
                 o == Infinity
      <4>1. t \in Nat /\ o \in Nat /\ t < o
        <5>1. Unit * (2 * BIAS + 1) >= Unit * 1
          BY <1>1
        <5> QED
          BY <5>1, <1>1
      <4> HIDE DEF t, o
      <4>2. u2f(t) < u2f(o) /\ u2f(t) \in Nat /\ u2f(o) \in Nat
        BY <4>1, ValuesGrow
      <4> QED
        BY <4>2 DEF t, o
    <3> DEFINE w == 2 * u2f(mag)
    <3>4. w > u2f(Infinity - 1)
      BY <3>2, <3>3, <2>10
    <3>5. f2u(w) = Infinity
      <4> HIDE DEF w
      <4> QED
        BY <3>4 DEF f2u
    <3> HIDE DEF v
    <3> QED
      BY <3>2, <3>5, <2>1, <2>8, <1>4, <1>6
  <2> QED
    BY <2>11, <2>12, <1>1, <1>10
<1> QED
  BY <1>1, <1>2, <1>8, <1>9, <1>10

(* What floatFloat2Int does with the fields. *)
Shift(M, E) ==
    IF E >= BIAS + MantBits THEN Left(M, E - (BIAS + MantBits))
    ELSE RightUnsigned(M, BIAS + MantBits - E)
Cast(f, M, S, u, E) ==
    CASE f < BIAS * u -> 0
      [] f > (BIAS + W - 2) * u -> Sign
      [] OTHER -> IF S = 0 THEN Shift(M, E) ELSE Word(Complement(Shift(M, E)) + 1)

(* floatFloat2Int by the fields of its float. *)
LEMMA CastIs ==
  ASSUME NEW uf
  PROVE  floatFloat2Int(uf) = Cast(uf & Infinity, (uf & Fraction) | 2 ^ MantBits, uf & Sign,
                                   2 ^ MantBits, RightUnsigned(uf & Infinity, MantBits))
BY DEF floatFloat2Int, Shift, Cast

(* floatFloat2Int agrees on all floats (bits.c). *)
LEMMA FloatFloat2IntRight ==
  ASSUME NEW uf \in Words
  PROVE  floatFloat2Int(uf) = test_floatFloat2Int(uf)
<1> DEFINE mag == uf % Sign
           s == SignOf(uf)
           e == Exponent(uf)
           m == Mantissa(uf)
           t == -Smallest
           n == u2f(mag) \div 2 ^ t
           c == BIAS + MantBits
<1>1. /\ Unit \in Nat /\ Unit >= 2 /\ BIAS \in Nat /\ BIAS >= 1 /\ Sign \in Nat /\ Sign >= 128
      /\ Sign = Unit * (2 * (BIAS + 1)) /\ Infinity = Unit * (2 * BIAS + 1) /\ Infinity = Sign - Unit
      /\ Infinity \in Nat /\ Fraction = Unit - 1 /\ 2 ^ W = 2 * Sign /\ W <= BIAS + 2
      /\ MantBits \in Nat /\ MantBits >= 1 /\ W \in Nat /\ W >= 8 /\ TMax = Sign - 1
      /\ MantBits <= W - 2
  BY FloatWidths, Widths
<1>2. /\ e \in 0 .. 2 * BIAS + 1 /\ m \in 0 .. Unit - 1 /\ mag = Unit * e + m /\ mag \in 0 .. Sign - 1
      /\ uf = s + mag /\ uf & Sign = s /\ uf & Fraction = m
      /\ uf & Infinity = Unit * e /\ s \in {0, Sign} /\ (s = Sign <=> uf >= Sign)
  <2>1. s \in {0, Sign} /\ (s = Sign <=> uf >= Sign)
    BY <1>1 DEF SignOf
  <2> QED
    BY <2>1, FloatFields
<1>3. t \in Nat /\ t = BIAS - 1 + MantBits
  BY <1>1, FloatWidths
<1>4. test_floatFloat2Int(uf) =
         LET value == IF uf >= Sign THEN -n ELSE n
         IN  IF mag < Infinity /\ value \in -Sign .. TMax THEN Word(value) ELSE Sign
  BY DEF test_floatFloat2Int
<1> HIDE DEF mag, s, e, m, t
<1>5. (m | Unit) = Unit + m
  <2>1. MantBits \in Positions /\ MantBits \in 0 .. W /\ m \in Words /\ m \in Nat /\ m < 2 ^ MantBits
    BY <1>1, <1>2 DEF Positions, Words, Unit
  <2>2. Unit \in Words /\ Ones(Unit) = {MantBits} /\ Ones(m) \subseteq 0 .. MantBits - 1
    BY <2>1, SmallBits, Masks DEF Unit
  <2>3. Ones(m) \cap Ones(Unit) = {}
    BY <2>2, <1>1
  <2>4. (m | Unit) = m + Unit
    BY <2>1, <2>2, <2>3, DisjointSum
  <2> QED
    BY <2>1, <2>4, <1>1
<1>6. RightUnsigned(Unit * e, MantBits) = e
  <2> DEFINE v == Unit * e
  <2>1. v \in Int /\ e \in Int /\ v = Unit * e + 0 /\ 0 \in 0 .. Unit - 1 /\ Unit \in Nat \ {0}
    BY <1>1, <1>2
  <2> HIDE DEF v
  <2>2. v \div Unit = e
    BY ONLY <2>1, DivIs
  <2> QED
    BY <2>2 DEF RightUnsigned, Unit, v
<1> DEFINE magnitude == Shift(Unit + m, e)
<1>7. floatFloat2Int(uf) = CASE Unit * e < BIAS * Unit -> 0
                             [] Unit * e > (BIAS + W - 2) * Unit -> Sign
                             [] OTHER -> IF s = 0 THEN magnitude ELSE Word(Complement(magnitude) + 1)
  <2> DEFINE E1 == RightUnsigned(uf & Infinity, MantBits)
             M1 == (uf & Fraction) | 2 ^ MantBits
  <2>1. floatFloat2Int(uf) = Cast(uf & Infinity, M1, uf & Sign, 2 ^ MantBits, E1)
    BY CastIs
  <2>2. E1 = e /\ M1 = Unit + m /\ uf & Infinity = Unit * e /\ uf & Sign = s /\ 2 ^ MantBits = Unit
    BY <1>2, <1>5, <1>6 DEF Unit
  <2>3. Cast(Unit * e, Unit + m, s, Unit, e)
          = CASE Unit * e < BIAS * Unit -> 0
              [] Unit * e > (BIAS + W - 2) * Unit -> Sign
              [] OTHER -> IF s = 0 THEN magnitude ELSE Word(Complement(magnitude) + 1)
    BY DEF Cast
  <2> HIDE DEF E1, M1, magnitude
  <2>4. floatFloat2Int(uf) = Cast(Unit * e, Unit + m, s, Unit, e)
    BY <2>1, <2>2
  <2> QED
    BY <2>3, <2>4
<1>8. /\ Unit * e < BIAS * Unit <=> e < BIAS
      /\ Unit * e > (BIAS + W - 2) * Unit <=> e > BIAS + W - 2
  <2>1. ASSUME NEW j \in Int, NEW l \in Int, j < l PROVE Unit * j < Unit * l
    <3>1. Unit * (l - j) >= Unit * 1 /\ Unit * (l - j) = Unit * l - Unit * j /\ Unit * l \in Int
          /\ Unit * j \in Int
      BY <2>1, <1>1
    <3> QED
      BY <3>1, <1>1
  <2>2. /\ BIAS * Unit = Unit * BIAS /\ (BIAS + W - 2) * Unit = Unit * (BIAS + W - 2)
        /\ e \in Int /\ BIAS \in Int /\ BIAS + W - 2 \in Int
    BY <1>1, <1>2
  <2> DEFINE d == BIAS + W - 2
  <2>3. d \in Int
    BY <2>2
  <2> HIDE DEF d
  <2>4. (e < BIAS => Unit * e < Unit * BIAS) /\ (BIAS < e => Unit * BIAS < Unit * e)
        /\ (e < d => Unit * e < Unit * d) /\ (d < e => Unit * d < Unit * e)
    BY <2>1, <2>2, <2>3
  <2>5. Unit * e \in Int /\ Unit * BIAS \in Int /\ Unit * d \in Int
    BY <2>2, <2>3, <1>1
  <2>6. (Unit * e < Unit * BIAS <=> e < BIAS) /\ (Unit * e > Unit * d <=> e > d)
    BY <2>2, <2>3, <2>4, <2>5
  <2> QED
    BY <2>2, <2>6 DEF d
<1>9. e \in Nat /\ u2f(mag) \in Nat /\ u2f(mag) < Unit * 2 ^ e
      /\ (e # 0 => /\ u2f(mag) = (Unit + m) * 2 ^ (e - 1)
                   /\ Unit * 2 ^ (e - 1) <= u2f(mag))
  <2>1. e \in Nat
    BY <1>1, <1>2
  <2> QED
    BY <2>1, <1>2, ValueIs
<1>10. 2 ^ t \in Nat \ {0} /\ n \in Nat
  <2>1. 2 ^ t \in Nat \ {0} /\ 0 \in Nat
    BY <1>3, PowerPositive
  <2> DEFINE a == u2f(mag)
             b == 2 ^ t
  <2>2. a \in Nat /\ b \in Nat \ {0}
    BY <2>1, <1>9
  <2> HIDE DEF a, b
  <2>3. a \div b \in Nat
    BY ONLY <2>2, 0 \in Nat, DivBounds
  <2> QED
    BY <2>1, <2>3 DEF a, b
<1>11. \A j \in Nat : 2 ^ (MantBits + j) = Unit * 2 ^ j
  BY <1>1, PowerSum DEF Unit
<1>12. e <= 2 * BIAS => mag < Infinity
  <2>1. e <= 2 * BIAS => Unit * e <= Unit * (2 * BIAS) /\ Unit * (2 * BIAS) = Infinity - Unit
    BY <1>1, <1>2
  <2>2. Unit * e \in Nat
    BY <1>1, <1>2
  <2> QED
    BY <2>1, <2>2, <1>1, <1>2
<1> DEFINE a == u2f(mag)
           b == 2 ^ t
<1>13. CASE e < BIAS
  <2> DEFINE d == BIAS - 1
  <2>1. d \in Nat /\ e <= d /\ MantBits + d = t
    BY <1>1, <1>3, <1>9, <1>13
  <2>2. 2 ^ e <= 2 ^ d /\ 2 ^ e \in Nat /\ 2 ^ d \in Nat /\ b = Unit * 2 ^ d
    <3> HIDE DEF d
    <3> QED
      BY <2>1, <1>9, <1>11, PowersGrow, PowerPositive
  <2>3. Unit * 2 ^ e <= Unit * 2 ^ d /\ Unit * 2 ^ e \in Nat /\ Unit * 2 ^ d \in Nat
    <3> HIDE DEF d
    <3> DEFINE p == 2 ^ e
               q == 2 ^ d
    <3>1. p <= q /\ p \in Nat /\ q \in Nat
      BY <2>2
    <3> HIDE DEF p, q
    <3>2. Unit * p <= Unit * q /\ Unit * p \in Nat /\ Unit * q \in Nat
      BY <3>1, <1>1
    <3> QED
      BY <3>2 DEF p, q
  <2>4. a \in 0 .. b - 1
    BY <2>2, <2>3, <1>9
  <2>5. n = 0
    <3>1. a = b * 0 + a /\ a \in Int /\ b \in Nat \ {0}
      BY <2>4, <1>10
    <3> HIDE DEF a, b
    <3>2. a \div b = 0
      BY ONLY <3>1, <2>4, DivIs
    <3> QED
      BY <3>2 DEF a, b
  <2> HIDE DEF n
  <2>6. mag < Infinity /\ -n = 0 /\ n = 0 /\ 0 \in -Sign .. TMax /\ Word(0) = 0
    <3>1. e <= 2 * BIAS
      BY <1>1, <1>9, <1>13
    <3>2. Word(0) = 0
      BY <1>1, WordIs
    <3>3. 0 \in -Sign .. TMax
      BY <1>1
    <3>4. -n = 0 /\ n = 0
      <4> DEFINE v == -n
      <4>1. n <= 0 /\ n \in Nat
        BY <2>5, <1>10
      <4>2. v \in Int /\ v <= 0 /\ v >= 0
        BY ONLY <4>1
      <4> HIDE DEF v
      <4>3. v = 0
        BY ONLY <4>2
      <4> QED
        BY <2>5, <4>3 DEF v
    <3> QED
      BY <3>1, <3>2, <3>3, <3>4, <1>12
  <2>7. test_floatFloat2Int(uf) = 0
    BY <2>6, <1>4
  <2>8. floatFloat2Int(uf) = 0
    <3>1. Unit * e < BIAS * Unit /\ ~(Unit * e > (BIAS + W - 2) * Unit)
      BY <1>1, <1>8, <1>9, <1>13
    <3> HIDE DEF magnitude
    <3> QED
      BY <3>1, <1>7
  <2> QED
    BY <2>7, <2>8
<1>14. CASE e > BIAS + W - 2
  <2>1. floatFloat2Int(uf) = Sign
    <3>1. ~(Unit * e < BIAS * Unit) /\ Unit * e > (BIAS + W - 2) * Unit
      BY <1>1, <1>8, <1>9, <1>14
    <3> HIDE DEF magnitude
    <3> QED
      BY <3>1, <1>7
  <2>2. n >= Sign
    <3> DEFINE V == W - 1
               d == e - 1
    <3>1. t + V <= MantBits + d /\ V \in Nat /\ d \in Nat /\ e # 0 /\ t + V \in Nat /\ MantBits + d \in Nat
          /\ Sign = 2 ^ V
      BY <1>1, <1>3, <1>9, <1>14, Widths
    <3> HIDE DEF V, d
    <3>2. 2 ^ (t + V) = b * Sign /\ 2 ^ (MantBits + d) = Unit * 2 ^ d
      BY <3>1, <1>3, <1>11, PowerSum
    <3>3. 2 ^ (t + V) <= 2 ^ (MantBits + d) /\ 2 ^ (t + V) \in Nat /\ 2 ^ (MantBits + d) \in Nat
      BY <3>1, PowersGrow, PowerPositive
    <3>4. b * Sign <= a
      BY <3>1, <3>2, <3>3, <1>9 DEF d
    <3>5. a \in Nat /\ b \in Nat \ {0} /\ Sign \in Nat /\ a >= b * Sign
      BY <3>4, <1>1, <1>9, <1>10
    <3> HIDE DEF a, b
    <3>6. a \div b >= Sign
      BY ONLY <3>5, DivBounds
    <3> QED
      BY <3>6 DEF a, b
  <2> DEFINE value == IF uf >= Sign THEN -n ELSE n
  <2>3. value \in -Sign .. TMax => value = -Sign
    <3> HIDE DEF n
    <3> QED
      BY <2>2, <1>1, <1>10
  <2>4. Word(-Sign) = Sign
    <3>1. -Sign \in Int /\ -(2 * Sign) <= -Sign /\ -Sign < 0 /\ -Sign + 2 * Sign = Sign
      BY <1>1
    <3> DEFINE j == -Sign
    <3> HIDE DEF j
    <3>2. Word(j) = j + 2 * Sign
      BY <3>1, WordIs DEF j
    <3> QED
      BY <3>1, <3>2 DEF j
  <2>5. test_floatFloat2Int(uf) = Sign
    <3> HIDE DEF value
    <3>1. test_floatFloat2Int(uf) = IF mag < Infinity /\ value \in -Sign .. TMax THEN Word(value) ELSE Sign
      BY <1>4 DEF value
    <3> QED
      BY <3>1, <2>3, <2>4
  <2> QED
    BY <2>1, <2>5
<1>15. CASE e \in BIAS .. BIAS + W - 2
  <2> DEFINE M == Unit + m
             p == 2 ^ (e - 1)
  <2>0. e - 1 \in Nat /\ e # 0 /\ M \in Nat /\ M < 2 * Unit /\ M \in Int
    BY <1>1, <1>2, <1>15
  <2>1. p \in Nat \ {0} /\ a = M * p
    <3> DEFINE d == e - 1
    <3>1. d \in Nat
      BY <2>0
    <3> HIDE DEF d
    <3>2. 2 ^ d \in Nat \ {0}
      BY <3>1, PowerPositive
    <3> QED
      BY <3>2, <2>0, <1>9 DEF d
  <2>2. n = magnitude /\ n < Sign
    <3>1. CASE e >= c
      <4> DEFINE d == e - c
                 q == 2 ^ d
                 V == W - 1
                 f == e - 1
      <4>1. d \in Nat /\ t + d = f /\ f \in Nat /\ MantBits + (d + 1) <= V /\ V \in Nat /\ Sign = 2 ^ V
            /\ d + 1 \in Nat /\ MantBits + (d + 1) \in Nat
        BY <3>1, <2>0, <1>1, <1>3, <1>15, Widths
      <4> HIDE DEF d, V, f, c
      <4>2. q \in Nat \ {0} /\ 2 ^ f = b * q /\ 2 ^ (d + 1) = 2 * q
            /\ 2 ^ (MantBits + (d + 1)) = Unit * 2 ^ (d + 1)
        BY <4>1, <1>3, <1>11, PowerSum, PowerPositive, PowerStep
      <4>3. p = b * q
        BY <4>2 DEF f
      <4>4. 2 ^ (MantBits + (d + 1)) <= Sign
        BY <4>1, PowersGrow
      <4> HIDE DEF q, b, M, p, a
      <4>5. M * q < Sign /\ M * q \in Nat
        <5>1. M * q < (2 * Unit) * q
          <6>1. (2 * Unit - M) * q >= 1 * q /\ (2 * Unit - M) * q = (2 * Unit) * q - M * q
                /\ M * q \in Int /\ (2 * Unit) * q \in Int
            BY <4>2, <2>0, <1>1
          <6> QED
            BY <6>1, <4>2
        <5>2. (2 * Unit) * q = Unit * (2 * q) /\ Unit * (2 * q) <= Sign /\ Unit * (2 * q) \in Int
          BY <4>2, <4>4, <1>1
        <5>3. M * q \in Nat
          BY <4>2, <2>0
        <5> QED
          BY <5>1, <5>2, <5>3, <1>1
      <4>6. a \div b = M * q
        <5> DEFINE v == M * q
        <5>1. v \in Int /\ a = b * v + 0 /\ 0 \in 0 .. b - 1 /\ b \in Nat \ {0} /\ a \in Int
          <6>1. M * (b * q) = b * (M * q) /\ b * (M * q) \in Int
            BY <4>2, <2>0, <1>10 DEF b
          <6>2. b \in Nat \ {0}
            BY <1>10 DEF b
          <6> QED
            BY <6>1, <6>2, <4>3, <4>5, <2>1
        <5> HIDE DEF v
        <5>2. a \div b = v
          BY ONLY <5>1, DivIs
        <5> QED
          BY <5>2 DEF v
      <4>7. Left(M, d) = M * q
        <5> DEFINE v == M * q
        <5>1. v \in Int /\ 0 <= v /\ v < 2 * Sign
          BY <4>5, <1>1
        <5> HIDE DEF v
        <5>2. Word(v) = v
          BY <5>1, WordIs
        <5> QED
          BY <5>2 DEF v, Left, q
      <4>8. magnitude = Left(M, d)
        BY <3>1 DEF M, d, c, Shift
      <4> HIDE DEF magnitude
      <4>9. n = a \div b
        BY DEF a, b
      <4> HIDE DEF n
      <4> QED
        BY <4>5, <4>6, <4>7, <4>8, <4>9
    <3>2. CASE e < c
      <4> DEFINE d == c - e
                 q == 2 ^ d
                 f == e - 1
      <4>1. d \in Nat /\ d >= 1 /\ f + d = t /\ f \in Nat
        BY <3>2, <2>0, <1>1, <1>3, <1>15
      <4> HIDE DEF d, f, c
      <4>2. q \in Nat \ {0} /\ b = 2 ^ f * q /\ 2 ^ 1 = 2 /\ 2 ^ 1 <= q
        <5> DEFINE o == 1
        <5>1. o \in Nat /\ o <= d
          BY <4>1
        <5> HIDE DEF o
        <5>2. 2 ^ o <= 2 ^ d
          BY <4>1, <5>1, PowersGrow
        <5>3. 2 ^ (f + d) = 2 ^ f * 2 ^ d /\ 2 ^ d \in Nat \ {0}
          BY <4>1, PowerSum, PowerPositive
        <5> QED
          BY <4>1, <5>2, <5>3 DEF o
      <4>3. b = p * q
        BY <4>2 DEF f
      <4> HIDE DEF q, b, M, p, a
      <4>4. a \div b = M \div q
        <5>1. a = p * M + 0 /\ 0 \in 0 .. p - 1 /\ a \in Int
          <6>1. M * p = p * M /\ p * M \in Int
            BY <2>0, <2>1
          <6> QED
            BY <6>1, <2>1
        <5>2. a \div p = M
          BY ONLY <5>1, <2>0, <2>1, DivIs
        <5>3. (a \div p) \div q = a \div (p * q)
          BY ONLY <5>1, <2>1, <4>2, DivDiv
        <5> QED
          BY <5>2, <5>3, <4>3
      <4>5. M \div q < Sign
        <5>1. M < q * Sign
          <6>1. q * Sign >= 2 * Sign
            BY <4>2, <1>1
          <6>2. 2 * Unit <= Sign
            <7>1. Unit * (2 * (BIAS + 1)) >= Unit * 2
              BY <1>1
            <7> QED
              BY <7>1, <1>1
          <6>3. q * Sign \in Int
            BY <4>2, <1>1
          <6> QED
            BY <6>1, <6>2, <6>3, <2>0, <1>1
        <5> QED
          BY <5>1, <2>0, <4>2, <1>1, DivBounds
      <4>6. magnitude = M \div q
        <5>1. ~(e >= BIAS + MantBits)
          BY <3>2, <1>1, <1>9 DEF c
        <5>2. Shift(Unit + m, e) = RightUnsigned(Unit + m, BIAS + MantBits - e)
          BY <5>1 DEF Shift
        <5>3. BIAS + MantBits - e = d
          BY <1>1, <1>9 DEF d, c
        <5>4. magnitude = RightUnsigned(M, d)
          BY <5>2, <5>3 DEF M
        <5> QED
          BY <5>4 DEF q, RightUnsigned
      <4> HIDE DEF magnitude
      <4>7. n = a \div b
        BY DEF a, b
      <4> HIDE DEF n
      <4> QED
        BY <4>4, <4>5, <4>6, <4>7
    <3> QED
      BY <3>1, <3>2, <1>1, <1>9
  <2> HIDE DEF n, magnitude, a, b
  <2>3. floatFloat2Int(uf) = IF s = 0 THEN n ELSE Word(Complement(n) + 1)
    <3>1. ~(Unit * e < BIAS * Unit) /\ ~(Unit * e > (BIAS + W - 2) * Unit)
      BY <1>1, <1>8, <1>15
    <3> QED
      BY <3>1, <2>2, <1>7
  <2>4. mag < Infinity
    BY <1>1, <1>12, <1>15
  <2>5. CASE uf < Sign
    <3>1. s = 0 /\ ~(uf >= Sign)
      BY <2>5, <1>1, <1>2
    <3>2. n \in -Sign .. TMax /\ Word(n) = n
      BY <2>2, <1>1, <1>10, WordIs
    <3> QED
      BY <3>1, <3>2, <2>3, <2>4, <1>4
  <2>6. CASE uf >= Sign
    <3>1. s # 0
      BY <2>6, <1>1, <1>2
    <3>2. -n \in -Sign .. TMax
      BY <2>2, <1>1, <1>10
    <3>3. Word(Complement(n) + 1) = Word(-n)
      <4>1. Complement(n) + 1 = 2 * Sign - n /\ 2 * Sign - n \in Int /\ -n \in Int
        BY <1>1, <1>10 DEF Complement
      <4>2. CASE n = 0
        <5>1. Word(2 * Sign) = 0 /\ Word(0) = 0
          BY <1>1, WordIs
        <5> QED
          BY <5>1, <4>1, <4>2, <1>1
      <4>3. CASE n # 0
        <5> DEFINE j == -n
                   l == 2 * Sign - n
        <5>1. j \in Int /\ l \in Int /\ -(2 * Sign) <= j /\ j < 0 /\ j + 2 * Sign = l /\ 0 <= l /\ l < 2 * Sign
          BY <4>3, <2>2, <1>1, <1>10
        <5> HIDE DEF j, l
        <5>2. Word(j) = j + 2 * Sign /\ Word(l) = l
          BY <5>1, WordIs
        <5> QED
          BY <5>1, <5>2, <4>1 DEF j, l
      <4> QED
        BY <4>2, <4>3
    <3>4. test_floatFloat2Int(uf) = Word(-n)
      BY <2>4, <2>6, <3>2, <1>4
    <3> QED
      BY <3>1, <3>3, <3>4, <2>3
  <2>7. uf \in Int
    BY WordsAre
  <2> QED
    BY <2>5, <2>6, <2>7, <1>1
<1> QED
  BY <1>1, <1>9, <1>13, <1>14, <1>15

(* The exponents of the products of test_floatPower2 are those of exact    *)
(* arithmetic, cut off at both ends.                                       *)
Sat(v) == IF v > BIAS THEN Huge ELSE IF v < Smallest THEN -Huge ELSE v

(* No exponent in range is the one that stands for infinity. *)
LEMMA HugeIs ==
  /\ Huge \in Nat /\ BIAS \in Nat /\ BIAS >= 1 /\ Smallest \in Int /\ Smallest <= -1
  /\ Huge > 4 * BIAS /\ Huge > -(4 * Smallest)
<1>1. /\ Unit \in Nat /\ Unit >= 2 /\ BIAS \in Nat /\ BIAS >= 1 /\ Sign = Unit * (2 * (BIAS + 1)) /\ Sign \in Nat
      /\ W <= BIAS + 2 /\ MantBits \in Nat /\ MantBits <= W - 2 /\ W \in Nat
      /\ Smallest = -(BIAS - 1 + MantBits) /\ Smallest \in Int /\ Smallest <= -1
  BY FloatWidths
<1>2. 2 ^ (W + 1) = 2 * 2 ^ W /\ 2 ^ W = 2 * Sign
  BY <1>1, PowerStep, Widths
<1>3. Huge = 4 * Sign
  BY <1>1, <1>2 DEF Huge
<1>4. Unit * (2 * (BIAS + 1)) >= 2 * (2 * (BIAS + 1))
  BY <1>1
<1> QED
  BY <1>1, <1>3, <1>4

(* Product adds exponents that are kept within the range. *)
LEMMA SatProduct ==
  ASSUME NEW u \in Int, NEW v \in Int, (u >= 0 /\ v >= 0) \/ (u <= 0 /\ v <= 0)
  PROVE  Product(Sat(u), Sat(v)) = Sat(u + v) /\ Sat(u) \in Int
BY HugeIs DEF Product, Sat

(* The loop computes the power, kept within the range (tests.c). *)
LEMMA PowerLoopIs ==
  ASSUME NEW n \in 0 .. 2 ^ W - 1, NEW half \in {-1, 1}
  PROVE  PowerLoop(n, half) = Sat(half * n)
<1> DEFINE S == [x : Nat, result : Int, p2 : Int]
           first == [x |-> n, result |-> 0, p2 |-> half]
           Round(l) == IF l.x = 0 THEN l
                       ELSE [x |-> l.x \div 2, p2 |-> Product(l.p2, l.p2),
                             result |-> IF l.x % 2 = 1 THEN Product(l.result, l.p2) ELSE l.result]
           Rec(f) == f = [j \in 0 .. W |-> IF j = 0 THEN first ELSE Round(f[j - 1])]
           step == [j \in 1 .. W |-> [l \in S |-> Round(l)]]
<1>1. W \in Nat /\ W >= 8 /\ n \in Nat /\ half \in Int /\ first \in S
  BY Widths
<1>2. ASSUME NEW l \in S PROVE Round(l) \in S
  <2>1. \A a, b \in Int : Product(a, b) \in Int
    BY HugeIs DEF Product
  <2>2. l.x \div 2 \in Nat
    OBVIOUS
  <2>3. CASE l.x = 0
    BY <2>3
  <2>4. CASE l.x # 0
    <3> DEFINE p == Product(l.p2, l.p2)
               r == IF l.x % 2 = 1 THEN Product(l.result, l.p2) ELSE l.result
    <3>1. p \in Int /\ r \in Int
      BY <2>1
    <3> HIDE DEF p, r
    <3>2. [x |-> l.x \div 2, p2 |-> p, result |-> r] \in S
      BY <2>2, <3>1
    <3> QED
      BY <3>2, <2>4 DEF p, r
  <2> QED
    BY <2>3, <2>4
<1>3. PICK g \in [0 .. W -> S] : IsRun(g, W, first, step)
  <2>1. step \in [1 .. W -> [S -> S]]
    <3> HIDE DEF S, Round
    <3> QED
      BY <1>2
  <2> HIDE DEF step, S, first
  <2> QED
    BY ONLY <2>1, <1>1, LoopExists
<1>4. Rec(g)
  <2> HIDE DEF S, Round, first
  <2>1. ASSUME NEW j \in 0 .. W
        PROVE  g[j] = IF j = 0 THEN first ELSE Round(g[j - 1])
    <3>1. CASE j = 0
      BY <3>1, <1>3 DEF IsRun
    <3>2. CASE j # 0
      <4>1. j \in 1 .. W /\ j - 1 \in 0 .. W
        BY <3>2, <1>1
      <4> QED
        BY <4>1, <3>2, <1>3 DEF IsRun
    <3> QED
      BY <3>1, <3>2
  <2> QED
    BY <2>1
<1>5. \E f : Rec(f) /\ PowerLoop(n, half) = f[W].result
  <2> DEFINE f == CHOOSE f : Rec(f)
  <2>1. Rec(f)
    <3> HIDE DEF Rec
    <3> QED
      BY <1>4
  <2>2. PowerLoop(n, half) = f[W].result
    BY DEF PowerLoop
  <2> HIDE DEF Rec, f
  <2> QED
    BY <2>1, <2>2
<1>6. PICK f : Rec(f) /\ PowerLoop(n, half) = f[W].result
  <2> HIDE DEF Rec
  <2> QED
    BY <1>5
<1>7. f[0] = first /\ \A j \in 1 .. W : f[j] = Round(f[j - 1])
  <2> HIDE DEF Round, first
  <2>1. 0 \in 0 .. W /\ \A j \in 1 .. W : j \in 0 .. W /\ j # 0
    BY <1>1
  <2> QED
    BY <2>1, <1>6
<1> HIDE DEF Rec, step, S
<1> DEFINE Good(j) == LET l == f[j] IN
                      /\ l \in S /\ l.x < 2 ^ (W - j)
                      /\ \E R, P \in Nat : /\ l.result = Sat(half * R) /\ l.p2 = Sat(half * P)
                                           /\ R + l.x * P = n
           T == {j \in 0 .. W : Good(j)}
<1>8. 0 \in T
  <2>1. f[0] \in S /\ f[0].x = n /\ f[0].result = 0 /\ f[0].p2 = half
    BY <1>1, <1>7
  <2>2. W - 0 = W /\ n < 2 ^ W
    <3>1. 2 ^ W \in Nat
      BY Widths
    <3> QED
      BY <1>1, <3>1
  <2>3. Sat(half * 0) = 0 /\ Sat(half * 1) = half
    <3>1. half * 0 = 0 /\ half * 1 = half
      OBVIOUS
    <3>2. Sat(0) = 0 /\ Sat(half) = half
      BY HugeIs DEF Sat
    <3> QED
      BY <3>1, <3>2
  <2>4. 0 + n * 1 = n
    BY <1>1
  <2>5. Good(0)
    BY <2>1, <2>2, <2>3, <2>4
  <2> HIDE DEF Good
  <2> QED
    BY <2>5, <1>1
<1>9. ASSUME NEW j \in 0 .. W - 1, j \in T PROVE j + 1 \in T
  <2> DEFINE l == f[j]
             z == f[j + 1]
             d == W - (j + 1)
             b == 2 ^ d
  <2>1. j + 1 \in 1 .. W /\ (j + 1) - 1 = j /\ j + 1 \in 0 .. W /\ d \in Nat /\ d + 1 = W - j
    BY <1>1
  <2>2. z = Round(l) /\ l \in S /\ z \in S
    BY <2>1, <1>2, <1>7, <1>9
  <2>3. b \in Nat \ {0} /\ 2 ^ (W - j) = 2 * b
    <3> HIDE DEF d
    <3> QED
      BY <2>1, PowerPositive, PowerStep
  <2>4. l.x \in Nat /\ l.x < 2 * b
    BY <1>9, <2>2, <2>3 DEF S
  <2>5. PICK R \in Nat, P \in Nat : l.result = Sat(half * R) /\ l.p2 = Sat(half * P) /\ R + l.x * P = n
    BY <1>9
  <2> HIDE DEF l, z, b
  <2>6. CASE l.x = 0
    <3>1. z = l
      BY <2>2, <2>6
    <3>2. Good(j + 1)
      BY <3>1, <2>2, <2>3, <2>5, <2>6 DEF z, b
    <3> HIDE DEF Good
    <3> QED
      BY <2>1, <3>2
  <2>7. CASE l.x # 0
    <3> DEFINE y == l.x \div 2
               odd == l.x % 2
               R1 == IF odd = 1 THEN R + P ELSE R
    <3>1. y \in Nat /\ odd \in {0, 1} /\ l.x = 2 * y + odd /\ y < b
      BY <2>3, <2>4
    <3>2. /\ z.x = y /\ z.p2 = Product(l.p2, l.p2)
          /\ z.result = IF odd = 1 THEN Product(l.result, l.p2) ELSE l.result
      BY <2>2, <2>7
    <3> HIDE DEF y, odd
    <3>3. /\ half * R \in Int /\ half * P \in Int /\ half * (R + P) = half * R + half * P
          /\ half * (2 * P) = half * P + half * P
          /\ (half * R >= 0 /\ half * P >= 0) \/ (half * R <= 0 /\ half * P <= 0)
      BY <1>1
    <3>4. z.p2 = Sat(half * (2 * P))
      <4> DEFINE v == half * P
      <4>1. v \in Int /\ (v >= 0 \/ v <= 0)
        BY <3>3
      <4> HIDE DEF v
      <4>2. Product(Sat(v), Sat(v)) = Sat(v + v)
        BY <4>1, SatProduct
      <4> QED
        BY <4>2, <3>2, <3>3, <2>5 DEF v
    <3>5. z.result = Sat(half * R1)
      <4> DEFINE u == half * R
                 v == half * P
      <4>1. u \in Int /\ v \in Int /\ ((u >= 0 /\ v >= 0) \/ (u <= 0 /\ v <= 0))
        BY <3>3
      <4> HIDE DEF u, v
      <4>2. Product(Sat(u), Sat(v)) = Sat(u + v)
        BY <4>1, SatProduct
      <4> QED
        BY <4>2, <3>2, <3>3, <2>5 DEF u, v
    <3>6. R1 + y * (2 * P) = n /\ R1 \in Nat /\ 2 * P \in Nat
      <4>1. (2 * y + odd) * P = y * (2 * P) + odd * P /\ y * (2 * P) \in Nat
        BY <3>1
      <4>2. odd * P = IF odd = 1 THEN P ELSE 0
        BY <3>1
      <4> QED
        BY <4>1, <4>2, <3>1, <2>5
    <3> HIDE DEF R1
    <3>7. z.x < 2 ^ (W - (j + 1))
      BY <3>1, <3>2 DEF b
    <3>8. Good(j + 1)
      BY <3>2, <3>4, <3>5, <3>6, <3>7, <2>2 DEF z
    <3> HIDE DEF Good
    <3> QED
      BY <2>1, <3>8
  <2> QED
    BY <2>6, <2>7
<1>10. Good(W)
  <2> HIDE DEF T, Good
  <2>1. 0 .. W \subseteq T
    BY <1>1, <1>8, <1>9, UpTo
  <2>2. W \in T
    BY <2>1, <1>1
  <2> QED
    BY <2>2 DEF T
<1>11. f[W].x = 0
  <2>1. W - W = 0 /\ 2 ^ 0 = 1 /\ f[W] \in S
    BY <1>1, <1>10
  <2>2. f[W].x < 2 ^ (W - W)
    BY <1>10
  <2>3. f[W].x \in Nat
    BY <2>1 DEF S
  <2>4. 2 ^ (W - W) = 1
    BY <2>1
  <2> HIDE DEF Good
  <2> QED
    BY <2>2, <2>3, <2>4
<1>12. PICK R \in Nat, P \in Nat : f[W].result = Sat(half * R) /\ R + f[W].x * P = n
  BY <1>10
<1>13. R = n
  BY <1>11, <1>12, <1>1
<1> QED
  BY <1>6, <1>12, <1>13

(* floatPower2 agrees on all words (bits.c). *)
LEMMA FloatPower2Right == ASSUME NEW x \in Words PROVE floatPower2(x) = test_floatPower2(x)
<1> DEFINE n == Signed(x)
           e == IF n < 0 THEN PowerLoop(-n, -1) ELSE PowerLoop(n, 1)
<1>1. /\ Unit \in Nat /\ Unit >= 2 /\ BIAS \in Nat /\ BIAS >= 1 /\ Sign \in Nat /\ Sign >= 128
      /\ Sign = Unit * (2 * (BIAS + 1)) /\ Infinity = Unit * (2 * BIAS + 1) /\ Infinity = Sign - Unit
      /\ Infinity \in Nat /\ 2 ^ W = 2 * Sign /\ W <= BIAS + 2
      /\ MantBits \in Nat /\ MantBits >= 1 /\ W \in Nat /\ MantBits <= W - 2
      /\ Smallest = -(BIAS - 1 + MantBits) /\ Smallest \in Int /\ Smallest <= -1
      /\ x \in Nat /\ x < 2 * Sign
  BY FloatWidths, Widths, WordsAre
<1>2. n \in Int /\ -Sign <= n /\ n < Sign /\ (x = Sign <=> n = -Sign)
  BY <1>1 DEF Signed
<1>3. -Sign < Smallest
  <2>1. Unit * (2 * (BIAS + 1)) >= 2 * (2 * (BIAS + 1))
    BY <1>1
  <2> QED
    BY <2>1, <1>1
<1>4. floatPower2(x) = CASE n < Smallest -> 0
                         [] n \in Smallest .. -BIAS -> Left(1, n - Smallest)
                         [] n \in 1 - BIAS .. BIAS -> Left(n + BIAS, MantBits)
                         [] OTHER -> Infinity
  BY DEF floatPower2
<1>5. test_floatPower2(x) = CASE x = Sign -> 0
                              [] x # Sign /\ e = Huge -> Infinity
                              [] x # Sign /\ e = -Huge -> 0
                              [] OTHER -> f2u(2 ^ (e - Smallest))
  BY DEF test_floatPower2
<1> HIDE DEF n
<1>6. e = Sat(n)
  <2>1. CASE n < 0
    <3> DEFINE a == -n
               h == -1
    <3>1. a \in 0 .. 2 ^ W - 1 /\ h \in {-1, 1} /\ h * a = n
      BY <2>1, <1>1, <1>2
    <3> HIDE DEF a, h
    <3>2. PowerLoop(a, h) = Sat(h * a)
      BY <3>1, PowerLoopIs
    <3>3. e = PowerLoop(a, h)
      BY <2>1 DEF a, h
    <3> QED
      BY <3>1, <3>2, <3>3
  <2>2. CASE n >= 0
    <3> DEFINE h == 1
    <3>1. n \in 0 .. 2 ^ W - 1 /\ h \in {-1, 1} /\ h * n = n
      BY <2>2, <1>1, <1>2
    <3>2. ~(n < 0)
      BY <2>2, <1>2
    <3>3. e = PowerLoop(n, h)
      BY <3>2
    <3> HIDE DEF h
    <3>4. PowerLoop(n, h) = Sat(h * n)
      BY <3>1, PowerLoopIs
    <3> QED
      BY <3>1, <3>3, <3>4
  <2> QED
    BY <2>1, <2>2, <1>2
<1> HIDE DEF e
<1>7. CASE n < Smallest
  <2>1. e = -Huge /\ e # Huge
    BY <1>1, <1>2, <1>6, <1>7, HugeIs DEF Sat
  <2>2. test_floatPower2(x) = 0
    BY <1>5, <2>1
  <2>3. ~(n \in Smallest .. -BIAS) /\ ~(n \in 1 - BIAS .. BIAS)
    BY <1>1, <1>2, <1>7
  <2>4. floatPower2(x) = 0
    BY <1>4, <1>7, <2>3
  <2> QED
    BY <2>2, <2>4
<1>8. CASE n > BIAS
  <2>1. e = Huge /\ e # -Huge /\ x # Sign
    BY <1>1, <1>2, <1>6, <1>8, HugeIs DEF Sat
  <2>2. test_floatPower2(x) = Infinity
    BY <1>5, <2>1
  <2>3. ~(n < Smallest) /\ ~(n \in Smallest .. -BIAS) /\ ~(n \in 1 - BIAS .. BIAS)
    BY <1>1, <1>2, <1>8
  <2>4. floatPower2(x) = Infinity
    BY <1>4, <2>3
  <2> QED
    BY <2>2, <2>4
<1>9. ASSUME n \in Smallest .. BIAS
      PROVE  test_floatPower2(x) = f2u(2 ^ (n - Smallest)) /\ ~(n < Smallest)
  <2>1. e = n /\ e # Huge /\ e # -Huge /\ x # Sign /\ ~(n < Smallest)
    BY <1>1, <1>2, <1>3, <1>6, <1>9, HugeIs DEF Sat
  <2> QED
    BY <1>5, <2>1
<1>10. CASE n \in Smallest .. -BIAS
  <2> DEFINE d == n - Smallest
             v == 2 ^ d
  <2>1. d \in Nat /\ d < MantBits /\ n \in Smallest .. BIAS /\ ~(n \in 1 - BIAS .. BIAS)
    BY <1>1, <1>2, <1>10
  <2>2. v \in Nat /\ v < Unit
    <3> HIDE DEF d
    <3>1. 2 * 2 ^ d <= 2 ^ MantBits /\ 2 ^ d \in Nat \ {0}
      BY <2>1, <1>1, PowersGrow, PowerPositive
    <3> QED
      BY <3>1, <1>1 DEF Unit
  <2>3. f2u(v) = v
    <3> HIDE DEF v
    <3> DEFINE o == 0
    <3>1. v \in 0 .. Unit - 1 /\ Unit * o + v = v /\ o \in Nat /\ o = 0
      BY <2>2, <1>1
    <3> HIDE DEF o
    <3>2. u2f(Unit * o + v) = v
      BY <3>1, ValueIs
    <3>3. v < Infinity
      <4>1. Unit * (2 * BIAS + 1) >= Unit * 1
        BY <1>1
      <4> QED
        BY <4>1, <2>2, <1>1
    <3>4. f2u(u2f(v)) = v
      BY <2>2, <3>3, ValueBack
    <3> QED
      BY <3>1, <3>2, <3>4
  <2>4. Left(1, d) = v
    <3>1. 1 * 2 ^ d = v
      BY <2>2
    <3>2. Word(v) = v
      <4>1. v \in Int /\ 0 <= v /\ v < 2 * Sign
        <5>1. Unit * (2 * (BIAS + 1)) >= Unit * 1
          BY <1>1
        <5> QED
          BY <5>1, <2>2, <1>1
      <4> HIDE DEF v
      <4> QED
        BY <4>1, WordIs
    <3> QED
      BY <3>1, <3>2 DEF Left
  <2>5. test_floatPower2(x) = v /\ ~(n < Smallest)
    BY <2>1, <2>3, <1>9
  <2>6. floatPower2(x) = Left(1, d)
    BY <1>4, <1>10, <2>1, <2>5
  <2> QED
    BY <2>4, <2>5, <2>6
<1>11. CASE n \in 1 - BIAS .. BIAS
  <2> DEFINE c == n + BIAS
             d == n - Smallest
             v == Unit * c
  <2>1. /\ c \in Nat /\ c >= 1 /\ c <= 2 * BIAS /\ d \in Nat /\ d = MantBits + (c - 1) /\ c - 1 \in Nat
        /\ n \in Smallest .. BIAS /\ ~(n \in Smallest .. -BIAS)
    BY <1>1, <1>2, <1>11
  <2>2. v \in Nat /\ v <= Infinity - Unit
    <3>1. Unit * c <= Unit * (2 * BIAS) /\ Unit * (2 * BIAS) = Infinity - Unit /\ Unit * c \in Nat
      BY <2>1, <1>1
    <3> QED
      BY <3>1
  <2>3. u2f(v) = 2 ^ d
    <3> DEFINE g == c - 1
               o == 0
    <3>1. c # 0 /\ o \in 0 .. Unit - 1 /\ Unit * c + o = v /\ (Unit + o) = Unit /\ g \in Nat /\ d = MantBits + g
      BY <2>1, <2>2, <1>1
    <3> HIDE DEF c, o, v, d
    <3>2. u2f(Unit * c + o) = (Unit + o) * 2 ^ (c - 1)
      BY <3>1, <2>1, ValueIs
    <3>3. 2 ^ (MantBits + g) = Unit * 2 ^ g
      <4> HIDE DEF g
      <4> QED
        BY <3>1, <1>1, PowerSum DEF Unit
    <3> QED
      BY <3>1, <3>2, <3>3
  <2>4. f2u(2 ^ d) = v
    <3> HIDE DEF v, d
    <3>1. f2u(u2f(v)) = v
      BY <2>2, <1>1, ValueBack
    <3> QED
      BY <2>3, <3>1
  <2>5. Left(c, MantBits) = v
    <3>1. c * 2 ^ MantBits = v
      <4>1. c * Unit = Unit * c
        BY <2>1, <1>1
      <4> QED
        BY <4>1 DEF Unit
    <3>2. Word(v) = v
      <4>1. v \in Int /\ 0 <= v /\ v < 2 * Sign
        BY <2>2, <1>1
      <4> HIDE DEF v
      <4> QED
        BY <4>1, WordIs
    <3> QED
      BY <3>1, <3>2 DEF Left
  <2>6. test_floatPower2(x) = v /\ ~(n < Smallest)
    BY <2>1, <2>4, <1>9
  <2>7. floatPower2(x) = Left(c, MantBits)
    BY <1>4, <1>11, <2>1, <2>6
  <2> QED
    BY <2>5, <2>6, <2>7
<1> QED
  BY <1>1, <1>2, <1>7, <1>8, <1>10, <1>11
-----------------------------------------------------------------------------
(* 8. The harness.                                                         *)

(* The types, the bounds and what a test that runs says of its function. *)
Command == [fname : STRING, rating : Nat, timeout_limit : Int,
            opts : Seq([arg : 1 .. 3, text : Texts])]
Running == phase = "test" => i \in 1 .. Len(test_set) /\ Selected(i)
Typed ==
    /\ cmd \in Command
    /\ has_arg \in [1 .. 3 -> BOOLEAN] /\ argval \in [1 .. 3 -> Words]
    /\ phase \in {"options", "next", "test", "done", "bad argument", "lost"}
    /\ i \in 1 .. Len(test_set) + 1
    /\ alarmed \in BOOLEAN /\ timeouts \in 0 .. MaxTimeouts
    /\ Running

(* The table of the functions (decl.c). *)
LEMMA Rows ==
  /\ test_set[1] = Puzzle("bitXor", 2, 1, FALSE)
  /\ test_set[2] = Puzzle("tmin", 0, 1, FALSE)
  /\ test_set[3] = Puzzle("isTmax", 1, 1, FALSE)
  /\ test_set[4] = Puzzle("allOddBits", 1, 2, FALSE)
  /\ test_set[5] = Puzzle("negate", 1, 2, FALSE)
  /\ test_set[6] = Puzzle("isAsciiDigit", 1, 3, FALSE)
  /\ test_set[7] = Puzzle("conditional", 3, 3, FALSE)
  /\ test_set[8] = Puzzle("isLessOrEqual", 2, 3, FALSE)
  /\ test_set[9] = Puzzle("logicalNeg", 1, 4, FALSE)
  /\ test_set[10] = Puzzle("howManyBits", 1, 4, FALSE)
  /\ test_set[11] = Puzzle("floatScale2", 1, 4, TRUE)
  /\ test_set[12] = Puzzle("floatFloat2Int", 1, 4, TRUE)
  /\ test_set[13] = Puzzle("floatPower2", 1, 4, TRUE)
  BY DEF test_set

(* The fields of an entry of the table. *)
LEMMA Row ==
  ASSUME NEW name, NEW args, NEW rating, NEW isfloat
  PROVE  LET p == Puzzle(name, args, rating, isfloat) IN
         p.name = name /\ p.args = args /\ p.rating = rating /\ p.isfloat = isfloat
  BY DEF Puzzle

(* The table has thirteen functions, and only those of one argument take   *)
(* floats.                                                                 *)
LEMMA Table ==
  /\ Len(test_set) = 13 /\ DOMAIN test_set = 1 .. 13
  /\ \A j \in 1 .. 13 : /\ test_set[j].rating \in Nat \ {0} /\ test_set[j].args \in 0 .. 3
                        /\ test_set[j].isfloat \in BOOLEAN
                        /\ test_set[j].isfloat => test_set[j].args = 1
<1>1. Len(test_set) = 13
  BY DEF test_set
<1>2. DOMAIN test_set = 1 .. 13
  BY DEF test_set
<1> DEFINE Good(p) == /\ p.rating \in Nat \ {0} /\ p.args \in 0 .. 3
                      /\ p.isfloat \in BOOLEAN
                      /\ p.isfloat => p.args = 1
<1>3. Good(Puzzle("bitXor", 2, 1, FALSE))
  BY DEF Puzzle
<1>4. Good(Puzzle("tmin", 0, 1, FALSE))
  BY DEF Puzzle
<1>5. Good(Puzzle("isTmax", 1, 1, FALSE))
  BY DEF Puzzle
<1>6. Good(Puzzle("allOddBits", 1, 2, FALSE))
  BY DEF Puzzle
<1>7. Good(Puzzle("negate", 1, 2, FALSE))
  BY DEF Puzzle
<1>8. Good(Puzzle("isAsciiDigit", 1, 3, FALSE))
  BY DEF Puzzle
<1>9. Good(Puzzle("conditional", 3, 3, FALSE))
  BY DEF Puzzle
<1>10. Good(Puzzle("isLessOrEqual", 2, 3, FALSE))
  BY DEF Puzzle
<1>11. Good(Puzzle("logicalNeg", 1, 4, FALSE))
  BY DEF Puzzle
<1>12. Good(Puzzle("howManyBits", 1, 4, FALSE))
  BY DEF Puzzle
<1>13. Good(Puzzle("floatScale2", 1, 4, TRUE))
  BY DEF Puzzle
<1>14. Good(Puzzle("floatFloat2Int", 1, 4, TRUE))
  BY DEF Puzzle
<1>15. Good(Puzzle("floatPower2", 1, 4, TRUE))
  BY DEF Puzzle
<1> HIDE DEF Good
<1>17. /\ Good(test_set[1])
       /\ Good(test_set[2])
       /\ Good(test_set[3])
       /\ Good(test_set[4])
       /\ Good(test_set[5])
       /\ Good(test_set[6])
       /\ Good(test_set[7])
       /\ Good(test_set[8])
       /\ Good(test_set[9])
       /\ Good(test_set[10])
       /\ Good(test_set[11])
       /\ Good(test_set[12])
       /\ Good(test_set[13])
  BY <1>3, <1>4, <1>5, <1>6, <1>7, <1>8, <1>9, <1>10, <1>11, <1>12, <1>13, <1>14, <1>15, Rows
<1>20. ASSUME NEW j \in 1 .. 13 PROVE Good(test_set[j])
  BY <1>17
<1> QED
  BY <1>1, <1>2, <1>20 DEF Good

(* A number that is taken is a word. *)
LEMMA WordOf == ASSUME NEW n \in Int PROVE Word(n) \in Words
  BY Widths DEF Word, Words

(* What get_num_val returns for a number is a word, or what was there. *)
LEMMA TakenIsWord ==
  ASSUME NEW text \in Texts, NEW old \in Words
  PROVE  get_num_val(text, old)[1] \in BOOLEAN /\ get_num_val(text, old)[2] \in Words
<1>1. CASE text.isfloat
  <2>1. text.number \in Words
    BY <1>1 DEF Texts
  <2>2. CASE text.rest
    BY <2>1, <2>2, <1>1 DEF get_num_val
  <2>3. CASE ~text.rest
    BY <2>1, <2>3, <1>1 DEF get_num_val
  <2> QED
    BY <2>2, <2>3
<1>2. CASE ~text.isfloat
  <2>1. text.number \in Int
    BY <1>2 DEF Texts
  <2>2. Word(text.number) \in Words
    BY <2>1, WordOf
  <2> QED
    BY <2>2, <1>2 DEF get_num_val
<1> QED
  BY <1>1, <1>2

(* The typed state: first the command line, then the rest. *)
LEMMA TypedSteps == Typed /\ [Next]_vars => Typed'
<1> SUFFICES ASSUME Typed, [Next]_vars PROVE Typed'
  OBVIOUS
<1>L. Len(test_set) = 13
  BY Table
<1>0. cmd \in Command /\ has_arg \in [1 .. 3 -> BOOLEAN] /\ argval \in [1 .. 3 -> Words]
  BY DEF Typed
<1>A. alarmed \in BOOLEAN
  BY DEF Typed
<1>I. i \in 1 .. 14 /\ (phase = "test" => i \in 1 .. 13)
  <2>1. i \in 1 .. Len(test_set) + 1
    BY DEF Typed
  <2>2. phase = "test" => i \in 1 .. Len(test_set)
    BY DEF Typed, Running
  <2> QED
    BY <1>L, <2>1, <2>2
<1>S. phase = "test" => Selected(i)
  BY DEF Typed, Running
<1>P. phase \in {"options", "next", "test", "done", "bad argument", "lost"}
  BY DEF Typed
<1>M. timeouts \in 0 .. MaxTimeouts
  BY DEF Typed
<1>T. SUFFICES
      /\ (cmd' \in Command /\ has_arg' \in [1 .. 3 -> BOOLEAN] /\ argval' \in [1 .. 3 -> Words])
      /\ phase' \in {"options", "next", "test", "done", "bad argument", "lost"}
      /\ (i' \in 1 .. 14 /\ (phase' = "test" => i' \in 1 .. 13))
      /\ (phase' = "test" => Selected(i)')
      /\ alarmed' \in BOOLEAN
      /\ timeouts' \in 0 .. MaxTimeouts
  <2>1. i' \in 1 .. 14 /\ (phase' = "test" => i' \in 1 .. 13)
    BY <1>T
  <2>2. i' \in 1 .. Len(test_set) + 1 /\ (phase' = "test" => i' \in 1 .. Len(test_set))
    <3> DEFINE len == Len(test_set)
    <3>1. len = 13
      BY <1>L
    <3> HIDE DEF len
    <3>2. len + 1 = 14
      BY ONLY <3>1
    <3>3. i' \in 1 .. len + 1
      BY <2>1, <3>2
    <3>4. phase' = "test" => i' \in 1 .. len
      BY <2>1, <3>1
    <3> QED
      BY <3>3, <3>4 DEF len
  <2>3. Running'
    BY <1>T, <2>2 DEF Running
  <2> QED
    BY <1>T, <2>2, <2>3 DEF Typed
<1>1. CASE ParseOption
  <2> DEFINE opt == Head(cmd.opts)
             got == get_num_val(opt.text, argval[opt.arg])
             S == [arg : 1 .. 3, text : Texts]
             opts == cmd.opts
  <2>1. opts \in Seq(S) /\ opts # <<>> /\ cmd' = [cmd EXCEPT !.opts = Tail(opts)]
    BY <1>0, <1>1 DEF ParseOption, Command
  <2>2. opt \in S /\ Tail(opts) \in Seq(S)
    <3> HIDE DEF S, opts
    <3>1. Head(opts) \in S /\ Tail(opts) \in Seq(S)
      BY ONLY <2>1
    <3> QED
      BY <3>1 DEF opts
  <2>3. cmd' \in Command
    BY <1>0, <2>1, <2>2 DEF Command
  <2>4. got[1] \in BOOLEAN /\ got[2] \in Words
    BY <1>0, <2>2, TakenIsWord
  <2>5. /\ has_arg' = [has_arg EXCEPT ![opt.arg] = got[1]]
        /\ argval' = [argval EXCEPT ![opt.arg] = got[2]]
        /\ phase' = (IF got[1] THEN "options" ELSE "bad argument")
        /\ UNCHANGED <<i, alarmed, timeouts>>
    BY <1>1 DEF ParseOption
  <2> HIDE DEF opt, got
  <2>6. has_arg' \in [1 .. 3 -> BOOLEAN] /\ argval' \in [1 .. 3 -> Words]
    BY <1>0, <2>4, <2>5
  <2>7. phase' \in {"options", "bad argument"}
    BY <2>4, <2>5
  <2> QED
    BY <1>0, <1>A, <1>I, <1>S, <1>P, <1>M, <2>3, <2>5, <2>6, <2>7
<1>2. CASE EndOptions
  BY <1>0, <1>A, <1>I, <1>M, <1>2 DEF EndOptions
<1>3. CASE SkipFunction
  <2>1. /\ UNCHANGED <<cmd, has_arg, argval, phase, alarmed, timeouts>>
        /\ phase = "next" /\ i <= 13 /\ i' = i + 1
    BY <1>3, Table DEF SkipFunction
  <2> QED
    BY <1>0, <1>A, <1>I, <1>S, <1>P, <1>M, <2>1
<1>4. CASE EnterTest
  <2>1. /\ UNCHANGED <<cmd, has_arg, argval, i, timeouts>>
        /\ phase' = "test" /\ i <= 13 /\ Selected(i)
        /\ alarmed' = (alarmed \/ cmd.timeout_limit > 0)
    BY <1>4, Table DEF EnterTest, Selected
  <2>2. Selected(i)'
    BY <2>1 DEF Selected
  <2>3. alarmed' \in BOOLEAN
    BY <1>A, <2>1
  <2> QED
    BY <1>0, <1>I, <1>M, <2>1, <2>2, <2>3
<1>5. CASE TestOne
  <2>1. UNCHANGED <<cmd, has_arg, argval, alarmed, timeouts>> /\ phase = "test"
    BY <1>5 DEF TestOne
  <2>2. \/ i' = i + 1 /\ phase' = "next"
        \/ i' = i /\ phase' = phase
    BY <1>5 DEF TestOne, Return
  <2>3. Selected(i) /\ i' = i => Selected(i)'
    BY <2>1 DEF Selected
  <2>4. i' \in 1 .. 14 /\ (phase' = "test" => i' \in 1 .. 13)
    BY <1>I, <2>1, <2>2
  <2>5. phase' \in {"next", "test"} /\ (phase' = "test" => Selected(i)')
    BY <1>S, <2>1, <2>2, <2>3
  <2> QED
    BY <1>0, <1>A, <1>M, <2>1, <2>4, <2>5
<1>6. CASE Ring
  <2>1. /\ UNCHANGED <<cmd, has_arg, argval>> /\ alarmed' = FALSE /\ timeouts' = timeouts + 1
        /\ timeouts < MaxTimeouts
    BY <1>6 DEF Ring
  <2>2. \/ phase = "test" /\ i' = i + 1 /\ phase' = "next"
        \/ i' = i /\ phase' = "lost"
    BY <1>6 DEF Ring, Return
  <2>3. timeouts' \in 0 .. MaxTimeouts
    <3>1. MaxTimeouts \in Nat
      BY BtestAssumption
    <3> QED
      BY <1>M, <2>1, <3>1
  <2>4. i' \in 1 .. 14 /\ phase' \in {"next", "lost"}
    BY <1>I, <2>2
  <2> QED
    BY <1>0, <2>1, <2>3, <2>4
<1>7. CASE Finish
  BY <1>0, <1>A, <1>I, <1>M, <1>7 DEF Finish
<1>8. CASE UNCHANGED vars
  <2>1. UNCHANGED <<cmd, has_arg, argval, phase, i, alarmed, timeouts>>
    BY <1>8 DEF vars
  <2>2. Selected(i) => Selected(i)'
    BY <2>1 DEF Selected
  <2> QED
    BY <1>0, <1>A, <1>I, <1>S, <1>P, <1>M, <2>1, <2>2
<1> QED
  BY <1>1, <1>2, <1>3, <1>4, <1>5, <1>6, <1>7, <1>8 DEF Next

(* The initial state is typed. *)
LEMMA TypedStarts == Init => Typed
<1> SUFFICES ASSUME Init PROVE Typed
  OBVIOUS
<1>1. cmd \in Command
  BY BtestAssumption DEF Init, Command
<1>2. has_arg \in [1 .. 3 -> BOOLEAN] /\ argval \in [1 .. 3 -> Words]
  <2>1. 0 \in Words
    BY Widths DEF Words
  <2> QED
    BY <2>1 DEF Init
<1>3. 0 \in 0 .. MaxTimeouts
  <2>1. MaxTimeouts \in Nat
    BY BtestAssumption
  <2> QED
    BY <2>1
<1>4. phase = "options" /\ i = 1 /\ alarmed = FALSE /\ timeouts = 0
  BY DEF Init
<1>5. Len(test_set) = 13
  BY Table
<1>6. i \in 1 .. Len(test_set) + 1
  BY <1>4, <1>5
<1>7. Running
  BY <1>4 DEF Running
<1> QED
  BY <1>1, <1>2, <1>3, <1>4, <1>6, <1>7 DEF Typed

(* The state is always typed. *)
LEMMA AlwaysTyped == Spec => []Typed
  BY TypedStarts, TypedSteps, PTL DEF Spec

(* Call calls the puzzle that it names (btest.c). *)
LEMMA Calls ==
  ASSUME NEW x
  PROVE  /\ Call("bitXor", x) = <<bitXor(x[1], x[2]), test_bitXor(x[1], x[2])>>
         /\ Call("tmin", x) = <<tmin, test_tmin>>
         /\ Call("isTmax", x) = <<isTmax(x[1]), test_isTmax(x[1])>>
         /\ Call("allOddBits", x) = <<allOddBits(x[1]), test_allOddBits(x[1])>>
         /\ Call("negate", x) = <<negate(x[1]), test_negate(x[1])>>
         /\ Call("isAsciiDigit", x) = <<isAsciiDigit(x[1]), test_isAsciiDigit(x[1])>>
         /\ Call("conditional", x) = <<conditional(x[1], x[2], x[3]), test_conditional(x[1], x[2], x[3])>>
         /\ Call("isLessOrEqual", x) = <<isLessOrEqual(x[1], x[2]), test_isLessOrEqual(x[1], x[2])>>
         /\ Call("logicalNeg", x) = <<logicalNeg(x[1]), test_logicalNeg(x[1])>>
         /\ Call("howManyBits", x) = <<howManyBits(x[1]), test_howManyBits(x[1])>>
         /\ Call("floatScale2", x) = <<floatScale2(x[1]), test_floatScale2(x[1])>>
         /\ Call("floatFloat2Int", x) = <<floatFloat2Int(x[1]), test_floatFloat2Int(x[1])>>
         /\ Call("floatPower2", x) = <<floatPower2(x[1]), test_floatPower2(x[1])>>
  BY DEF Call

(* What PuzzlesRight says of the function with a name and a number of arguments. *)
Right1(name) == \A x \in Words : Agrees(name, <<x>>) \/ (name = "floatScale2" /\ ScalesToNaN(x))
Right2(name) == \A x, y \in Words : Agrees(name, <<x, y>>)
Right3(name) == \A x \in Words, y, z \in Corners : Agrees(name, <<x, y, z>>)
AllRight(name, args) ==
    CASE args = 0 -> Agrees(name, <<>>)
      [] args = 1 -> Right1(name)
      [] args = 2 -> Right2(name)
      [] args = 3 -> Right3(name)

(* The corner values are words. *)
LEMMA CornersAreWords == Corners \subseteq Words
  BY Widths DEF Corners, Words

(* Each function of the table is right. *)
LEMMA RowsRight ==
  /\ AllRight("bitXor", 2)
  /\ AllRight("tmin", 0)
  /\ AllRight("isTmax", 1)
  /\ AllRight("allOddBits", 1)
  /\ AllRight("negate", 1)
  /\ AllRight("isAsciiDigit", 1)
  /\ AllRight("conditional", 3)
  /\ AllRight("isLessOrEqual", 2)
  /\ AllRight("logicalNeg", 1)
  /\ AllRight("howManyBits", 1)
  /\ AllRight("floatScale2", 1)
  /\ AllRight("floatFloat2Int", 1)
  /\ AllRight("floatPower2", 1)
<1>1. Right2("bitXor")
  <2>1. ASSUME NEW x \in Words, NEW y \in Words PROVE Agrees("bitXor", <<x, y>>)
    <3> DEFINE t == <<x, y>>
    <3>1. t[1] = x /\ t[2] = y
      OBVIOUS
    <3> HIDE DEF t
    <3>2. Call("bitXor", t) = <<bitXor(x, y), test_bitXor(x, y)>>
      BY ONLY <3>1, Calls
    <3>3. bitXor(x, y) = test_bitXor(x, y)
      BY BitXorRight
    <3> QED
      BY <3>2, <3>3 DEF Agrees, t
  <2> QED
    BY <2>1 DEF Right2
<1>2. AllRight("tmin", 0)
  BY TminRight, Calls DEF AllRight, Agrees
<1>3. Right1("isTmax")
  <2>1. ASSUME NEW x \in Words PROVE Agrees("isTmax", <<x>>)
    BY IsTmaxRight, Calls DEF Agrees
  <2> QED
    BY <2>1 DEF Right1
<1>4. Right1("allOddBits")
  <2>1. ASSUME NEW x \in Words PROVE Agrees("allOddBits", <<x>>)
    BY AllOddBitsRight, Calls DEF Agrees
  <2> QED
    BY <2>1 DEF Right1
<1>5. Right1("negate")
  <2>1. ASSUME NEW x \in Words PROVE Agrees("negate", <<x>>)
    BY NegateRight, Calls DEF Agrees
  <2> QED
    BY <2>1 DEF Right1
<1>6. Right1("isAsciiDigit")
  <2>1. ASSUME NEW x \in Words PROVE Agrees("isAsciiDigit", <<x>>)
    BY IsAsciiDigitRight, Calls DEF Agrees
  <2> QED
    BY <2>1 DEF Right1
<1>7. Right3("conditional")
  <2>1. ASSUME NEW x \in Words, NEW y \in Words, NEW z \in Words PROVE Agrees("conditional", <<x, y, z>>)
    <3> DEFINE t == <<x, y, z>>
    <3>1. t[1] = x /\ t[2] = y /\ t[3] = z
      OBVIOUS
    <3> HIDE DEF t
    <3>2. Call("conditional", t) = <<conditional(x, y, z), test_conditional(x, y, z)>>
      BY ONLY <3>1, Calls
    <3>3. conditional(x, y, z) = test_conditional(x, y, z)
      BY ConditionalRight
    <3> QED
      BY <3>2, <3>3 DEF Agrees, t
  <2> QED
    BY <2>1, CornersAreWords DEF Right3
<1>8. Right2("isLessOrEqual")
  <2>1. ASSUME NEW x \in Words, NEW y \in Words PROVE Agrees("isLessOrEqual", <<x, y>>)
    <3> DEFINE t == <<x, y>>
    <3>1. t[1] = x /\ t[2] = y
      OBVIOUS
    <3> HIDE DEF t
    <3>2. Call("isLessOrEqual", t) = <<isLessOrEqual(x, y), test_isLessOrEqual(x, y)>>
      BY ONLY <3>1, Calls
    <3>3. isLessOrEqual(x, y) = test_isLessOrEqual(x, y)
      BY IsLessOrEqualRight
    <3> QED
      BY <3>2, <3>3 DEF Agrees, t
  <2> QED
    BY <2>1 DEF Right2
<1>9. Right1("logicalNeg")
  <2>1. ASSUME NEW x \in Words PROVE Agrees("logicalNeg", <<x>>)
    BY LogicalNegRight, Calls DEF Agrees
  <2> QED
    BY <2>1 DEF Right1
<1>10. Right1("howManyBits")
  <2>1. ASSUME NEW x \in Words PROVE Agrees("howManyBits", <<x>>)
    BY HowManyBitsRight, Calls DEF Agrees
  <2> QED
    BY <2>1 DEF Right1
<1>11. Right1("floatScale2")
  <2>1. ASSUME NEW x \in Words, ~ScalesToNaN(x) PROVE Agrees("floatScale2", <<x>>)
    BY <2>1, FloatScale2Right, Calls DEF Agrees
  <2> QED
    BY <2>1 DEF Right1
<1>12. Right1("floatFloat2Int")
  <2>1. ASSUME NEW x \in Words PROVE Agrees("floatFloat2Int", <<x>>)
    BY FloatFloat2IntRight, Calls DEF Agrees
  <2> QED
    BY <2>1 DEF Right1
<1>13. Right1("floatPower2")
  <2>1. ASSUME NEW x \in Words PROVE Agrees("floatPower2", <<x>>)
    BY FloatPower2Right, Calls DEF Agrees
  <2> QED
    BY <2>1 DEF Right1
<1>20. ASSUME NEW name
       PROVE  /\ Right1(name) => AllRight(name, 1)
              /\ Right2(name) => AllRight(name, 2)
              /\ Right3(name) => AllRight(name, 3)
  BY DEF AllRight
<1> QED
  BY <1>1, <1>2, <1>3, <1>4, <1>5, <1>6, <1>7, <1>8, <1>9, <1>10, <1>11, <1>12, <1>13, <1>20

(* Every puzzle agrees with its test function on every word, on every pair *)
(* of words, or on every word with pairs of corner values; floatScale2 not *)
(* on the largest floats, which it turns into NaNs (bits.c, tests.c).      *)
THEOREM EveryPuzzleIsRight == Spec => []PuzzlesRight
<1>1. ASSUME NEW j \in 1 .. 13 PROVE AllRight(test_set[j].name, test_set[j].args)
  <2> DEFINE Good(p) == AllRight(p.name, p.args)
  <2>1. ASSUME NEW name, NEW args, NEW rating, NEW isfloat, AllRight(name, args)
        PROVE  Good(Puzzle(name, args, rating, isfloat))
    BY <2>1, Row
  <2>2. Good(test_set[1])
    BY <2>1, RowsRight, Rows
  <2>3. Good(test_set[2])
    BY <2>1, RowsRight, Rows
  <2>4. Good(test_set[3])
    BY <2>1, RowsRight, Rows
  <2>5. Good(test_set[4])
    BY <2>1, RowsRight, Rows
  <2>6. Good(test_set[5])
    BY <2>1, RowsRight, Rows
  <2>7. Good(test_set[6])
    BY <2>1, RowsRight, Rows
  <2>8. Good(test_set[7])
    BY <2>1, RowsRight, Rows
  <2>9. Good(test_set[8])
    BY <2>1, RowsRight, Rows
  <2>10. Good(test_set[9])
    BY <2>1, RowsRight, Rows
  <2>11. Good(test_set[10])
    BY <2>1, RowsRight, Rows
  <2>12. Good(test_set[11])
    BY <2>1, RowsRight, Rows
  <2>13. Good(test_set[12])
    BY <2>1, RowsRight, Rows
  <2>14. Good(test_set[13])
    BY <2>1, RowsRight, Rows
  <2> HIDE DEF Good
  <2>20. Good(test_set[j])
    BY <2>2, <2>3, <2>4, <2>5, <2>6, <2>7, <2>8, <2>9, <2>10, <2>11, <2>12, <2>13, <2>14
  <2> QED
    BY <2>20 DEF Good
<1>2. Typed => PuzzlesRight
  <2> SUFFICES ASSUME Typed, phase = "test" PROVE AllRight(test_set[i].name, test_set[i].args)
    BY DEF PuzzlesRight, AllRight, Right1, Right2, Right3
  <2>1. i \in 1 .. 13
    BY Table DEF Typed, Running
  <2> QED
    BY <1>1, <2>1
<1> QED
  BY <1>2, AlwaysTyped, PTL
-----------------------------------------------------------------------------
(* 9. The values that are generated.                                       *)

(* Products grow with their factor. *)
LEMMA Products ==
  ASSUME NEW m \in Nat, NEW a \in Nat, NEW b \in Nat
  PROVE  m * a \in Nat /\ (a <= b => m * a <= m * b) /\ m * (a + 1) = m * a + m
<1>1. m * a \in Nat /\ m * (a + 1) = m * a + m
  OBVIOUS
<1>2. ASSUME a <= b PROVE m * a <= m * b
  <2>1. b - a \in Nat /\ b = a + (b - a)
    BY <1>2
  <2>2. m * (a + (b - a)) = m * a + m * (b - a) /\ m * (b - a) \in Nat
    BY <2>1
  <2> QED
    BY <2>1, <2>2
<1> QED
  BY <1>1, <1>2

(* Where the elements of two joined sequences are. *)
LEMMA Joined ==
  ASSUME NEW S, NEW s \in Seq(S), NEW t \in Seq(S)
  PROVE  /\ s \o t \in Seq(S) /\ Len(s \o t) = Len(s) + Len(t)
         /\ Len(s) \in Nat /\ Len(t) \in Nat
         /\ \A n \in 1 .. Len(s) : (s \o t)[n] = s[n]
         /\ \A n \in 1 .. Len(t) : (s \o t)[Len(s) + n] = t[n]
<1>1. s \o t \in Seq(S) /\ Len(s \o t) = Len(s) + Len(t) /\ Len(s) \in Nat /\ Len(t) \in Nat
  OBVIOUS
<1>2. ASSUME NEW n \in 1 .. Len(s) PROVE (s \o t)[n] = s[n]
  OBVIOUS
<1>3. ASSUME NEW n \in 1 .. Len(t) PROVE (s \o t)[Len(s) + n] = t[n]
  OBVIOUS
<1> QED
  BY <1>1, <1>2, <1>3

(* Pieces of one length, one after the other. *)
Piece(s, m, q, t) == \A r \in 1 .. m : s[m * q + r] = t[r]

(* Where the elements of the pieces of a flattened sequence are. *)
LEMMA FlattenIs ==
  ASSUME NEW S, NEW n \in Nat \ {0}, NEW m \in Nat, NEW seqs \in [1 .. n -> Seq(S)],
         \A q \in 1 .. n : Len(seqs[q]) = m
  PROVE  /\ FlattenSeq(seqs) \in Seq(S) /\ Len(FlattenSeq(seqs)) = m * n
         /\ \A q \in 0 .. n - 1 : Piece(FlattenSeq(seqs), m, q, seqs[q + 1])
<1> DEFINE Rec(f) == f = [q \in 1 .. n |-> IF q = 1 THEN seqs[q] ELSE f[q - 1] \o seqs[q]]
           step == [q \in 1 .. n |-> [s \in Seq(S) |-> s \o seqs[q]]]
<1>1. Len(seqs) = n
  OBVIOUS
<1>2. PICK g \in [0 .. n -> Seq(S)] : IsRun(g, n, <<>>, step)
  <2>1. step \in [1 .. n -> [Seq(S) -> Seq(S)]]
    BY Joined
  <2> HIDE DEF step
  <2>2. <<>> \in Seq(S)
    OBVIOUS
  <2> QED
    BY <2>1, <2>2, LoopExists
<1>3. \E f : Rec(f)
  <2> DEFINE f == [q \in 1 .. n |-> g[q]]
  <2>1. ASSUME NEW q \in 1 .. n PROVE f[q] = IF q = 1 THEN seqs[q] ELSE f[q - 1] \o seqs[q]
    <3>1. g[q] = g[q - 1] \o seqs[q]
      <4>1. g[q] = step[q][g[q - 1]]
        BY <1>2 DEF IsRun
      <4>2. q - 1 \in 0 .. n
        OBVIOUS
      <4> QED
        BY <4>1, <4>2
    <3>2. g[0] = <<>>
      BY <1>2 DEF IsRun
    <3>3. q = 1 => g[q] = seqs[q]
      <4>1. seqs[q] \in Seq(S)
        OBVIOUS
      <4>2. <<>> \o seqs[q] = seqs[q]
        BY <4>1
      <4>3. q = 1 => g[q - 1] = g[0]
        OBVIOUS
      <4> HIDE DEF step, Rec
      <4> QED
        BY ONLY <3>1, <3>2, <4>2, <4>3
    <3>4. q # 1 => q - 1 \in 1 .. n
      OBVIOUS
    <3> QED
      BY <3>1, <3>3, <3>4
  <2>2. Rec(f)
    BY <2>1
  <2> HIDE DEF Rec, f
  <2> QED
    BY <2>2
<1> DEFINE h == CHOOSE f : Rec(f)
<1>4. FlattenSeq(seqs) = h[n]
  BY <1>1 DEF FlattenSeq
<1>5. Rec(h)
  <2> HIDE DEF Rec
  <2> QED
    BY <1>3
<1> HIDE DEF h
<1>6. \A q \in 1 .. n : h[q] = IF q = 1 THEN seqs[q] ELSE h[q - 1] \o seqs[q]
  BY <1>5
<1> DEFINE Good(q) == /\ h[q] \in Seq(S) /\ Len(h[q]) = m * q
                      /\ \A p \in 0 .. q - 1 : Piece(h[q], m, p, seqs[p + 1])
           T == {q \in 0 .. n : q # 0 => Good(q)}
<1>7. 0 \in T
  OBVIOUS
<1>8. ASSUME NEW q \in 0 .. n - 1, q \in T PROVE q + 1 \in T
  <2>0. q + 1 \in 1 .. n /\ seqs[q + 1] \in Seq(S) /\ Len(seqs[q + 1]) = m
    OBVIOUS
  <2>1. CASE q = 0
    <3>1. h[1] = seqs[1]
      BY <1>6
    <3>2. m * 1 = m /\ m * 0 = 0
      OBVIOUS
    <3>3. \A r \in 1 .. m : m * 0 + r = r
      OBVIOUS
    <3>4. Piece(h[1], m, 0, seqs[1])
      BY <3>1, <3>3 DEF Piece
    <3>5. \A p \in 0 .. (q + 1) - 1 : p = 0
      BY <2>1
    <3>6. Good(q + 1)
      BY <2>0, <2>1, <3>1, <3>2, <3>4, <3>5
    <3> QED
      BY <2>0, <3>6
  <2>2. CASE q # 0
    <3> DEFINE s == h[q]
               t == seqs[q + 1]
    <3>1. s \in Seq(S) /\ Len(s) = m * q /\ \A p \in 0 .. q - 1 : Piece(s, m, p, seqs[p + 1])
      BY <1>8, <2>2
    <3>2. h[q + 1] = s \o t
      <4>1. q + 1 # 1 /\ (q + 1) - 1 = q
        BY <2>2
      <4> QED
        BY <1>6, <2>0, <4>1
    <3>3. t \in Seq(S) /\ Len(t) = m
      BY <2>0
    <3> HIDE DEF s, t
    <3>4. /\ s \o t \in Seq(S) /\ Len(s \o t) = m * q + m
          /\ \A r \in 1 .. m * q : (s \o t)[r] = s[r]
          /\ \A r \in 1 .. m : (s \o t)[m * q + r] = t[r]
      <4> DEFINE u == m * q
      <4>1. Len(s) = u /\ Len(t) = m
        BY <3>1, <3>3
      <4> HIDE DEF u
      <4>2. /\ s \o t \in Seq(S) /\ Len(s \o t) = u + m
            /\ \A r \in 1 .. u : (s \o t)[r] = s[r]
            /\ \A r \in 1 .. m : (s \o t)[u + r] = t[r]
        <5>1. s \in Seq(S) /\ t \in Seq(S)
          BY <3>1, <3>3
        <5>2. /\ s \o t \in Seq(S) /\ Len(s \o t) = Len(s) + Len(t)
              /\ \A r \in 1 .. Len(s) : (s \o t)[r] = s[r]
              /\ \A r \in 1 .. Len(t) : (s \o t)[Len(s) + r] = t[r]
          BY ONLY <5>1, Joined
        <5> QED
          BY ONLY <5>2, <4>1
      <4> QED
        BY <4>2 DEF u
    <3>5. m * (q + 1) = m * q + m
      BY Products
    <3>6. ASSUME NEW p \in 0 .. q, p # q PROVE Piece(s \o t, m, p, seqs[p + 1])
      <4>1. p \in 0 .. q - 1 /\ p + 1 \in Nat /\ q \in Nat /\ p + 1 <= q /\ p \in Nat
        BY <3>6
      <4>2. m * (p + 1) = m * p + m /\ m * (p + 1) <= m * q /\ m * p \in Nat /\ m * q \in Nat
        BY <4>1, Products
      <4>3. ASSUME NEW r \in 1 .. m PROVE m * p + r \in 1 .. m * q
        <5> DEFINE u == m * p
                   v == m * q
        <5>1. u + m <= v /\ u \in Nat /\ v \in Nat
          BY <4>2
        <5> HIDE DEF u, v
        <5>2. u + r \in 1 .. v
          BY ONLY <5>1, m \in Nat, r \in 1 .. m
        <5> QED
          BY <5>2 DEF u, v
      <4> QED
        BY <3>1, <3>4, <4>1, <4>3 DEF Piece
    <3>7. Piece(s \o t, m, q, t)
      BY <3>4 DEF Piece
    <3>8. \A p \in 0 .. (q + 1) - 1 : Piece(s \o t, m, p, seqs[p + 1])
      <4>1. \A p \in 0 .. (q + 1) - 1 : p \in 0 .. q
        OBVIOUS
      <4> QED
        BY <3>6, <3>7, <4>1 DEF t
    <3>9. Good(q + 1)
      BY <3>2, <3>4, <3>5, <3>8
    <3> HIDE DEF Good
    <3> QED
      BY <2>0, <3>9
  <2> QED
    BY <2>1, <2>2
<1> HIDE DEF T
<1>9. 0 .. n \subseteq T
  BY <1>7, <1>8, UpTo
<1>10. Good(n)
  <2>1. n \in T /\ n # 0
    BY <1>9
  <2> QED
    BY <2>1 DEF T
<1> QED
  BY <1>4, <1>10
(* The same for sequences of integers. *)
LEMMA JoinedInts ==
  ASSUME NEW s \in Seq(Int), NEW t \in Seq(Int)
  PROVE  /\ s \o t \in Seq(Int) /\ Len(s \o t) = Len(s) + Len(t)
         /\ Len(s) \in Nat /\ Len(t) \in Nat
         /\ \A n \in 1 .. Len(s) : (s \o t)[n] = s[n]
         /\ \A n \in 1 .. Len(t) : (s \o t)[Len(s) + n] = t[n]
<1> DEFINE S == Int
<1> HIDE DEF S
<1>1. s \in Seq(S) /\ t \in Seq(S)
  BY DEF S
<1>2. /\ s \o t \in Seq(S) /\ Len(s \o t) = Len(s) + Len(t)
      /\ Len(s) \in Nat /\ Len(t) \in Nat
      /\ \A n \in 1 .. Len(s) : (s \o t)[n] = s[n]
      /\ \A n \in 1 .. Len(t) : (s \o t)[Len(s) + n] = t[n]
  BY ONLY <1>1, Joined
<1> QED
  BY <1>2 DEF S

(* The magnitudes, and then the same with the sign. *)
LEMMA SignsAre ==
  ASSUME NEW mags \in Seq(Int)
  PROVE  /\ BothSigns(mags) \in Seq(Int) /\ Len(BothSigns(mags)) = 2 * Len(mags)
         /\ \A n \in 1 .. Len(mags) : /\ BothSigns(mags)[n] = mags[n]
                                      /\ BothSigns(mags)[Len(mags) + n] = Sign + mags[n]
<1> DEFINE l == Len(mags)
           neg == [j \in DOMAIN mags |-> Sign + mags[j]]
<1>1. l \in Nat /\ DOMAIN mags = 1 .. l /\ mags \in [1 .. l -> Int] /\ l = Len(mags)
  OBVIOUS
<1>2. neg \in [1 .. l -> Int] /\ \A n \in 1 .. l : neg[n] = Sign + mags[n]
  BY <1>1, Widths
<1>3. BothSigns(mags) = mags \o neg
  BY DEF BothSigns
<1> HIDE DEF l, neg
<1>4. neg \in Seq(Int) /\ Len(neg) = l
  BY ONLY <1>1, <1>2
<1>5. /\ mags \o neg \in Seq(Int) /\ Len(mags \o neg) = Len(mags) + Len(neg)
      /\ \A n \in 1 .. Len(mags) : (mags \o neg)[n] = mags[n]
      /\ \A n \in 1 .. Len(neg) : (mags \o neg)[Len(mags) + n] = neg[n]
  BY ONLY mags \in Seq(Int), <1>4, JoinedInts
<1>6. l + l = 2 * l
  BY <1>1
<1> QED
  BY <1>1, <1>2, <1>3, <1>4, <1>5, <1>6

(* The values around the boundaries of the floats, and those at the end. *)
OneFloat == BIAS * 2 ^ MantBits
Around(d) == BothSigns(<<d, Unit + d, Unit - d, OneFloat + d, OneFloat - d,
                         Infinity - Unit - d>>)
Specials == BothSigns(<<Infinity, Infinity + 2 ^ (MantBits - 1)>>)
Rounds(tr) == Lesser(tr, 2 ^ MantBits)

(* The constants of gen_vals are integers. *)
LEMMA FloatBounds ==
  Unit \in Nat /\ Unit >= 2 /\ OneFloat \in Int /\ Infinity \in Int /\ 2 ^ (MantBits - 1) \in Nat
<1>1. Unit \in Nat /\ Unit >= 2 /\ BIAS \in Nat /\ Infinity \in Int
  BY FloatWidths
<1>2. 2 ^ (MantBits - 1) \in Nat
  <2>1. MantBits - 1 \in Nat
    BY FloatWidths
  <2> QED
    BY <2>1, PowerPositive
<1>3. OneFloat = BIAS * Unit
  BY DEF OneFloat, Unit
<1>4. BIAS * Unit \in Int
  BY ONLY <1>1
<1> QED
  BY <1>1, <1>2, <1>3, <1>4

(* The twelve values of a round over floats. *)
LEMMA AroundIs ==
  ASSUME NEW d \in Int
  PROVE  /\ Around(d) \in Seq(Int) /\ Len(Around(d)) = 12
         /\ Around(d)[1] = d /\ Around(d)[7] = Sign + d
         /\ Around(d)[2] = Unit + d /\ Around(d)[8] = Sign + (Unit + d)
         /\ Around(d)[3] = Unit - d /\ Around(d)[9] = Sign + (Unit - d)
         /\ Around(d)[4] = OneFloat + d /\ Around(d)[10] = Sign + (OneFloat + d)
<1> DEFINE mags == <<d, Unit + d, Unit - d, OneFloat + d, OneFloat - d, Infinity - Unit - d>>
<1>1. mags \in Seq(Int)
  <2> DEFINE x == Unit + d
             y == Unit - d
             z == OneFloat + d
             u == OneFloat - d
             v == Infinity - Unit - d
  <2>1. x \in Int /\ y \in Int /\ z \in Int /\ u \in Int /\ v \in Int
    BY FloatBounds
  <2> HIDE DEF x, y, z, u, v
  <2>2. <<d, x, y, z, u, v>> \in Seq(Int)
    BY ONLY d \in Int, <2>1
  <2> QED
    BY <2>2 DEF x, y, z, u, v
<1>2. /\ Len(mags) = 6 /\ mags[1] = d /\ mags[2] = Unit + d /\ mags[3] = Unit - d
      /\ mags[4] = OneFloat + d
  OBVIOUS
<1> HIDE DEF mags
<1>3. /\ BothSigns(mags) \in Seq(Int) /\ Len(BothSigns(mags)) = 2 * Len(mags)
      /\ \A n \in 1 .. Len(mags) : /\ BothSigns(mags)[n] = mags[n]
                                   /\ BothSigns(mags)[Len(mags) + n] = Sign + mags[n]
  BY <1>1, SignsAre
<1> DEFINE s == BothSigns(mags)
<1>4. s = Around(d)
  BY DEF Around, mags
<1> HIDE DEF s
<1>5. s \in Seq(Int) /\ Len(s) = 12 /\ \A n \in 1 .. 6 : s[n] = mags[n] /\ s[6 + n] = Sign + mags[n]
  BY <1>2, <1>3 DEF s
<1>6. /\ s[1] = mags[1] /\ s[6 + 1] = Sign + mags[1] /\ s[2] = mags[2] /\ s[6 + 2] = Sign + mags[2]
      /\ s[3] = mags[3] /\ s[6 + 3] = Sign + mags[3] /\ s[4] = mags[4] /\ s[6 + 4] = Sign + mags[4]
  BY ONLY <1>5
<1>7. 6 + 1 = 7 /\ 6 + 2 = 8 /\ 6 + 3 = 9 /\ 6 + 4 = 10
  OBVIOUS
<1> QED
  BY ONLY <1>2, <1>4, <1>5, <1>6, <1>7

(* Infinity and a NaN, with both signs. *)
LEMMA SpecialsAre ==
  /\ Specials \in Seq(Int) /\ Len(Specials) = 4
  /\ Specials[1] = Infinity /\ Specials[2] = Infinity + 2 ^ (MantBits - 1)
  /\ Specials[3] = Sign + Infinity /\ Specials[4] = Sign + (Infinity + 2 ^ (MantBits - 1))
<1> DEFINE x == Infinity
           y == Infinity + 2 ^ (MantBits - 1)
           mags == <<x, y>>
           s == BothSigns(mags)
<1>1. x \in Int /\ y \in Int
  BY FloatBounds
<1>0. s = Specials
  BY DEF Specials
<1> HIDE DEF x, y
<1>2. mags \in Seq(Int) /\ Len(mags) = 2 /\ mags[1] = x /\ mags[2] = y
  BY <1>1
<1> HIDE DEF mags
<1>3. /\ s \in Seq(Int) /\ Len(s) = 2 * Len(mags)
      /\ \A n \in 1 .. Len(mags) : s[n] = mags[n] /\ s[Len(mags) + n] = Sign + mags[n]
  BY <1>2, SignsAre
<1> HIDE DEF s
<1>4. s \in Seq(Int) /\ Len(s) = 4 /\ \A n \in 1 .. 2 : s[n] = mags[n] /\ s[2 + n] = Sign + mags[n]
  BY ONLY <1>2, <1>3
<1>5. s[1] = mags[1] /\ s[2] = mags[2] /\ s[2 + 1] = Sign + mags[1] /\ s[2 + 2] = Sign + mags[2]
  BY ONLY <1>4
<1>6. 2 + 1 = 3 /\ 2 + 2 = 4
  OBVIOUS
<1>7. /\ s[1] = x /\ s[2] = y /\ s[3] = Sign + x /\ s[4] = Sign + y
  BY ONLY <1>2, <1>5, <1>6
<1> QED
  BY <1>0, <1>4, <1>7 DEF x, y

(* The values generated for a float, round for round. *)
LEMMA FloatValsAre ==
  ASSUME NEW tr \in Nat \ {0}
  PROVE  /\ FloatVals(tr) \in Seq(Int) /\ Len(FloatVals(tr)) = 12 * Rounds(tr) + 4
         /\ Rounds(tr) \in Nat \ {0} /\ Rounds(tr) <= tr
         /\ \A q \in 0 .. Rounds(tr) - 1 : \A r \in 1 .. 12 : FloatVals(tr)[12 * q + r] = Around(q)[r]
         /\ \A r \in 1 .. 4 : FloatVals(tr)[12 * Rounds(tr) + r] = Specials[r]
<1> DEFINE n == Rounds(tr)
           seqs == [q \in 1 .. n |-> Around(q - 1)]
           s == FlattenSeq(seqs)
<1>1. n \in Nat \ {0} /\ n <= tr
  BY FloatBounds DEF Rounds, Lesser, Unit
<1>2. FloatVals(tr) = s \o Specials
  BY DEF FloatVals, Specials, Around, Rounds, Unit, OneFloat
<1> HIDE DEF n
<1>3. seqs \in [1 .. n -> Seq(Int)] /\ \A q \in 1 .. n : Len(seqs[q]) = 12
  BY <1>1, AroundIs
<1>4. \A q \in 0 .. n - 1 : seqs[q + 1] = Around(q)
  <2>1. ASSUME NEW q \in 0 .. n - 1 PROVE seqs[q + 1] = Around(q)
    <3>1. q + 1 \in 1 .. n /\ (q + 1) - 1 = q
      BY <1>1
    <3> QED
      BY <3>1
  <2> QED
    BY <2>1
<1> HIDE DEF seqs
<1>5. s \in Seq(Int) /\ Len(s) = 12 * n /\ \A q \in 0 .. n - 1 : Piece(s, 12, q, seqs[q + 1])
  <2> DEFINE m == 12
  <2>1. m \in Nat /\ \A q \in 1 .. n : Len(seqs[q]) = m
    BY <1>3
  <2> HIDE DEF m
  <2>2. s \in Seq(Int) /\ Len(s) = m * n /\ \A q \in 0 .. n - 1 : Piece(s, m, q, seqs[q + 1])
    BY <1>1, <1>3, <2>1, FlattenIs
  <2> QED
    BY <2>2 DEF m
<1> HIDE DEF s
<1>6. /\ s \o Specials \in Seq(Int) /\ Len(s \o Specials) = Len(s) + Len(Specials)
      /\ \A r \in 1 .. Len(s) : (s \o Specials)[r] = s[r]
      /\ \A r \in 1 .. Len(Specials) : (s \o Specials)[Len(s) + r] = Specials[r]
  BY <1>5, SpecialsAre, JoinedInts
<1> DEFINE all == s \o Specials
<1>7. /\ all \in Seq(Int) /\ Len(all) = 12 * n + 4 /\ (\A r \in 1 .. 12 * n : all[r] = s[r])
      /\ \A r \in 1 .. 4 : all[12 * n + r] = Specials[r]
  BY <1>5, <1>6, SpecialsAre
<1> HIDE DEF all
<1>8. ASSUME NEW q \in 0 .. n - 1, NEW r \in 1 .. 12 PROVE all[12 * q + r] = Around(q)[r]
  <2>1. 12 * q + r \in 1 .. 12 * n
    BY ONLY <1>1, q \in 0 .. n - 1, r \in 1 .. 12
  <2>2. s[12 * q + r] = Around(q)[r]
    BY <1>4, <1>5 DEF Piece
  <2> QED
    BY <1>7, <2>1, <2>2
<1>9. all = FloatVals(tr) /\ n = Rounds(tr)
  BY <1>2 DEF all, n
<1> QED
  BY ONLY <1>1, <1>7, <1>8, <1>9
(* The range for an argument is within the one asked for. *)
LEMMA RangeIs ==
  ASSUME NEW args \in 1 .. 3
  PROVE  ArgRange(args) \in 1 .. TEST_RANGE /\ (args = 1 => ArgRange(args) = TEST_RANGE)
<1>0. TEST_RANGE \in Nat /\ TEST_RANGE >= 4
  BY BtestAssumption
<1> DEFINE A == {1} \cup {c \in 1 .. TEST_RANGE : c * c <= TEST_RANGE}
           B == {1} \cup {c \in 1 .. TEST_RANGE : c * c * c < TEST_RANGE}
<1>1. /\ A \subseteq Nat /\ A # {} /\ (\A y \in A : y <= TEST_RANGE) /\ A \subseteq 1 .. TEST_RANGE
      /\ B \subseteq Nat /\ B # {} /\ (\A y \in B : y <= TEST_RANGE) /\ B \subseteq 1 .. TEST_RANGE
  BY ONLY <1>0
<1> HIDE DEF A, B
<1>2. Max(A) \in A /\ Max(B) \in B
  BY ONLY <1>0, <1>1, MaxNat
<1>3. CASE args = 1
  BY <1>0, <1>3 DEF ArgRange
<1>4. CASE args = 2
  BY <1>1, <1>2, <1>4 DEF ArgRange, A
<1>5. CASE args = 3
  BY <1>1, <1>2, <1>5 DEF ArgRange, B
<1> QED
  BY <1>3, <1>4, <1>5

(* The five values of the first round. *)
FirstFive == <<Sign, TMax, 0, Word(0), Random>>
Exhaustive == TMax - MAX_TEST_VALS <= -Sign

(* The values generated for an int: all of them, or five in a round. *)
LEMMA IntegerValsAre ==
  ASSUME NEW tr \in Nat \ {0}
  PROVE  /\ IntegerVals(tr) \in Seq(Int)
         /\ Exhaustive => /\ Len(IntegerVals(tr)) = 2 * Sign
                          /\ \A n \in 1 .. 2 * Sign : IntegerVals(tr)[n] = Word(n - 1 - Sign)
         /\ ~Exhaustive => /\ Len(IntegerVals(tr)) = 5 * tr
                           /\ \A r \in 1 .. 5 : IntegerVals(tr)[r] = FirstFive[r]
<1>1. CASE Exhaustive
  <2> DEFINE n == 2 * Sign
             all == [q \in 1 .. n |-> Word(q - 1 - Sign)]
  <2>1. IntegerVals(tr) = all
    BY <1>1, Widths DEF IntegerVals, Exhaustive
  <2>2. n \in Nat /\ \A q \in 1 .. n : Word(q - 1 - Sign) \in Int
    <3>1. \A q \in 1 .. n : q - 1 - Sign \in Int
      BY Widths
    <3> QED
      BY <3>1, Widths, WordOf DEF Words
  <2> HIDE DEF n
  <2>3. all \in Seq(Int) /\ Len(all) = n
    BY ONLY <2>2
  <2>4. \A q \in 1 .. n : all[q] = Word(q - 1 - Sign)
    OBVIOUS
  <2> HIDE DEF all
  <2> QED
    BY <1>1, <2>1, <2>3, <2>4 DEF n
<1>2. CASE ~Exhaustive
  <2> DEFINE seqs == [q \in 1 .. tr |-> <<Sign + (q - 1), TMax - (q - 1), q - 1, Word(1 - q), Random>>]
             s == FlattenSeq(seqs)
  <2>1. IntegerVals(tr) = s
    BY <1>2 DEF IntegerVals, Exhaustive
  <2>2. \A q \in 1 .. tr : seqs[q] \in Seq(Int) /\ Len(seqs[q]) = 5
    <3> TAKE q \in 1 .. tr
    <3> DEFINE a == Sign + (q - 1)
               b == TMax - (q - 1)
               c == q - 1
               d == Word(1 - q)
    <3>1. a \in Int /\ b \in Int /\ c \in Int /\ d \in Int /\ Random \in Int
      <4>1. 1 - q \in Int
        OBVIOUS
      <4> QED
        BY <4>1, Widths, WordOf DEF Words, Random
    <3>2. seqs[q] = <<a, b, c, d, Random>>
      OBVIOUS
    <3> HIDE DEF a, b, c, d, seqs
    <3> QED
      BY ONLY <3>1, <3>2
  <2>3. seqs[1] = FirstFive
    <3>1. 1 \in 1 .. tr /\ 1 - 1 = 0 /\ Sign + 0 = Sign /\ TMax - 0 = TMax
      BY Widths
    <3>2. seqs[1] = <<Sign + (1 - 1), TMax - (1 - 1), 1 - 1, Word(1 - 1), Random>>
      BY <3>1
    <3> HIDE DEF seqs
    <3> QED
      BY <3>1, <3>2 DEF FirstFive
  <2>4. seqs \in [1 .. tr -> Seq(Int)] /\ \A q \in 1 .. tr : Len(seqs[q]) = 5
    BY <2>2
  <2> HIDE DEF seqs
  <2> DEFINE m == 5
             S == Int
  <2>5. m \in Nat /\ seqs \in [1 .. tr -> Seq(S)] /\ \A q \in 1 .. tr : Len(seqs[q]) = m
    BY <2>4
  <2>6. 0 \in 0 .. tr - 1 /\ \A r \in 1 .. m : m * 0 + r = r
    OBVIOUS
  <2> HIDE DEF m, S
  <2>7. s \in Seq(S) /\ Len(s) = m * tr /\ \A q \in 0 .. tr - 1 : Piece(s, m, q, seqs[q + 1])
    BY ONLY tr \in Nat \ {0}, <2>5, FlattenIs
  <2> HIDE DEF s
  <2>8. Piece(s, m, 0, FirstFive)
    <3>1. Piece(s, m, 0, seqs[0 + 1]) /\ 0 + 1 = 1
      BY <2>6, <2>7
    <3> QED
      BY <3>1, <2>3
  <2>9. \A r \in 1 .. m : s[r] = FirstFive[r]
    BY <2>6, <2>8 DEF Piece
  <2> QED
    BY <1>2, <2>1, <2>7, <2>9 DEF m, S
<1> QED
  BY <1>1, <1>2

(* The values of an argument that was not fixed. *)
Vals(isfloat, tr) == IF isfloat THEN FloatVals(tr) ELSE IntegerVals(tr)

(* A fixed argument has its value alone. *)
LEMMA GenIs ==
  ASSUME NEW isfloat, NEW tr, NEW arg, has_arg[arg] \in BOOLEAN
  PROVE  gen_vals(isfloat, tr, arg) = IF has_arg[arg] THEN <<argval[arg]>> ELSE Vals(isfloat, tr)
  BY DEF gen_vals, Vals

(* They fit into the array: 13 does not divide 2 ^ W - 1, so the run that  *)
(* takes one value more than the bound of its test is never asked for.     *)
LEMMA ValsFit ==
  ASSUME NEW tr \in 1 .. TEST_RANGE, NEW isfloat, isfloat => tr = TEST_RANGE
  PROVE  /\ Vals(isfloat, tr) \in Seq(Int)
         /\ Len(Vals(isfloat, tr)) \in 1 .. MAX_TEST_VALS
<1>0. TEST_RANGE \in Nat /\ TEST_RANGE >= 4 /\ tr \in Nat \ {0} /\ tr <= TEST_RANGE
      /\ MAX_TEST_VALS = 13 * TEST_RANGE
  BY BtestAssumption DEF MAX_TEST_VALS
<1>1. CASE isfloat
  <2> DEFINE l == Len(FloatVals(tr))
             n == Rounds(tr)
  <2>1. FloatVals(tr) \in Seq(Int) /\ l = 12 * n + 4 /\ n \in Nat \ {0} /\ n <= tr
    BY <1>0, FloatValsAre
  <2>2. Vals(isfloat, tr) = FloatVals(tr) /\ tr = TEST_RANGE
    BY <1>1 DEF Vals
  <2> HIDE DEF l, n
  <2>3. l \in 1 .. 13 * TEST_RANGE
    BY ONLY <1>0, <2>1, <2>2
  <2> QED
    BY <1>0, <2>1, <2>2, <2>3 DEF l
<1>2. CASE ~isfloat /\ ~Exhaustive
  <2> DEFINE l == Len(IntegerVals(tr))
  <2>1. IntegerVals(tr) \in Seq(Int) /\ l = 5 * tr
    BY <1>0, <1>2, IntegerValsAre
  <2> HIDE DEF l
  <2>2. l \in 1 .. 13 * TEST_RANGE
    BY ONLY <1>0, <2>1
  <2> QED
    BY <1>0, <1>2, <2>1, <2>2 DEF Vals, l
<1>3. CASE ~isfloat /\ Exhaustive
  <2> DEFINE l == Len(IntegerVals(tr))
  <2>1. IntegerVals(tr) \in Seq(Int) /\ l = 2 * Sign
    BY <1>0, <1>3, IntegerValsAre
  <2>2. (Sign - 1) - 13 * TEST_RANGE <= -Sign
    BY <1>0, <1>3, Widths DEF Exhaustive
  <2>3. Sign \in {128, 32768, 2147483648}
    <3>1. W - 1 \in {7, 15, 31}
      BY Widths
    <3>2. 2 ^ 7 = 128 /\ 2 ^ 15 = 32768 /\ 2 ^ 31 = 2147483648
      OBVIOUS
    <3> DEFINE v == W - 1
    <3>3. v \in {7, 15, 31} /\ Sign = 2 ^ v
      BY <3>1 DEF Sign
    <3> HIDE DEF v
    <3>4. v = 7 \/ v = 15 \/ v = 31
      BY <3>3
    <3>5. v = 7 => 2 ^ v = 2 ^ 7
      OBVIOUS
    <3>6. v = 15 => 2 ^ v = 2 ^ 15
      OBVIOUS
    <3>7. v = 31 => 2 ^ v = 2 ^ 31
      OBVIOUS
    <3> QED
      BY <3>2, <3>3, <3>4, <3>5, <3>6, <3>7
  <2> HIDE DEF l
  <2>4. l \in 1 .. 13 * TEST_RANGE
    <3>1. 13 * TEST_RANGE >= 2 * Sign - 1
      BY ONLY <1>0, <2>2, <2>3
    <3>2. 13 * TEST_RANGE # 2 * Sign - 1
      BY ONLY <1>0, <2>3
    <3> QED
      BY ONLY <1>0, <2>1, <2>3, <3>1, <3>2
  <2> QED
    BY <1>0, <1>3, <2>1, <2>4 DEF Vals, l
<1> QED
  BY <1>1, <1>2, <1>3
(* What an argument of a function is tested with fits into its array, and  *)
(* there is something.                                                     *)
LEMMA ValsAre ==
  ASSUME Typed, NEW j \in 1 .. 13
  PROVE  LET vals == ValsOf(test_set[j]) IN
         /\ DOMAIN vals = 1 .. test_set[j].args /\ test_set[j].args \in 0 .. 3
         /\ \A arg \in 1 .. test_set[j].args :
               /\ vals[arg] \in Seq(Int) /\ Len(vals[arg]) \in 1 .. MAX_TEST_VALS
               /\ vals[arg] = IF has_arg[arg] THEN <<argval[arg]>>
                              ELSE Vals(test_set[j].isfloat, ArgRange(test_set[j].args))
<1> DEFINE args == test_set[j].args
           isfloat == test_set[j].isfloat
           vals == ValsOf(test_set[j])
<1>1. args \in 0 .. 3 /\ (isfloat => args = 1)
  BY Table
<1>2. DOMAIN vals = 1 .. args /\ \A arg \in 1 .. args : vals[arg] = gen_vals(isfloat, ArgRange(args), arg)
  BY DEF ValsOf
<1> HIDE DEF args, isfloat, vals
<1>3. ASSUME NEW arg \in 1 .. args
      PROVE  /\ vals[arg] \in Seq(Int) /\ Len(vals[arg]) \in 1 .. MAX_TEST_VALS
             /\ vals[arg] = IF has_arg[arg] THEN <<argval[arg]>> ELSE Vals(isfloat, ArgRange(args))
  <2>1. args \in 1 .. 3 /\ arg \in 1 .. 3
    BY <1>1
  <2>2. has_arg[arg] \in BOOLEAN /\ argval[arg] \in Words
    BY <2>1 DEF Typed
  <2>3. vals[arg] = IF has_arg[arg] THEN <<argval[arg]>> ELSE Vals(isfloat, ArgRange(args))
    BY <1>2, <2>2, GenIs
  <2> DEFINE tr == ArgRange(args)
  <2>4. tr \in 1 .. TEST_RANGE /\ (isfloat => tr = TEST_RANGE)
    BY <1>1, <2>1, RangeIs
  <2> HIDE DEF tr
  <2>5. Vals(isfloat, tr) \in Seq(Int) /\ Len(Vals(isfloat, tr)) \in 1 .. MAX_TEST_VALS
    BY <2>4, ValsFit
  <2>6. CASE has_arg[arg]
    <3> DEFINE v == argval[arg]
    <3>1. v \in Int
      BY <2>2, Widths DEF Words
    <3> HIDE DEF v
    <3>2. <<v>> \in Seq(Int) /\ Len(<<v>>) = 1
      BY ONLY <3>1
    <3>3. 1 \in 1 .. MAX_TEST_VALS
      BY BtestAssumption DEF MAX_TEST_VALS
    <3> QED
      BY <2>3, <2>6, <3>2, <3>3 DEF v
  <2>7. CASE ~has_arg[arg]
    BY <2>3, <2>5, <2>7 DEF tr
  <2> QED
    BY <2>6, <2>7
<1> QED
  BY <1>1, <1>2, <1>3 DEF args, isfloat, vals

(* There is a tuple to test. *)
LEMMA CountsAre ==
  ASSUME Typed, NEW j \in 1 .. 13
  PROVE  LET vals == ValsOf(test_set[j]) IN
         /\ Count(vals, 1) \in Nat \ {0} /\ Count(vals, 2) \in Nat \ {0} /\ Count(vals, 3) \in Nat \ {0}
         /\ Tuples(vals) \in Nat \ {0}
<1> DEFINE vals == ValsOf(test_set[j])
           args == test_set[j].args
<1>1. DOMAIN vals = 1 .. args /\ \A arg \in 1 .. args : Len(vals[arg]) \in Nat \ {0}
  <2>1. DOMAIN vals = 1 .. args /\ \A arg \in 1 .. args : Len(vals[arg]) \in 1 .. MAX_TEST_VALS
    BY ValsAre
  <2>2. 1 .. MAX_TEST_VALS \subseteq Nat \ {0}
    BY BtestAssumption DEF MAX_TEST_VALS
  <2> HIDE DEF vals, args
  <2> QED
    BY ONLY <2>1, <2>2
<1> HIDE DEF vals, args
<1>2. ASSUME NEW arg PROVE Count(vals, arg) \in Nat \ {0}
  BY <1>1 DEF Count
<1> DEFINE a == Count(vals, 1)
           b == Count(vals, 2)
           c == Count(vals, 3)
<1>3. a \in Nat \ {0} /\ b \in Nat \ {0} /\ c \in Nat \ {0}
  BY <1>2
<1>4. Tuples(vals) = a * b * c
  BY DEF Tuples
<1> HIDE DEF a, b, c
<1>5. a * b \in Nat \ {0}
  BY ONLY <1>3
<1>6. a * b * c \in Nat \ {0}
  BY ONLY <1>3, <1>5
<1> QED
  BY <1>3, <1>4, <1>6 DEF a, b, c, vals

(* The values fit into the arrays of test_function. *)
LEMMA Fits == Typed => FitsArray
<1> SUFFICES ASSUME Typed, phase = "test", NEW v \in Range(ValsOf(test_set[i]))
             PROVE  Len(v) <= MAX_TEST_VALS
  BY DEF FitsArray
<1>1. i \in 1 .. 13
  BY Table DEF Typed, Running
<1> DEFINE vals == ValsOf(test_set[i])
           args == test_set[i].args
<1>2. DOMAIN vals = 1 .. args /\ \A arg \in 1 .. args : Len(vals[arg]) \in 1 .. MAX_TEST_VALS
  BY <1>1, ValsAre
<1>3. PICK arg \in DOMAIN vals : v = vals[arg]
  BY DEF Range
<1> HIDE DEF vals, args
<1>4. Len(v) \in 1 .. MAX_TEST_VALS
  BY <1>2, <1>3
<1>5. MAX_TEST_VALS \in Nat
  BY BtestAssumption DEF MAX_TEST_VALS
<1> QED
  BY ONLY <1>4, <1>5
-----------------------------------------------------------------------------
(* 10. The score.                                                          *)

(* The sum of the ratings of a set of functions. *)
Weight(r, j) == IF r # 0 THEN r ELSE test_set[j].rating
Weights(r, S) == [j \in S |-> Weight(r, j)]
SumOf(r, S) == MapThenSumSet(LAMBDA j : Weight(r, j), S)

(* The sum of the ratings follows the recursion of Adds. *)
LEMMA SumAdds ==
  ASSUME NEW r, NEW S, IsFiniteSet(S)
  PROVE  \E G : Adds(G, Weights(r, S), S) /\ SumOf(r, S) = G[S]
<1>1. PICK F : Adds(F, Weights(r, S), S)
  BY AddsExists
<1> DEFINE Rec(G) == G = [s \in SUBSET S |-> IF s = {} THEN 0
                                             ELSE Weight(r, One(s)) + G[s \ {One(s)}]]
<1>2. ASSUME NEW G PROVE Adds(G, Weights(r, S), S) <=> Rec(G)
  <2>1. ASSUME NEW s \in SUBSET S, s # {} PROVE Weights(r, S)[One(s)] = Weight(r, One(s))
    BY <2>1, OneIsIn DEF Weights
  <2>2. [s \in SUBSET S |-> IF s = {} THEN 0 ELSE Weights(r, S)[One(s)] + G[s \ {One(s)}]]
          = [s \in SUBSET S |-> IF s = {} THEN 0 ELSE Weight(r, One(s)) + G[s \ {One(s)}]]
    BY <2>1
  <2> QED
    BY <2>2 DEF Adds
<1>3. Rec(F)
  BY <1>1, <1>2
<1>4. \E G : Rec(G) /\ SumOf(r, S) = G[S]
  BY <1>3 DEF SumOf, MapThenSumSet, MapThenFoldSet, One
<1> HIDE DEF Rec
<1> QED
  BY <1>2, <1>4

(* One more function adds its rating. *)
LEMMA SumWith ==
  ASSUME NEW r \in Nat, NEW S, S \subseteq 1 .. 13, NEW j \in 1 .. 13, j \notin S,
         NEW T, T = S \cup {j}
  PROVE  SumOf(r, T) = SumOf(r, S) + Weight(r, j)
<1>1. ASSUME NEW n \in 1 .. 13 PROVE Weight(r, n) \in Nat
  BY Table DEF Weight
<1>2. IsFiniteSet(S) /\ IsFiniteSet(T) /\ T \subseteq 1 .. 13 /\ j \in T /\ S = T \ {j}
  <2>1. T \subseteq 1 .. 13 /\ S = T \ {j} /\ j \in T
    OBVIOUS
  <2>2. IsFiniteSet(1 .. 13)
    BY FS_Interval, 1 \in Int, 13 \in Int
  <2> DEFINE U == 1 .. 13
  <2> HIDE DEF U
  <2>3. IsFiniteSet(U) /\ T \subseteq U /\ S \subseteq U
    BY <2>1, <2>2 DEF U
  <2>4. IsFiniteSet(T) /\ IsFiniteSet(S)
    BY ONLY <2>3, FS_Subset
  <2> QED
    BY <2>1, <2>4
<1> DEFINE f == Weights(r, T)
           g == Weights(r, S)
<1>3. PICK G : Adds(G, f, T) /\ SumOf(r, T) = G[T]
  BY <1>2, SumAdds
<1>4. PICK H : Adds(H, g, S) /\ SumOf(r, S) = H[S]
  BY <1>2, SumAdds
<1>6. /\ (\A o \in T : f[o] \in Nat) /\ (\A o \in S : f[o] = g[o]) /\ (\A o \in S : g[o] \in Nat)
      /\ f[j] = Weight(r, j)
  BY <1>1, <1>2 DEF Weights
<1> HIDE DEF f, g
<1>7. G[T] = f[j] + H[S]
  <2> DEFINE x == j
  <2>1. /\ IsFiniteSet(T) /\ x \in T /\ S = T \ {x} /\ Adds(G, f, T) /\ Adds(H, g, S)
        /\ (\A o \in T : f[o] \in Nat) /\ (\A o \in S : f[o] = g[o])
    BY <1>2, <1>3, <1>4, <1>6
  <2> HIDE DEF x
  <2>2. G[T] = f[x] + H[S]
    BY ONLY <2>1, SumWithout, SMTT(60)
  <2> QED
    BY <2>2 DEF x
<1>8. H[S] \in Nat
  <2>1. S \in SUBSET S
    OBVIOUS
  <2> QED
    BY <1>2, <1>4, <1>6, <2>1, SumTakesOff
<1>9. Weight(r, j) \in Nat
  BY <1>1
<1> QED
  BY <1>3, <1>4, <1>6, <1>7, <1>8, <1>9

(* No functions, no points. *)
LEMMA SumOfNone == ASSUME NEW r PROVE SumOf(r, {}) = 0
<1>1. PICK G : Adds(G, Weights(r, {}), {}) /\ SumOf(r, {}) = G[{}]
  BY SumAdds, FS_EmptySet
<1> QED
  BY <1>1 DEF Adds
(* The functions before the n-th that the command line selects, and the    *)
(* score after them.                                                       *)
Sel(c, j) == c.fname \in {"", test_set[j].name}
Done(c, n) == {j \in 1 .. n - 1 : Sel(c, j)}
ScoreAt(c, n, f, p, m, e) ==
    /\ f \subseteq Done(c, n)
    /\ p = SumOf(c.rating, f)
    /\ m = SumOf(c.rating, Done(c, n))
    /\ e = Cardinality(Done(c, n) \ f)
Scored == ScoreAt(cmd, i, finished, points, max_points, errors)
InBounds == phase = "test" => k \in 0 .. Tuples(ValsOf(test_set[i])) - 1

(* The score before the first function. *)
LEMMA ScoreStarts == ASSUME NEW c PROVE ScoreAt(c, 1, {}, 0, 0, 0)
<1>1. Done(c, 1) = {}
  BY DEF Done
<1>2. SumOf(c.rating, {}) = 0
  BY SumOfNone
<1>3. Cardinality({}) = 0
  BY FS_EmptySet
<1>4. {} \ {} = {} /\ {} \subseteq {}
  OBVIOUS
<1> QED
  BY <1>1, <1>2, <1>3, <1>4 DEF ScoreAt

(* One function further, which was not selected, failed, or came out right. *)
LEMMA ScoreGoesOn ==
  ASSUME NEW c \in Command, NEW n \in 1 .. 13, NEW f, NEW p, NEW m, NEW e,
         ScoreAt(c, n, f, p, m, e)
  PROVE  /\ ~Sel(c, n) => ScoreAt(c, n + 1, f, p, m, e)
         /\ Sel(c, n) => ScoreAt(c, n + 1, f, p + 0, m + Weight(c.rating, n), e + 1)
         /\ Sel(c, n) => ScoreAt(c, n + 1, f \cup {n}, p + Weight(c.rating, n),
                                 m + Weight(c.rating, n), e + 0)
<1> DEFINE r == c.rating
           D == Done(c, n)
           E == Done(c, n + 1)
<1>1. r \in Nat
  BY DEF Command
<1>2. D \subseteq 1 .. 13 /\ n \notin D
  BY DEF Done
<1>3. ~Sel(c, n) => E = D
  <2>1. (n + 1) - 1 = n /\ \A j : j \in 1 .. n <=> (j \in 1 .. n - 1 \/ j = n)
    OBVIOUS
  <2> QED
    BY <2>1 DEF Done
<1>4. Sel(c, n) => E = D \cup {n}
  <2>1. (n + 1) - 1 = n /\ \A j : j \in 1 .. n <=> (j \in 1 .. n - 1 \/ j = n)
    OBVIOUS
  <2> QED
    BY <2>1 DEF Done
<1>5. f \subseteq D /\ p = SumOf(r, f) /\ m = SumOf(r, D) /\ e = Cardinality(D \ f)
  BY DEF ScoreAt
<1>6. ScoreAt(c, n + 1, f, p, m, e) <=>
         f \subseteq E /\ p = SumOf(r, f) /\ m = SumOf(r, E) /\ e = Cardinality(E \ f)
  BY DEF ScoreAt
<1>7. ScoreAt(c, n + 1, f, p + 0, m + Weight(r, n), e + 1) <=>
         /\ f \subseteq E /\ p + 0 = SumOf(r, f) /\ m + Weight(r, n) = SumOf(r, E)
         /\ e + 1 = Cardinality(E \ f)
  BY DEF ScoreAt
<1>8. ScoreAt(c, n + 1, f \cup {n}, p + Weight(r, n), m + Weight(r, n), e + 0) <=>
         /\ f \cup {n} \subseteq E /\ p + Weight(r, n) = SumOf(r, f \cup {n})
         /\ m + Weight(r, n) = SumOf(r, E) /\ e + 0 = Cardinality(E \ (f \cup {n}))
  BY DEF ScoreAt
<1> HIDE DEF D, E, r
<1>9. f \subseteq 1 .. 13 /\ n \notin f
  BY <1>2, <1>5
<1>10. IsFiniteSet(D \ f) /\ Cardinality(D \ f) \in Nat
  <2> DEFINE U == 1 .. 13
             V == D \ f
  <2>1. IsFiniteSet(U)
    BY FS_Interval, 1 \in Int, 13 \in Int
  <2>2. V \subseteq U
    BY <1>2
  <2> HIDE DEF U, V
  <2>3. IsFiniteSet(V)
    BY ONLY <2>1, <2>2, FS_Subset
  <2>4. Cardinality(V) \in Nat
    BY <2>3, FS_CardinalityType
  <2> QED
    BY <2>3, <2>4 DEF V
<1>11. p \in Nat
  <2>1. IsFiniteSet(f)
    <3> DEFINE U == 1 .. 13
    <3>1. IsFiniteSet(U)
      BY FS_Interval, 1 \in Int, 13 \in Int
    <3>2. f \subseteq U
      BY <1>9
    <3> HIDE DEF U
    <3> QED
      BY ONLY <3>1, <3>2, FS_Subset
  <2>2. PICK G : Adds(G, Weights(r, f), f) /\ SumOf(r, f) = G[f]
    BY <2>1, SumAdds
  <2> DEFINE g == Weights(r, f)
  <2>3. \A o \in f : g[o] \in Nat
    BY <1>1, <1>9, Table DEF Weights, Weight
  <2> HIDE DEF g
  <2>4. Adds(G, g, f) /\ f \in SUBSET f
    BY <2>2 DEF g
  <2>5. G[f] \in Nat
    BY ONLY <2>1, <2>3, <2>4, SumTakesOff
  <2> QED
    BY <1>5, <2>2, <2>5
<1>12. ASSUME ~Sel(c, n) PROVE ScoreAt(c, n + 1, f, p, m, e)
  BY <1>3, <1>5, <1>6, <1>12
<1>13. ASSUME Sel(c, n) PROVE m + Weight(r, n) = SumOf(r, E)
  <2>1. SumOf(r, E) = SumOf(r, D) + Weight(r, n)
    BY <1>1, <1>2, <1>4, <1>13, SumWith
  <2> QED
    BY <1>5, <2>1
<1>14. ASSUME Sel(c, n) PROVE ScoreAt(c, n + 1, f, p + 0, m + Weight(r, n), e + 1)
  <2>1. f \subseteq E /\ p + 0 = p
    BY <1>4, <1>5, <1>11, <1>14
  <2>2. E \ f = (D \ f) \cup {n}
    BY <1>4, <1>9, <1>14
  <2>3. n \notin D \ f
    BY <1>2
  <2>4. Cardinality((D \ f) \cup {n}) = Cardinality(D \ f) + 1
    BY <1>10, <2>3, FS_AddElement
  <2> QED
    BY <1>5, <1>7, <1>13, <1>14, <2>1, <2>2, <2>4
<1>15. ASSUME Sel(c, n)
       PROVE  ScoreAt(c, n + 1, f \cup {n}, p + Weight(r, n), m + Weight(r, n), e + 0)
  <2>1. f \cup {n} \subseteq E
    BY <1>4, <1>5, <1>15
  <2>2. E \ (f \cup {n}) = D \ f
    BY <1>2, <1>4, <1>5, <1>15
  <2>3. SumOf(r, f \cup {n}) = SumOf(r, f) + Weight(r, n)
    <3> DEFINE T == f \cup {n}
    <3>1. T = f \cup {n}
      OBVIOUS
    <3> HIDE DEF T
    <3>2. SumOf(r, T) = SumOf(r, f) + Weight(r, n)
      BY <1>1, <1>9, <3>1, SumWith
    <3> QED
      BY <3>2 DEF T
  <2>4. e + 0 = e
    BY <1>5, <1>10
  <2> QED
    BY <1>5, <1>8, <1>13, <1>15, <2>1, <2>2, <2>3, <2>4
<1> QED
  BY <1>12, <1>14, <1>15 DEF r
(* The index is in the table, or behind it when all is done. *)
LEMMA IndexIs ==
  ASSUME Typed
  PROVE  i \in 1 .. 14 /\ (i <= 13 => i \in 1 .. 13) /\ (phase = "test" => i \in 1 .. 13)
<1>1. i \in 1 .. Len(test_set) + 1 /\ (phase = "test" => i \in 1 .. Len(test_set))
  BY DEF Typed, Running
<1>2. Len(test_set) = 13
  BY Table
<1> QED
  BY <1>1, <1>2

(* The score's clauses are what PointsAreEarned says, and finished is in   *)
(* the table.                                                              *)
LEMMA ScoredIs ==
  Scored <=> PointsAreEarned /\ finished \subseteq Done(cmd, i)
<1>1. MapThenSumSet(Rating, finished) = SumOf(cmd.rating, finished)
  BY DEF Rating, SumOf, Weight, MapThenSumSet, MapThenFoldSet
<1>2. Done(cmd, i) = {j \in 1 .. i - 1 : Selected(j)}
  BY DEF Done, Sel, Selected
<1>3. MapThenSumSet(Rating, {j \in 1 .. i - 1 : Selected(j)}) = SumOf(cmd.rating, Done(cmd, i))
  BY <1>2 DEF Rating, SumOf, Weight, MapThenSumSet, MapThenFoldSet
<1> QED
  BY <1>1, <1>2, <1>3 DEF Scored, ScoreAt, PointsAreEarned

(* The score depends on the name and the rating of the command line. *)
LEMMA ScoreSame ==
  ASSUME NEW c, NEW d, NEW n, NEW f, NEW p, NEW m, NEW e, ScoreAt(c, n, f, p, m, e),
         d.fname = c.fname, d.rating = c.rating
  PROVE  ScoreAt(d, n, f, p, m, e)
<1>1. Done(d, n) = Done(c, n)
  BY DEF Done, Sel
<1> QED
  BY <1>1 DEF ScoreAt

(* A step that tests nothing keeps the score. *)
LEMMA ScoreKept ==
  ASSUME Typed, Scored, cmd'.fname = cmd.fname, cmd'.rating = cmd.rating,
         UNCHANGED <<i, errors, points, max_points, finished>>
  PROVE  Scored'
<1>1. ScoreAt(cmd', i, finished, points, max_points, errors)
  BY ScoreSame DEF Scored
<1> QED
  BY <1>1 DEF Scored

(* A test that returns counts its function. *)
LEMMA ScoreReturned ==
  ASSUME Typed, Scored, phase = "test", UNCHANGED cmd,
         \/ Return(1) /\ UNCHANGED finished
         \/ Return(0) /\ finished' = finished \cup {i}
  PROVE  Scored' /\ phase' = "next" /\ i' = i + 1
<1>1. i \in 1 .. 13 /\ Sel(cmd, i) /\ cmd \in Command
  BY Table DEF Typed, Running, Selected, Sel
<1> DEFINE w == Weight(cmd.rating, i)
<1>2. ScoreAt(cmd, i, finished, points, max_points, errors)
  BY DEF Scored
<1>3. /\ ScoreAt(cmd, i + 1, finished, points + 0, max_points + w, errors + 1)
      /\ ScoreAt(cmd, i + 1, finished \cup {i}, points + w, max_points + w, errors + 0)
  BY <1>1, <1>2, ScoreGoesOn
<1>4. i' = i + 1 /\ phase' = "next" /\ cmd' = cmd
  BY DEF Return
<1>5. CASE Return(1) /\ UNCHANGED finished
  <2>1. errors' = errors + 1 /\ points' = points + 0 /\ max_points' = max_points + w
    BY <1>5 DEF Return, Weight
  <2> HIDE DEF w
  <2> QED
    BY <1>3, <1>4, <1>5, <2>1 DEF Scored
<1>6. CASE Return(0) /\ finished' = finished \cup {i}
  <2>1. errors' = errors + 0 /\ points' = points + w /\ max_points' = max_points + w
    BY <1>6 DEF Return, Weight
  <2> HIDE DEF w
  <2> QED
    BY <1>3, <1>4, <1>6, <2>1 DEF Scored
<1> QED
  BY <1>5, <1>6

(* The harness's invariant: what is typed, the score, and the loops' place. *)
Harness == Typed /\ Scored /\ InBounds

(* The invariant holds initially. *)
LEMMA HarnessStarts == Init => Harness
<1> SUFFICES ASSUME Init PROVE Scored /\ InBounds
  BY TypedStarts DEF Harness
<1>1. i = 1 /\ finished = {} /\ points = 0 /\ max_points = 0 /\ errors = 0 /\ phase = "options"
  BY DEF Init
<1>2. ScoreAt(cmd, 1, {}, 0, 0, 0)
  BY ScoreStarts
<1> QED
  BY <1>1, <1>2 DEF Scored, InBounds

(* Every step keeps the invariant. *)
LEMMA HarnessSteps == Harness /\ [Next]_vars => Harness'
<1> SUFFICES ASSUME Typed, Scored, InBounds, [Next]_vars PROVE Scored' /\ InBounds'
  BY TypedSteps DEF Harness
<1>1. CASE ParseOption
  <2>1. /\ cmd' = [cmd EXCEPT !.opts = Tail(@)] /\ phase' # "test"
        /\ UNCHANGED <<i, errors, points, max_points, finished>>
    BY <1>1 DEF ParseOption
  <2>2. cmd \in Command
    BY DEF Typed
  <2>3. cmd'.fname = cmd.fname /\ cmd'.rating = cmd.rating
    BY <2>1, <2>2 DEF Command
  <2> QED
    BY <2>1, <2>3, ScoreKept DEF InBounds
<1>2. CASE EndOptions
  <2>1. UNCHANGED <<cmd, i, errors, points, max_points, finished>> /\ phase' # "test"
    BY <1>2 DEF EndOptions
  <2> QED
    BY <2>1, ScoreKept DEF InBounds
<1>3. CASE SkipFunction
  <2>1. /\ UNCHANGED <<cmd, errors, points, max_points, finished>>
        /\ i' = i + 1 /\ i <= 13 /\ ~Sel(cmd, i) /\ phase' # "test"
    BY <1>3, Table DEF SkipFunction, Sel
  <2>2. i \in 1 .. 13 /\ cmd \in Command
    BY <2>1, IndexIs DEF Typed
  <2>3. ScoreAt(cmd, i + 1, finished, points, max_points, errors)
    BY <2>1, <2>2, ScoreGoesOn DEF Scored
  <2> QED
    BY <2>1, <2>3 DEF Scored, InBounds
<1>4. CASE EnterTest
  <2>1. /\ UNCHANGED <<cmd, has_arg, argval, i, errors, points, max_points, finished>>
        /\ k' = 0 /\ phase' = "test" /\ i <= 13
    BY <1>4, Table DEF EnterTest
  <2>2. i \in 1 .. 13
    BY <2>1, IndexIs
  <2>3. Tuples(ValsOf(test_set[i])) \in Nat \ {0}
    BY <2>2, CountsAre
  <2>4. ValsOf(test_set[i])' = ValsOf(test_set[i])
    BY <2>1 DEF ValsOf, gen_vals
  <2>5. InBounds'
    BY <2>1, <2>3, <2>4 DEF InBounds
  <2> QED
    BY <2>1, <2>5, ScoreKept
<1>5. CASE TestOne
  <2> DEFINE vals == ValsOf(test_set[i])
  <2>1. UNCHANGED <<cmd, has_arg, argval>> /\ phase = "test"
    BY <1>5 DEF TestOne
  <2>2. \/ Return(1) /\ UNCHANGED finished
        \/ Return(0) /\ finished' = finished \cup {i}
        \/ /\ k' = k + 1 /\ k + 1 < Tuples(vals)
           /\ UNCHANGED <<errors, points, max_points, i, phase, finished>>
    BY <1>5 DEF TestOne
  <2>3. CASE \/ Return(1) /\ UNCHANGED finished
             \/ Return(0) /\ finished' = finished \cup {i}
    <3>1. Scored' /\ phase' = "next"
      BY <2>1, <2>3, ScoreReturned
    <3> QED
      BY <3>1 DEF InBounds
  <2>4. CASE /\ k' = k + 1 /\ k + 1 < Tuples(vals)
             /\ UNCHANGED <<errors, points, max_points, i, phase, finished>>
    <3>1. Scored'
      BY <2>1, <2>4, ScoreKept
    <3>2. ValsOf(test_set[i])' = vals
      BY <2>1, <2>4 DEF ValsOf, gen_vals
    <3> DEFINE t == Tuples(vals)
    <3>3. t \in Nat
      BY <2>1, IndexIs, CountsAre
    <3>4. k \in 0 .. t - 1 /\ k + 1 < t /\ k' = k + 1
      BY <2>1, <2>4 DEF InBounds
    <3> HIDE DEF t
    <3>5. k' \in 0 .. t - 1
      BY ONLY <3>3, <3>4
    <3>6. InBounds'
      BY <3>2, <3>5 DEF InBounds, t
    <3> QED
      BY <3>1, <3>6
  <2> QED
    BY <2>2, <2>3, <2>4
<1>6. CASE Ring
  <2>1. UNCHANGED <<cmd, has_arg, argval, finished>>
    BY <1>6 DEF Ring
  <2>2. CASE phase = "test"
    <3>1. Return(1)
      BY <1>6, <2>2 DEF Ring
    <3>2. Scored' /\ phase' = "next"
      BY <2>1, <2>2, <3>1, ScoreReturned
    <3> QED
      BY <3>2 DEF InBounds
  <2>3. CASE phase # "test"
    <3>1. phase' = "lost" /\ UNCHANGED <<i, errors, points, max_points>>
      BY <1>6, <2>3 DEF Ring
    <3> QED
      BY <2>1, <3>1, ScoreKept DEF InBounds
  <2> QED
    BY <2>2, <2>3
<1>7. CASE Finish
  <2>1. UNCHANGED <<cmd, i, errors, points, max_points, finished>> /\ phase' # "test"
    BY <1>7 DEF Finish
  <2> QED
    BY <2>1, ScoreKept DEF InBounds
<1>8. CASE UNCHANGED vars
  <2>1. UNCHANGED <<cmd, has_arg, argval, phase, i, k, errors, points, max_points, finished>>
    BY <1>8 DEF vars
  <2>2. ValsOf(test_set[i])' = ValsOf(test_set[i])
    BY <2>1 DEF ValsOf, gen_vals
  <2> QED
    BY <2>1, <2>2, ScoreKept DEF InBounds
<1> QED
  BY <1>1, <1>2, <1>3, <1>4, <1>5, <1>6, <1>7, <1>8 DEF Next

(* The invariant always holds. *)
LEMMA AlwaysHarness == Spec => []Harness
  BY HarnessStarts, HarnessSteps, PTL DEF Spec

(* The harness stays in its tables and arrays, and its score is right: the *)
(* points are those of the functions all of whose tests were run and came  *)
(* out right, whatever the alarm ended (test_function, run_tests).         *)
THEOREM ScoreIsRight == Spec => []ScoreInv
<1>1. Harness => ScoreInv
  <2> SUFFICES ASSUME Typed, Scored, InBounds PROVE ScoreInv
    BY DEF Harness
  <2>1. PointsAreEarned /\ finished \subseteq Done(cmd, i)
    BY ScoredIs
  <2>2. finished \subseteq DOMAIN test_set
    <3>1. i \in 1 .. 14 /\ DOMAIN test_set = 1 .. 13
      BY Table, IndexIs
    <3> QED
      BY <2>1, <3>1 DEF Done
  <2>3. FitsArray
    BY Fits
  <2>4. TypeOK
    BY <2>2 DEF TypeOK, Typed, InBounds
  <2> QED
    BY <2>1, <2>3, <2>4 DEF ScoreInv
<1> QED
  BY <1>1, AlwaysHarness, PTL
-----------------------------------------------------------------------------
(* 11. What a step takes and what it tests.                                *)

(* A number that is taken fits in a word, signed or unsigned. *)
LEMMA TakenFits ==
  ASSUME NEW text \in Texts, NEW old, get_num_val(text, old)[1]
  PROVE  LET got == get_num_val(text, old)[2] IN got = text.number \/ Signed(got) = text.number
<1> DEFINE number == text.number
<1>1. CASE text.isfloat
  <2>1. get_num_val(text, old) = IF text.rest THEN <<FALSE, old>> ELSE <<TRUE, number>>
    BY <1>1 DEF get_num_val
  <2>2. text.rest \in BOOLEAN
    BY <1>1 DEF Texts
  <2> QED
    BY <2>1, <2>2
<1>2. CASE ~text.isfloat
  <2>1. number \in Int
    BY <1>2 DEF Texts
  <2>2. get_num_val(text, old) = IF old = 0 /\ number \div Sign \in {-1, 0, 1}
                                 THEN <<TRUE, Word(number)>> ELSE <<FALSE, old>>
    BY <1>2 DEF get_num_val
  <2> HIDE DEF number
  <2>3. number \div Sign \in {-1, 0, 1} /\ get_num_val(text, old)[2] = Word(number)
    BY <2>2
  <2> DEFINE q == number \div Sign
             r == number % Sign
  <2>4. Sign \in Nat \ {0}
    BY Widths
  <2>5. r \in 0 .. Sign - 1 /\ number = Sign * q + r /\ q \in {-1, 0, 1}
    BY ONLY <2>1, <2>3, <2>4, DivOf
  <2> HIDE DEF q, r
  <2>6. Sign * (-1) = -Sign /\ Sign * 0 = 0 /\ Sign * 1 = Sign
    BY <2>4
  <2>7. /\ q = -1 => number = r - Sign
        /\ q = 0 => number = r
        /\ q = 1 => number = Sign + r
    BY <2>4, <2>5, <2>6
  <2>8. CASE q = -1
    <3>1. -(2 * Sign) <= number /\ number < 0 /\ number + 2 * Sign >= Sign
      BY ONLY <2>4, <2>5, <2>7, <2>8
    <3>2. Word(number) = number + 2 * Sign
      BY <2>1, <3>1, WordIs
    <3> DEFINE w == Word(number)
    <3>3. w = number + 2 * Sign
      BY <3>2
    <3> HIDE DEF w
    <3>4. 2 ^ W = 2 * Sign
      BY Widths
    <3>5. Signed(w) = w - 2 * Sign
      BY <3>1, <3>3, <3>4 DEF Signed
    <3>6. w - 2 * Sign = number
      BY ONLY <2>1, <2>4, <3>3
    <3> QED
      BY <2>3, <3>5, <3>6 DEF w, number
  <2>9. CASE q # -1
    <3>1. 0 <= number /\ number < 2 * Sign
      BY ONLY <2>4, <2>5, <2>7, <2>9
    <3>2. Word(number) = number
      BY <2>1, <3>1, WordIs
    <3> QED
      BY <2>3, <3>2 DEF number
  <2> QED
    BY <2>8, <2>9
<1> QED
  BY <1>1, <1>2

(* A number that was taken for an argument is the argument: no bit of it   *)
(* was cut off (get_num_val, main).                                        *)
THEOREM NothingIsCutOff == Spec => NothingCutOff
<1> DEFINE Kept(arg) == LET number == Head(cmd.opts).text.number IN
                        argval'[arg] = number \/ Signed(argval'[arg]) = number
           Step == \A arg \in 1 .. 3 :
                      has_arg'[arg] /\ cmd.opts # cmd'.opts /\ Head(cmd.opts).arg = arg => Kept(arg)
<1>1. Typed /\ [Next]_vars => [Step]_vars
  <2> SUFFICES ASSUME Typed, [Next]_vars, NEW arg \in 1 .. 3, has_arg'[arg],
                      cmd.opts # cmd'.opts, Head(cmd.opts).arg = arg
               PROVE  Kept(arg)
    OBVIOUS
  <2>1. ParseOption
    <3>1. cmd' # cmd
      OBVIOUS
    <3>2. ~EndOptions /\ ~SkipFunction /\ ~EnterTest /\ ~TestOne /\ ~Ring /\ ~Finish
      BY <3>1 DEF EndOptions, SkipFunction, EnterTest, TestOne, Ring, Finish
    <3> QED
      BY <3>1, <3>2 DEF Next, vars
  <2> DEFINE opt == Head(cmd.opts)
             got == get_num_val(opt.text, argval[opt.arg])
             S == [arg : 1 .. 3, text : Texts]
             opts == cmd.opts
  <2>2. opts \in Seq(S) /\ opts # <<>>
    BY <2>1 DEF Typed, ParseOption, Command
  <2>3. opt \in S
    <3> HIDE DEF S, opts
    <3>1. Head(opts) \in S
      BY ONLY <2>2
    <3> QED
      BY <3>1 DEF opts
  <2>4. opt.text \in Texts
    BY <2>3
  <2>5. has_arg' = [has_arg EXCEPT ![opt.arg] = got[1]] /\ argval' = [argval EXCEPT ![opt.arg] = got[2]]
    BY <2>1 DEF ParseOption
  <2>6. has_arg \in [1 .. 3 -> BOOLEAN] /\ argval \in [1 .. 3 -> Words] /\ opt.arg = arg
    BY DEF Typed
  <2> HIDE DEF got
  <2>7. got[1] /\ argval'[arg] = got[2]
    BY <2>5, <2>6
  <2>8. got[2] = opt.text.number \/ Signed(got[2]) = opt.text.number
    BY <2>4, <2>7, TakenFits DEF got
  <2> QED
    BY <2>7, <2>8
<1>2. Spec => [][Step]_vars
  <2> HIDE DEF Step
  <2> QED
    BY <1>1, AlwaysTyped, PTL DEF Spec
<1> QED
  BY <1>2 DEF NothingCutOff

(* The tuples of three numbers of values, as the loops count them. *)
Places(n, l1, l2, l3, b1, b2, b3) ==
    /\ (n \div (l2 * l3)) % l1 = b1
    /\ (n \div l3) % l2 = b2
    /\ (n \div 1) % l3 = b3

(* Every combination of places is some tuple's. *)
LEMMA MixedRadix ==
  ASSUME NEW l1 \in Nat \ {0}, NEW l2 \in Nat \ {0}, NEW l3 \in Nat \ {0},
         NEW b1 \in 0 .. l1 - 1, NEW b2 \in 0 .. l2 - 1, NEW b3 \in 0 .. l3 - 1
  PROVE  \E n \in 0 .. l1 * l2 * l3 - 1 : Places(n, l1, l2, l3, b1, b2, b3)
<1> DEFINE m == l3 * b2 + b3
           p == l2 * l3
           n == p * b1 + m
<1>1. p \in Nat \ {0} /\ l1 * l2 * l3 = p * l1
  OBVIOUS
<1>2. m \in 0 .. p - 1
  <2>1. l3 * (b2 + 1) = l3 * b2 + l3 /\ l3 * (b2 + 1) <= l3 * l2 /\ l3 * b2 \in Nat /\ l3 * l2 = p
    BY Products
  <2> DEFINE u == l3 * b2
             v == l3 * l2
  <2>2. u + l3 <= v /\ u \in Nat /\ v = p
    BY <2>1
  <2> HIDE DEF u, v, p
  <2>3. u + b3 \in 0 .. p - 1
    BY ONLY <1>1, <2>2, b3 \in 0 .. l3 - 1, l3 \in Nat
  <2> QED
    BY <2>3 DEF u
<1>3. n \in 0 .. p * l1 - 1
  <2>1. p * (b1 + 1) = p * b1 + p /\ p * (b1 + 1) <= p * l1 /\ p * b1 \in Nat
    <3> HIDE DEF p
    <3> QED
      BY <1>1, Products
  <2> DEFINE u == p * b1
             v == p * l1
  <2>2. u + p <= v /\ u \in Nat /\ v \in Nat
    BY <1>1, <2>1
  <2> HIDE DEF u, v, p, m
  <2>3. u + m \in 0 .. v - 1
    BY ONLY <1>1, <1>2, <2>2
  <2> QED
    BY <2>3 DEF u, v
<1>4. n \div p = b1
  <2> HIDE DEF p, m
  <2>1. n \in Int
    BY <1>1, <1>2
  <2> HIDE DEF n
  <2>2. n = p * b1 + m
    BY DEF n
  <2> QED
    BY <1>1, <1>2, <2>1, <2>2, DivIs
<1>5. n \div l3 = l2 * b1 + b2
  <2> DEFINE q == l2 * b1 + b2
  <2>1. n = l3 * q + b3
    <3>1. p * b1 = l3 * (l2 * b1)
      OBVIOUS
    <3>2. l3 * (l2 * b1 + b2) = l3 * (l2 * b1) + l3 * b2
      OBVIOUS
    <3> QED
      BY <3>1, <3>2
  <2>2. q \in Int /\ n \in Int
    BY <1>1, <1>2
  <2> HIDE DEF q, n
  <2>3. n \div l3 = q
    BY ONLY <2>1, <2>2, l3 \in Nat \ {0}, b3 \in 0 .. l3 - 1, DivIs
  <2> QED
    BY <2>3 DEF q
<1>6. (l2 * b1 + b2) % l2 = b2
  <2> DEFINE a == l2 * b1 + b2
  <2>1. a \in Int /\ a = l2 * b1 + b2
    OBVIOUS
  <2> HIDE DEF a
  <2>2. a % l2 = b2
    BY ONLY <2>1, l2 \in Nat \ {0}, b1 \in Int, b2 \in 0 .. l2 - 1, DivIs
  <2> QED
    BY <2>2 DEF a
<1>7. b1 % l1 = b1
  OBVIOUS
<1>8. n % l3 = b3 /\ n \div 1 = n
  <2> DEFINE q == l2 * b1 + b2
  <2>1. n = l3 * q + b3
    <3>1. p * b1 = l3 * (l2 * b1)
      OBVIOUS
    <3>2. l3 * (l2 * b1 + b2) = l3 * (l2 * b1) + l3 * b2
      OBVIOUS
    <3> QED
      BY <3>1, <3>2
  <2>2. q \in Int /\ n \in Int
    BY <1>1, <1>2
  <2> HIDE DEF q, n
  <2>3. n % l3 = b3
    BY ONLY <2>1, <2>2, l3 \in Nat \ {0}, b3 \in 0 .. l3 - 1, DivIs
  <2>4. n \div 1 = n
    BY <2>2
  <2> QED
    BY <2>3, <2>4
<1> HIDE DEF n
<1>9. n \in 0 .. l1 * l2 * l3 - 1 /\ Places(n, l1, l2, l3, b1, b2, b3)
  BY <1>1, <1>3, <1>4, <1>5, <1>6, <1>7, <1>8 DEF Places
<1> QED
  BY <1>9
(* Every boundary is among the values that are generated. *)
Within(s, x) == \E n \in 1 .. Len(s) : s[n] = x

(* The boundaries of the floats are generated (gen_vals). *)
LEMMA FloatBoundaries ==
  ASSUME NEW x \in Boundary(TRUE)
  PROVE  Within(FloatVals(TEST_RANGE), x)
<1> DEFINE s == FloatVals(TEST_RANGE)
           n == Rounds(TEST_RANGE)
           h == Infinity + 2 ^ (MantBits - 1)
<1>1. /\ Len(s) = 12 * n + 4 /\ n \in Nat \ {0}
      /\ \A q \in 0 .. n - 1 : \A r \in 1 .. 12 : s[12 * q + r] = Around(q)[r]
      /\ \A r \in 1 .. 4 : s[12 * n + r] = Specials[r]
  <2>1. TEST_RANGE \in Nat \ {0}
    BY BtestAssumption
  <2> QED
    BY <2>1, FloatValsAre
<1>2. n >= 2
  <2>1. TEST_RANGE \in Nat /\ TEST_RANGE >= 4
    BY BtestAssumption
  <2>2. n = TEST_RANGE \/ n = Unit
    BY DEF Rounds, Lesser, Unit
  <2> HIDE DEF n
  <2> QED
    BY <2>1, <2>2, FloatBounds
<1> HIDE DEF s, n
<1>3. /\ \A r \in 1 .. 12 : s[r] = Around(0)[r] /\ s[12 + r] = Around(1)[r]
      /\ 12 * n + 1 \in 1 .. Len(s) /\ 12 * n + 2 \in 1 .. Len(s)
      /\ 12 * n + 3 \in 1 .. Len(s) /\ 12 * n + 4 \in 1 .. Len(s)
      /\ \A r \in 1 .. 24 : r \in 1 .. Len(s)
  <2>1. 0 \in 0 .. n - 1 /\ 1 \in 0 .. n - 1
    BY ONLY <1>1, <1>2
  <2>2. ASSUME NEW r \in 1 .. 12 PROVE s[r] = Around(0)[r] /\ s[12 + r] = Around(1)[r]
    <3>1. s[12 * 0 + r] = Around(0)[r] /\ s[12 * 1 + r] = Around(1)[r]
      BY <1>1, <2>1
    <3>2. 12 * 0 + r = r /\ 12 * 1 + r = 12 + r
      OBVIOUS
    <3> QED
      BY <3>1, <3>2
  <2>3. /\ 12 * n + 1 \in 1 .. Len(s) /\ 12 * n + 2 \in 1 .. Len(s)
        /\ 12 * n + 3 \in 1 .. Len(s) /\ 12 * n + 4 \in 1 .. Len(s)
        /\ \A r \in 1 .. 24 : r \in 1 .. Len(s)
    <3> DEFINE l == Len(s)
    <3>1. l = 12 * n + 4
      BY <1>1
    <3> HIDE DEF l
    <3>2. /\ 12 * n + 1 \in 1 .. l /\ 12 * n + 2 \in 1 .. l
          /\ 12 * n + 3 \in 1 .. l /\ 12 * n + 4 \in 1 .. l
          /\ \A r \in 1 .. 24 : r \in 1 .. l
      BY ONLY <1>1, <1>2, <3>1
    <3> QED
      BY <3>2 DEF l
  <2> QED
    BY <2>2, <2>3
<1>4. /\ s[1] = Around(0)[1] /\ s[2] = Around(0)[2] /\ s[4] = Around(0)[4]
      /\ s[7] = Around(0)[7] /\ s[8] = Around(0)[8] /\ s[10] = Around(0)[10]
      /\ s[15] = Around(1)[3] /\ s[21] = Around(1)[9]
      /\ s[12 * n + 1] = Specials[1] /\ s[12 * n + 2] = Specials[2]
      /\ s[12 * n + 3] = Specials[3] /\ s[12 * n + 4] = Specials[4]
  <2>1. 12 + 3 = 15 /\ 12 + 9 = 21
    OBVIOUS
  <2>2. s[12 + 3] = Around(1)[3] /\ s[12 + 9] = Around(1)[9]
    BY ONLY <1>3
  <2>3. /\ s[1] = Around(0)[1] /\ s[2] = Around(0)[2] /\ s[4] = Around(0)[4]
        /\ s[7] = Around(0)[7] /\ s[8] = Around(0)[8] /\ s[10] = Around(0)[10]
    BY ONLY <1>3
  <2>4. /\ s[12 * n + 1] = Specials[1] /\ s[12 * n + 2] = Specials[2]
        /\ s[12 * n + 3] = Specials[3] /\ s[12 * n + 4] = Specials[4]
    BY ONLY <1>1
  <2> QED
    BY ONLY <2>1, <2>2, <2>3, <2>4
<1>5. /\ Around(0)[1] = 0 /\ Around(0)[7] = Sign + 0
      /\ Around(0)[2] = Unit /\ Around(0)[8] = Sign + Unit
      /\ Around(0)[4] = OneFloat /\ Around(0)[10] = Sign + OneFloat
      /\ Around(1)[3] = Unit - 1 /\ Around(1)[9] = Sign + (Unit - 1)
  <2>1. /\ Around(0)[1] = 0 /\ Around(0)[7] = Sign + 0
        /\ Around(0)[2] = Unit + 0 /\ Around(0)[8] = Sign + (Unit + 0)
        /\ Around(0)[4] = OneFloat + 0 /\ Around(0)[10] = Sign + (OneFloat + 0)
    <3> DEFINE z == 0
    <3>1. z \in Int
      OBVIOUS
    <3> HIDE DEF z
    <3>2. /\ Around(z)[1] = z /\ Around(z)[7] = Sign + z
          /\ Around(z)[2] = Unit + z /\ Around(z)[8] = Sign + (Unit + z)
          /\ Around(z)[4] = OneFloat + z /\ Around(z)[10] = Sign + (OneFloat + z)
      BY <3>1, AroundIs
    <3> QED
      BY <3>2 DEF z
  <2>2. Around(1)[3] = Unit - 1 /\ Around(1)[9] = Sign + (Unit - 1)
    <3> DEFINE o == 1
    <3>1. o \in Int
      OBVIOUS
    <3> HIDE DEF o
    <3>2. Around(o)[3] = Unit - o /\ Around(o)[9] = Sign + (Unit - o)
      BY <3>1, AroundIs
    <3> QED
      BY <3>2 DEF o
  <2>3. Unit + 0 = Unit /\ OneFloat + 0 = OneFloat
    BY FloatBounds
  <2> QED
    BY ONLY <2>1, <2>2, <2>3
<1>6. \/ x = 0 \/ x = Unit \/ x = Unit - 1 \/ x = OneFloat \/ x = Infinity \/ x = h
      \/ x = Sign + 0 \/ x = Sign + Unit \/ x = Sign + (Unit - 1) \/ x = Sign + OneFloat
      \/ x = Sign + Infinity \/ x = Sign + h
  BY DEF Boundary, Unit, OneFloat
<1>7. Specials[1] = Infinity /\ Specials[2] = h /\ Specials[3] = Sign + Infinity /\ Specials[4] = Sign + h
  BY SpecialsAre
<1> HIDE DEF h
<1>8. \E r \in {1, 2, 4, 7, 8, 10, 15, 21, 12 * n + 1, 12 * n + 2, 12 * n + 3, 12 * n + 4} : s[r] = x
  BY ONLY <1>4, <1>5, <1>6, <1>7
<1>9. \A r \in {1, 2, 4, 7, 8, 10, 15, 21, 12 * n + 1, 12 * n + 2, 12 * n + 3, 12 * n + 4} : r \in 1 .. Len(s)
  <2>1. /\ 1 \in 1 .. Len(s) /\ 2 \in 1 .. Len(s) /\ 4 \in 1 .. Len(s) /\ 7 \in 1 .. Len(s)
        /\ 8 \in 1 .. Len(s) /\ 10 \in 1 .. Len(s) /\ 15 \in 1 .. Len(s) /\ 21 \in 1 .. Len(s)
    <3>1. \A r \in {1, 2, 4, 7, 8, 10, 15, 21} : r \in 1 .. 24
      OBVIOUS
    <3>2. \A r \in 1 .. 24 : r \in 1 .. Len(s)
      BY <1>3
    <3>3. \A r \in {1, 2, 4, 7, 8, 10, 15, 21} : r \in 1 .. Len(s)
      BY ONLY <3>1, <3>2
    <3> QED
      BY ONLY <3>3
  <2>2. /\ 12 * n + 1 \in 1 .. Len(s) /\ 12 * n + 2 \in 1 .. Len(s)
        /\ 12 * n + 3 \in 1 .. Len(s) /\ 12 * n + 4 \in 1 .. Len(s)
    BY <1>3
  <2> QED
    BY ONLY <2>1, <2>2
<1>10. Within(s, x)
  BY <1>8, <1>9 DEF Within
<1> QED
  BY <1>10 DEF s

(* The boundaries of the ints are generated, whatever the range            *)
(* (gen_vals).                                                             *)
LEMMA IntegerBoundaries ==
  ASSUME NEW tr \in Nat \ {0}, NEW x \in Boundary(FALSE)
  PROVE  Within(IntegerVals(tr), x)
<1>1. x = Sign \/ x = TMax \/ x = 0
  BY DEF Boundary
<1>0. Sign \in Nat /\ Sign >= 128 /\ TMax = Sign - 1
  BY Widths
<1> DEFINE s == IntegerVals(tr)
<1>2. CASE Exhaustive
  <2>1. Len(s) = 2 * Sign /\ \A n \in 1 .. 2 * Sign : s[n] = Word(n - 1 - Sign)
    BY <1>2, IntegerValsAre
  <2> HIDE DEF s
  <2>2. Word(1 - 1 - Sign) = Sign
    <3> DEFINE n == 1 - 1 - Sign
    <3>1. n \in Int /\ n = -Sign /\ -(2 * Sign) <= n /\ n < 0 /\ n + 2 * Sign = Sign
      BY <1>0
    <3> HIDE DEF n
    <3>2. Word(n) = n + 2 * Sign
      BY <3>1, WordIs
    <3> QED
      BY <3>1, <3>2 DEF n
  <2>3. Word(2 * Sign - 1 - Sign) = TMax
    <3> DEFINE n == 2 * Sign - 1 - Sign
    <3>1. n \in Int /\ n = TMax /\ 0 <= n /\ n < 2 * Sign
      BY <1>0
    <3> HIDE DEF n
    <3>2. Word(n) = n
      BY <3>1, WordIs
    <3> QED
      BY <3>1, <3>2 DEF n
  <2>4. Word((Sign + 1) - 1 - Sign) = 0
    <3> DEFINE n == (Sign + 1) - 1 - Sign
    <3>1. n \in Int /\ n = 0 /\ 0 <= n /\ n < 2 * Sign
      BY <1>0
    <3> HIDE DEF n
    <3>2. Word(n) = n
      BY <3>1, WordIs
    <3> QED
      BY <3>1, <3>2 DEF n
  <2>5. 1 \in 1 .. 2 * Sign /\ 2 * Sign \in 1 .. 2 * Sign /\ Sign + 1 \in 1 .. 2 * Sign
    BY <1>0
  <2>6. s[1] = Sign /\ s[2 * Sign] = TMax /\ s[Sign + 1] = 0
    BY <2>1, <2>2, <2>3, <2>4, <2>5
  <2>7. 1 \in 1 .. Len(s) /\ 2 * Sign \in 1 .. Len(s) /\ Sign + 1 \in 1 .. Len(s)
    BY <2>1, <2>5
  <2>8. Within(s, Sign)
    BY <2>6, <2>7 DEF Within
  <2>9. Within(s, TMax)
    BY <2>6, <2>7 DEF Within
  <2>10. Within(s, 0)
    BY <2>6, <2>7 DEF Within
  <2> QED
    BY <1>1, <2>8, <2>9, <2>10 DEF s
<1>3. CASE ~Exhaustive
  <2>1. Len(s) = 5 * tr /\ \A r \in 1 .. 5 : s[r] = FirstFive[r]
    BY <1>3, IntegerValsAre
  <2> HIDE DEF s
  <2>2. FirstFive[1] = Sign /\ FirstFive[2] = TMax /\ FirstFive[3] = 0
    BY DEF FirstFive
  <2>3. s[1] = Sign /\ s[2] = TMax /\ s[3] = 0
    BY <2>1, <2>2
  <2>4. 1 \in 1 .. Len(s) /\ 2 \in 1 .. Len(s) /\ 3 \in 1 .. Len(s)
    <3> DEFINE l == Len(s)
    <3>1. l = 5 * tr
      BY <2>1
    <3> HIDE DEF l
    <3>2. 1 \in 1 .. l /\ 2 \in 1 .. l /\ 3 \in 1 .. l
      BY ONLY <3>1, tr \in Nat \ {0}
    <3> QED
      BY <3>2 DEF l
  <2>5. Within(s, Sign)
    BY <2>3, <2>4 DEF Within
  <2>6. Within(s, TMax)
    BY <2>3, <2>4 DEF Within
  <2>7. Within(s, 0)
    BY <2>3, <2>4 DEF Within
  <2> QED
    BY <1>1, <2>5, <2>6, <2>7 DEF s
<1> QED
  BY <1>2, <1>3 DEF s

(* An argument takes every boundary at some place, or was fixed. *)
LEMMA PlaceExists ==
  ASSUME Typed, NEW j \in 1 .. 13, NEW arg \in 1 .. test_set[j].args,
         NEW x \in Boundary(test_set[j].isfloat)
  PROVE  LET s == ValsOf(test_set[j])[arg] IN
         \E b \in 0 .. Len(s) - 1 : has_arg[arg] \/ s[b + 1] = x
<1> DEFINE args == test_set[j].args
           isfloat == test_set[j].isfloat
           s == ValsOf(test_set[j])[arg]
           tr == ArgRange(args)
<1>1. args \in 0 .. 3 /\ isfloat \in BOOLEAN /\ (isfloat => args = 1)
  BY Table
<1>2. s = (IF has_arg[arg] THEN <<argval[arg]>> ELSE Vals(isfloat, tr)) /\ Len(s) \in 1 .. MAX_TEST_VALS
  BY ValsAre
<1>3. args \in 1 .. 3 /\ arg \in 1 .. 3
  BY <1>1
<1>4. tr \in 1 .. TEST_RANGE /\ (isfloat => tr = TEST_RANGE)
  <2> HIDE DEF args, isfloat
  <2> QED
    BY <1>1, <1>3, RangeIs
<1>5. MAX_TEST_VALS \in Nat /\ has_arg[arg] \in BOOLEAN /\ TEST_RANGE \in Nat
  <2>1. TEST_RANGE \in Nat
    BY BtestAssumption
  <2>2. MAX_TEST_VALS \in Nat
    BY <2>1 DEF MAX_TEST_VALS
  <2>3. has_arg \in [1 .. 3 -> BOOLEAN]
    BY DEF Typed
  <2> QED
    BY <1>3, <2>1, <2>2, <2>3
<1>6. CASE has_arg[arg]
  <2>1. 0 \in 0 .. Len(s) - 1
    <3> DEFINE l == Len(s)
    <3>1. l \in 1 .. MAX_TEST_VALS
      BY <1>2
    <3> HIDE DEF l
    <3>2. 0 \in 0 .. l - 1
      BY ONLY <1>5, <3>1
    <3> QED
      BY <3>2 DEF l
  <2> QED
    BY <1>6, <2>1
<1>7. CASE ~has_arg[arg]
  <2>1. s = Vals(isfloat, tr)
    BY <1>2, <1>7
  <2>2. Within(s, x)
    <3>1. CASE isfloat
      <4>1. x \in Boundary(TRUE) /\ s = FloatVals(TEST_RANGE)
        BY <1>1, <1>4, <2>1, <3>1 DEF Vals
      <4> QED
        BY <4>1, FloatBoundaries
    <3>2. CASE ~isfloat
      <4>0. isfloat = FALSE
        BY <1>1, <3>2
      <4>1. x \in Boundary(FALSE) /\ s = IntegerVals(tr)
        BY <2>1, <4>0 DEF Vals
      <4>2. tr \in Nat \ {0}
        <5> HIDE DEF tr
        <5> QED
          BY ONLY <1>4, <1>5
      <4> HIDE DEF s, tr
      <4> QED
        BY <4>1, <4>2, IntegerBoundaries
    <3> QED
      BY <3>1, <3>2
  <2> DEFINE l == Len(s)
  <2>3. l \in 1 .. MAX_TEST_VALS
    BY <1>2
  <2>4. PICK n \in 1 .. l : s[n] = x
    BY <2>2 DEF Within
  <2> HIDE DEF l
  <2>5. n - 1 \in 0 .. l - 1 /\ (n - 1) + 1 = n
    BY ONLY <1>5, <2>3, n \in 1 .. l
  <2> QED
    BY <2>4, <2>5 DEF l
<1> QED
  BY <1>5, <1>6, <1>7
(* Some tuple has every argument that was not fixed at its boundary. *)
LEMMA TupleExists ==
  ASSUME Typed, NEW j \in 1 .. 13,
         NEW x \in [DOMAIN ValsOf(test_set[j]) -> Boundary(test_set[j].isfloat)]
  PROVE  LET vals == ValsOf(test_set[j]) IN
         \E n \in 0 .. Tuples(vals) - 1 : \A arg \in DOMAIN vals :
            has_arg[arg] \/ TupleAt(vals, n)[arg] = x[arg]
<1> DEFINE vals == ValsOf(test_set[j])
           args == test_set[j].args
           Fixed(arg, b) == arg \in DOMAIN vals => has_arg[arg] \/ vals[arg][b + 1] = x[arg]
<1>1. DOMAIN vals = 1 .. args /\ args \in 0 .. 3
  BY ValsAre
<1>2. /\ Count(vals, 1) \in Nat \ {0} /\ Count(vals, 2) \in Nat \ {0} /\ Count(vals, 3) \in Nat \ {0}
  BY CountsAre
<1>3. ASSUME NEW arg \in 1 .. 3 PROVE \E b \in 0 .. Count(vals, arg) - 1 : Fixed(arg, b)
  <2>1. CASE arg \in DOMAIN vals
    <3>1. arg \in 1 .. args /\ x[arg] \in Boundary(test_set[j].isfloat)
      BY <1>1, <2>1
    <3>2. \E b \in 0 .. Len(vals[arg]) - 1 : has_arg[arg] \/ vals[arg][b + 1] = x[arg]
      BY <3>1, PlaceExists
    <3>3. Count(vals, arg) = Len(vals[arg])
      BY <2>1 DEF Count
    <3> QED
      BY <3>2, <3>3
  <2>2. CASE arg \notin DOMAIN vals
    <3>1. Count(vals, arg) = 1
      BY <2>2 DEF Count
    <3>2. 0 \in 0 .. 1 - 1
      OBVIOUS
    <3> QED
      BY <2>2, <3>1, <3>2
  <2> QED
    BY <2>1, <2>2
<1> HIDE DEF vals, args, Fixed
<1> DEFINE l1 == Count(vals, 1)
           l2 == Count(vals, 2)
           l3 == Count(vals, 3)
<1>4. PICK b1 \in 0 .. l1 - 1 : Fixed(1, b1)
  BY <1>3
<1>5. PICK b2 \in 0 .. l2 - 1 : Fixed(2, b2)
  BY <1>3
<1>6. PICK b3 \in 0 .. l3 - 1 : Fixed(3, b3)
  BY <1>3
<1>7. Tuples(vals) = l1 * l2 * l3 /\ Inner(vals) = <<l2 * l3, l3, 1>>
  BY DEF Tuples, Inner
<1>8. \A arg \in DOMAIN vals : Len(vals[arg]) = Count(vals, arg)
  BY DEF Count
<1> HIDE DEF l1, l2, l3
<1>9. l1 \in Nat \ {0} /\ l2 \in Nat \ {0} /\ l3 \in Nat \ {0}
  BY <1>2 DEF l1, l2, l3
<1>T. PICK n \in 0 .. l1 * l2 * l3 - 1 : Places(n, l1, l2, l3, b1, b2, b3)
  BY <1>9, MixedRadix
<1>10. /\ (n \div (l2 * l3)) % l1 = b1 /\ (n \div l3) % l2 = b2 /\ (n \div 1) % l3 = b3
  BY <1>T DEF Places
<1> DEFINE inner == Inner(vals)
           At(arg) == ((n \div inner[arg]) % Len(vals[arg])) + 1
<1>11. \A arg \in DOMAIN vals : TupleAt(vals, n)[arg] = vals[arg][At(arg)]
  BY DEF TupleAt
<1>12. inner[1] = l2 * l3 /\ inner[2] = l3 /\ inner[3] = 1
  BY <1>7
<1> HIDE DEF inner
<1>13. ASSUME NEW arg \in DOMAIN vals PROVE has_arg[arg] \/ TupleAt(vals, n)[arg] = x[arg]
  <2>0. arg = 1 \/ arg = 2 \/ arg = 3
    BY <1>1
  <2>1. CASE arg = 1
    <3>1. At(arg) = b1 + 1
      BY <1>8, <1>10, <1>12, <2>1 DEF l1
    <3> HIDE DEF At
    <3> QED
      BY <1>4, <1>11, <2>1, <3>1 DEF Fixed
  <2>2. CASE arg = 2
    <3>1. At(arg) = b2 + 1
      BY <1>8, <1>10, <1>12, <2>2 DEF l2
    <3> HIDE DEF At
    <3> QED
      BY <1>5, <1>11, <2>2, <3>1 DEF Fixed
  <2>3. CASE arg = 3
    <3>1. At(arg) = b3 + 1
      BY <1>8, <1>10, <1>12, <2>3 DEF l3
    <3> HIDE DEF At
    <3> QED
      BY <1>6, <1>11, <2>3, <3>1 DEF Fixed
  <2> QED
    BY <2>0, <2>1, <2>2, <2>3
<1>14. n \in 0 .. Tuples(vals) - 1
  BY <1>7
<1> QED
  BY <1>13, <1>14 DEF vals

(* A puzzle that gets points was called, for every argument that was not   *)
(* fixed, at the boundaries of the ints or of the floats (gen_vals,        *)
(* test_function).                                                         *)
THEOREM BoundariesAreTested == Spec => BoundariesTested
<1> DEFINE Reached(j) == LET vals == ValsOf(test_set[j]) IN
              \A x \in [DOMAIN vals -> Boundary(test_set[j].isfloat)] :
                 \E n \in 0 .. k : \A arg \in DOMAIN vals :
                    has_arg[arg] \/ TupleAt(vals, n)[arg] = x[arg]
           Step == \A j \in finished' \ finished : Reached(j)
<1>1. Harness /\ [Next]_vars => [Step]_vars
  <2> SUFFICES ASSUME Harness, [Next]_vars, NEW j \in finished' \ finished PROVE Reached(j)
    OBVIOUS
  <2>0. Typed /\ InBounds
    BY DEF Harness
  <2> DEFINE t == Tuples(ValsOf(test_set[i]))
  <2>1. TestOne
    <3>1. finished' # finished
      OBVIOUS
    <3>2. ~ParseOption /\ ~EndOptions /\ ~SkipFunction /\ ~EnterTest /\ ~Ring /\ ~Finish
      BY <3>1 DEF ParseOption, EndOptions, SkipFunction, EnterTest, Ring, Finish
    <3> QED
      BY <3>1, <3>2 DEF Next, vars
  <2>2. phase = "test" /\ ~(k + 1 < t) /\ j = i
    BY <2>1 DEF TestOne
  <2>3. i \in 1 .. 13
    BY <2>0, <2>2, IndexIs
  <2>4. t \in Nat \ {0}
    BY <2>0, <2>3, CountsAre
  <2>5. k \in 0 .. t - 1
    BY <2>0, <2>2 DEF InBounds
  <2> HIDE DEF t
  <2>6. 0 .. k = 0 .. t - 1
    BY ONLY <2>2, <2>4, <2>5
  <2>7. ASSUME NEW x \in [DOMAIN ValsOf(test_set[i]) -> Boundary(test_set[i].isfloat)]
        PROVE  \E n \in 0 .. t - 1 : \A arg \in DOMAIN ValsOf(test_set[i]) :
                  has_arg[arg] \/ TupleAt(ValsOf(test_set[i]), n)[arg] = x[arg]
    BY <2>0, <2>3, TupleExists DEF t
  <2>8. Reached(i)
    BY <2>6, <2>7
  <2> HIDE DEF Reached
  <2> QED
    BY <2>2, <2>8
<1>2. Spec => [][Step]_vars
  <2> HIDE DEF Step
  <2> QED
    BY <1>1, AlwaysHarness, PTL DEF Spec
<1> QED
  BY <1>2 DEF BoundariesTested
=============================================================================
