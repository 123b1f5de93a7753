-------------------------------- MODULE Bits --------------------------------
(***************************************************************************)
(* The bit puzzles of bits.c and the test functions of tests.c they are    *)
(* compared with, over words of W bits: a word is the number of its bits,  *)
(* and the constants of the code are those of the width.  A float has      *)
(* 1 + ExpBits + MantBits = W bits.                                        *)
(***************************************************************************)
EXTENDS Integers, Sequences, FiniteSetsExt

CONSTANTS W, ExpBits, MantBits
ASSUME WidthAssumption ==
    /\ \E log \in 3 .. 5 : W = 2 ^ log           \* the digits need a byte
    /\ ExpBits \in Nat \ {0, 1} /\ MantBits \in Nat \ {0} /\ 1 + ExpBits + MantBits = W
    /\ W <= 2 ^ (ExpBits - 1) + 1                \* every int is below the largest float

Words == 0 .. 2 ^ W - 1
Sign == 2 ^ (W - 1)
TMax == Sign - 1
Signed(x) == IF x >= Sign THEN x - 2 ^ W ELSE x

(* The operators of C on words; >> copies the sign. *)
Word(n) == n % 2 ^ W
Complement(x) == 2 ^ W - 1 - x
LogicalNot(x) == IF x = 0 THEN 1 ELSE 0
Truth(p) == IF p THEN 1 ELSE 0
Left(x, k) == Word(x * 2 ^ k)
Right(x, k) == Word(Signed(x) \div 2 ^ k)
RightUnsigned(x, k) == x \div 2 ^ k

(* The bits that are set in a word, and the word that has them. *)
Ones(x) == {k \in 0 .. W - 1 : (x \div 2 ^ k) % 2 = 1}
Number(bits) == MapThenSumSet(LAMBDA k : 2 ^ k, bits)
x & y == Number(Ones(x) \cap Ones(y))
x | y == Number(Ones(x) \cup Ones(y))
x ^^ y == Number((Ones(x) \ Ones(y)) \cup (Ones(y) \ Ones(x)))

Negative(x) == Right(x, W - 1) & 1

(* W / 2, W / 4, ..., 1 *)
Halves == LET log == CHOOSE n \in 3 .. 5 : W = 2 ^ n IN [k \in 1 .. log |-> W \div 2 ^ k]

(* Shifted by each of the first n and combined with what it was. *)
AndShifted(x, n) ==
    LET and[j \in 0 .. n] == IF j = 0 THEN x
                             ELSE LET y == and[j - 1] IN Right(y, Halves[j]) & y
    IN  and[n]
-----------------------------------------------------------------------------
bitXor(x, y) == Complement(Complement(x) & Complement(y)) & Complement(x & y)
test_bitXor(x, y) == x ^^ y

tmin == Left(1, W - 1)
test_tmin == Sign

isTmax(x) == LET y == Word(x + 1)
             IN  LogicalNot(LogicalNot(y)) & LogicalNot(Complement(x ^^ y))
test_isTmax(x) == Truth(x = TMax)

allOddBits(x) == Right(AndShifted(x, Len(Halves) - 1), 1) & 1
test_allOddBits(x) == Truth(\A k \in {n \in 1 .. W - 1 : n % 2 = 1} : x & Left(1, k) # 0)

negate(x) == Word(Complement(x) + 1)
test_negate(x) == Word(-Signed(x))

isAsciiDigit(x) ==
    LET upperBound == Word(Left(1, W - 1) + Word(Complement(48) + 1))
        lowerBound == Complement(57)
    IN  Negative(Word(x + upperBound)) & Negative(Word(x + lowerBound)) & 1
test_isAsciiDigit(x) == Truth(48 <= Signed(x) /\ Signed(x) <= 57)

conditional(x, y, z) ==
    LET mask == Word(Complement(LogicalNot(x)) + 1)
    IN  (mask & z) | (Complement(mask) & y)
test_conditional(x, y, z) == IF x # 0 THEN y ELSE z

isLessOrEqualBySign(x, y) ==          \* Mutant: the sign of a difference that overflows.
    LET diff == Word(x + Word(Complement(y) + 1)) IN Negative(diff) | LogicalNot(diff)

isLessOrEqual(x, y) ==
    LET sx == Negative(x)
        sy == Negative(y)
        diff == Word(x + Word(Complement(y) + 1))
    IN  (LogicalNot(sx ^^ sy) & (Negative(diff) | LogicalNot(diff))) | (sx & LogicalNot(sy))
test_isLessOrEqual(x, y) == Truth(Signed(x) <= Signed(y))

logicalNeg(x) == AndShifted(Complement(x), Len(Halves)) & 1
test_logicalNeg(x) == LogicalNot(x)

(* A binary search for the highest bit that is not the sign. *)
howManyBits(x) ==
    LET search[j \in 0 .. Len(Halves)] ==
            IF j = 0 THEN [x |-> x ^^ Right(x, W - 1), n |-> 0]
            ELSE LET y == search[j - 1]
                     upper == Truth(Right(y.x, Halves[j]) # 0) * Halves[j]
                 IN  [x |-> Right(y.x, upper), n |-> y.n + upper]
        last == search[Len(Halves)]
    IN  last.n + last.x + 1
test_howManyBits(x) ==
    LET a == IF Signed(x) < 0 THEN Word(-Signed(x) - 1) ELSE x
    IN  1 + (CHOOSE cnt \in 0 .. W : a < 2 ^ cnt /\ (cnt = 0 \/ a >= 2 ^ (cnt - 1)))
-----------------------------------------------------------------------------
BIAS == 2 ^ (ExpBits - 1) - 1
Fraction == 2 ^ MantBits - 1               \* 0x007fffff
Infinity == (2 ^ ExpBits - 1) * 2 ^ MantBits      \* 0x7f800000

floatScale2(uf) ==
    LET s == uf & Sign
        e == uf & Infinity
        em == uf & TMax
    IN  CASE e = Infinity -> uf
          [] e = 0 -> s | Left(em, 1)
          [] OTHER -> s | Word(e + 2 ^ MantBits) | (uf & Fraction)

floatFloat2Int(uf) ==
    LET e == uf & Infinity
        m == (uf & Fraction) | 2 ^ MantBits
        E == RightUnsigned(e, MantBits)
        magnitude == IF E >= BIAS + MantBits THEN Left(m, E - (BIAS + MantBits))
                     ELSE RightUnsigned(m, BIAS + MantBits - E)
    IN  CASE e < BIAS * 2 ^ MantBits -> 0
          [] e > (BIAS + W - 2) * 2 ^ MantBits -> Sign
          [] OTHER -> IF uf & Sign = 0 THEN magnitude ELSE Word(Complement(magnitude) + 1)

Smallest == -(BIAS - 1 + MantBits)         \* the exponent of the smallest float

floatPower2(x) ==
    CASE Signed(x) < Smallest -> 0
      [] Signed(x) \in Smallest .. -BIAS -> Left(1, Signed(x) - Smallest)
      [] Signed(x) \in 1 - BIAS .. BIAS -> Left(Signed(x) + BIAS, MantBits)
      [] OTHER -> Infinity
-----------------------------------------------------------------------------
(* The floating point arithmetic of tests.c, on exact values: u2f gives the *)
(* magnitude of a finite float in units of the smallest one.                *)
u2f(magnitude) ==
    LET e == magnitude \div 2 ^ MantBits
        m == magnitude % 2 ^ MantBits
    IN  IF e = 0 THEN m ELSE (2 ^ MantBits + m) * 2 ^ (e - 1)

(* Every value that is asked for is a float or beyond the largest. *)
f2u(value) ==
    IF value > u2f(Infinity - 1) THEN Infinity
    ELSE CHOOSE magnitude \in 0 .. Infinity - 1 : u2f(magnitude) = value

test_floatScale2(uf) ==
    LET magnitude == uf % Sign IN
    IF magnitude >= Infinity THEN uf       \* NaN, and twice infinity
    ELSE uf - magnitude + f2u(2 * u2f(magnitude))

(* The conversion of a float that no int can hold gives the least int. *)
test_floatFloat2Int(uf) ==
    LET magnitude == uf % Sign
        n == u2f(magnitude) \div 2 ^ (-Smallest)
        value == IF uf >= Sign THEN -n ELSE n
    IN  IF magnitude < Infinity /\ value \in -Sign .. TMax THEN Word(value) ELSE Sign

(* result and p2 are powers of two, known by their exponents: beyond the    *)
(* largest it is infinity, below the smallest it is rounded to zero.        *)
Huge == 2 ^ (W + 1)
Product(e1, e2) == IF e1 + e2 > BIAS THEN Huge
                   ELSE IF e1 + e2 < Smallest THEN -Huge ELSE e1 + e2

PowerLoop(n, half) ==
    LET loop[j \in 0 .. W] ==
            IF j = 0 THEN [x |-> n, result |-> 0, p2 |-> half]
            ELSE LET l == loop[j - 1]
                 IN  IF l.x = 0 THEN l
                     ELSE [x |-> l.x \div 2, p2 |-> Product(l.p2, l.p2),
                           result |-> IF l.x % 2 = 1 THEN Product(l.result, l.p2) ELSE l.result]
    IN  loop[W].result

test_floatPower2(x) ==
    LET n == Signed(x)
        e == IF n < 0 THEN PowerLoop(-n, -1) ELSE PowerLoop(n, 1)
    IN  CASE x = Sign -> 0
          [] x # Sign /\ e = Huge -> Infinity
          [] x # Sign /\ e = -Huge -> 0
          [] OTHER -> f2u(2 ^ (e - Smallest))
=============================================================================
