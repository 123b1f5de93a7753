-------------------------------- MODULE Btest --------------------------------
(***************************************************************************)
(* The test harness of the bit puzzles, btest.c with its table in decl.c:  *)
(* the options, the values it generates for every argument, one step for   *)
(* each call of a puzzle, the score, and the alarm that ends a test by a   *)
(* jump into test_function's frame.                                        *)
(***************************************************************************)
EXTENDS Bits, SequencesExt

CONSTANTS TEST_RANGE,
          CommandLines,    \* records: fname ("" for all), rating (0 for the table's),
                           \* timeout_limit, and opts, the options -1, -2 and -3 with
                           \* their texts: isfloat, number (a float's bits), rest
          RandomVals,      \* the words that random_val returns
          MaxTimeouts      \* bound: alarms that go off
Texts == [isfloat : {FALSE}, number : Int, rest : BOOLEAN]
           \cup [isfloat : {TRUE}, number : Words, rest : BOOLEAN]
ASSUME BtestAssumption ==
    /\ TEST_RANGE \in Nat /\ TEST_RANGE >= 4     \* 12 values for each and 4 more fit
    /\ CommandLines \subseteq [fname : STRING, rating : Nat, timeout_limit : Int,
                               opts : Seq([arg : 1 .. 3, text : Texts])]
    /\ RandomVals \subseteq Words /\ MaxTimeouts \in Nat

VARIABLES cmd,                     \* the command line, and the options read so far
          has_arg, argval,
          phase,                   \* options, next, test, done, or why it ended early
          i,                       \* run_tests' function
          k,                       \* the tuples of values tested
          errors, points, max_points,
          alarmed,                 \* the timer is running
          timeouts,                \* bound: alarms so far
          finished                 \* history: functions whose last test came out right

vars == <<cmd, has_arg, argval, phase, i, k, errors, points, max_points, alarmed, timeouts,
          finished>>

Puzzle(name, args, rating, isfloat) ==
    [name |-> name, args |-> args, rating |-> rating, isfloat |-> isfloat]
test_set ==
    <<Puzzle("bitXor", 2, 1, FALSE), Puzzle("tmin", 0, 1, FALSE), Puzzle("isTmax", 1, 1, FALSE),
      Puzzle("allOddBits", 1, 2, FALSE), Puzzle("negate", 1, 2, FALSE),
      Puzzle("isAsciiDigit", 1, 3, FALSE), Puzzle("conditional", 3, 3, FALSE),
      Puzzle("isLessOrEqual", 2, 3, FALSE), Puzzle("logicalNeg", 1, 4, FALSE),
      Puzzle("howManyBits", 1, 4, FALSE), Puzzle("floatScale2", 1, 4, TRUE),
      Puzzle("floatFloat2Int", 1, 4, TRUE), Puzzle("floatPower2", 1, 4, TRUE)>>

(* The pair of a puzzle's result and its test function's. *)
Call(name, x) ==
    CASE name = "bitXor" -> <<bitXor(x[1], x[2]), test_bitXor(x[1], x[2])>>
      [] name = "tmin" -> <<tmin, test_tmin>>
      [] name = "isTmax" -> <<isTmax(x[1]), test_isTmax(x[1])>>
      [] name = "allOddBits" -> <<allOddBits(x[1]), test_allOddBits(x[1])>>
      [] name = "negate" -> <<negate(x[1]), test_negate(x[1])>>
      [] name = "isAsciiDigit" -> <<isAsciiDigit(x[1]), test_isAsciiDigit(x[1])>>
      [] name = "conditional" -> <<conditional(x[1], x[2], x[3]),
                                   test_conditional(x[1], x[2], x[3])>>
      [] name = "isLessOrEqual" -> <<isLessOrEqual(x[1], x[2]), test_isLessOrEqual(x[1], x[2])>>
      [] name = "logicalNeg" -> <<logicalNeg(x[1]), test_logicalNeg(x[1])>>
      [] name = "howManyBits" -> <<howManyBits(x[1]), test_howManyBits(x[1])>>
      [] name = "floatScale2" -> <<floatScale2(x[1]), test_floatScale2(x[1])>>
      [] name = "floatFloat2Int" -> <<floatFloat2Int(x[1]), test_floatFloat2Int(x[1])>>
      [] name = "floatPower2" -> <<floatPower2(x[1]), test_floatPower2(x[1])>>
-----------------------------------------------------------------------------
MAX_TEST_VALS == 13 * TEST_RANGE

Random == -1       \* an array element that random_val filled; see TestOne
Lesser(x, y) == IF x < y THEN x ELSE y
BothSigns(magnitudes) == magnitudes \o [j \in DOMAIN magnitudes |-> Sign + magnitudes[j]]

FloatValsFromOne(test_range) ==           \* Mutant: the loop starts at 1.
    LET smallest_norm == 2 ^ MantBits
        one == BIAS * 2 ^ MantBits
        largest_norm == Infinity - 2 ^ MantBits
        Around(d) == BothSigns(<<d, smallest_norm + d, smallest_norm - d, one + d, one - d,
                                 largest_norm - d>>)
    IN  FlattenSeq([n \in 1 .. Lesser(test_range, 2 ^ MantBits) |-> Around(n)])
        \o BothSigns(<<Infinity, Infinity + 2 ^ (MantBits - 1)>>)

FloatVals(test_range) ==
    LET smallest_norm == 2 ^ MantBits
        one == BIAS * 2 ^ MantBits
        largest_norm == Infinity - 2 ^ MantBits
        Around(d) == BothSigns(<<d, smallest_norm + d, smallest_norm - d, one + d, one - d,
                                 largest_norm - d>>)
    IN  FlattenSeq([n \in 1 .. Lesser(test_range, 2 ^ MantBits) |-> Around(n - 1)])
        \o BothSigns(<<Infinity, Infinity + 2 ^ (MantBits - 1)>>)

IntegerVals(test_range) ==
    IF TMax - MAX_TEST_VALS <= -Sign
    THEN [n \in 1 .. 2 ^ W |-> Word(n - 1 - Sign)]
    ELSE FlattenSeq([n \in 1 .. test_range |->
             <<Sign + (n - 1), TMax - (n - 1), n - 1, Word(1 - n), Random>>])

gen_vals(isfloat, test_range, arg) ==
    CASE has_arg[arg] -> <<argval[arg]>>
      [] isfloat /\ ~has_arg[arg] -> FloatVals(test_range)
      [] OTHER -> IntegerVals(test_range)

(* TEST_RANGE for one argument, its square root for two, and for three the *)
(* power 0.333, a little less than the cube root.                          *)
ArgRange(args) ==
    CASE args = 1 -> TEST_RANGE
      [] args = 2 -> Max({1} \cup {c \in 1 .. TEST_RANGE : c * c <= TEST_RANGE})
      [] OTHER -> Max({1} \cup {c \in 1 .. TEST_RANGE : c * c * c < TEST_RANGE})

ValsOf(puzzle) ==
    [arg \in 1 .. puzzle.args |-> gen_vals(puzzle.isfloat, ArgRange(puzzle.args), arg)]

(* The loops over the arguments, the last one the innermost. *)
Count(vals, arg) == IF arg \in DOMAIN vals THEN Len(vals[arg]) ELSE 1
Tuples(vals) == Count(vals, 1) * Count(vals, 2) * Count(vals, 3)
Inner(vals) == <<Count(vals, 2) * Count(vals, 3), Count(vals, 3), 1>>
TupleAt(vals, n) ==
    [arg \in DOMAIN vals |-> vals[arg][((n \div Inner(vals)[arg]) % Len(vals[arg])) + 1]]
-----------------------------------------------------------------------------
Init ==
    /\ cmd \in CommandLines
    /\ has_arg = [arg \in 1 .. 3 |-> FALSE] /\ argval = [arg \in 1 .. 3 |-> 0]
    /\ phase = "options" /\ i = 1 /\ k = 0
    /\ errors = 0 /\ points = 0 /\ max_points = 0
    /\ alarmed = FALSE /\ timeouts = 0 /\ finished = {}

get_num_valTakesAll(text, old) == <<TRUE, Word(text.number)>>    \* Mutant: no range check.

(* The bits of a float with nothing behind it; for an integer that fits in  *)
(* a word, signed or unsigned, the code looks at the old value and not at   *)
(* what is behind it.                                                       *)
get_num_val(text, old) ==
    IF text.isfloat
    THEN IF text.rest THEN <<FALSE, old>> ELSE <<TRUE, text.number>>
    ELSE LET upperbits == text.number \div Sign
         IN  IF old = 0 /\ upperbits \in {-1, 0, 1} THEN <<TRUE, Word(text.number)>>
             ELSE <<FALSE, old>>

ParseOption ==
    /\ phase = "options" /\ cmd.opts # <<>>
    /\ LET opt == Head(cmd.opts)
           got == get_num_val(opt.text, argval[opt.arg])
       IN  /\ has_arg' = [has_arg EXCEPT ![opt.arg] = got[1]]
           /\ argval' = [argval EXCEPT ![opt.arg] = got[2]]
           /\ phase' = IF got[1] THEN "options" ELSE "bad argument"
    /\ cmd' = [cmd EXCEPT !.opts = Tail(@)]
    /\ UNCHANGED <<i, k, errors, points, max_points, alarmed, timeouts, finished>>

EndOptions ==
    /\ phase = "options" /\ cmd.opts = <<>> /\ phase' = "next"
    /\ UNCHANGED <<cmd, has_arg, argval, i, k, errors, points, max_points, alarmed, timeouts,
                   finished>>

SkipFunction ==
    /\ phase = "next" /\ i <= Len(test_set) /\ cmd.fname \notin {"", test_set[i].name}
    /\ i' = i + 1
    /\ UNCHANGED <<cmd, has_arg, argval, phase, k, errors, points, max_points, alarmed,
                   timeouts, finished>>

(* test_function generates its values, saves its frame and sets the alarm. *)
EnterTest ==
    /\ phase = "next" /\ i <= Len(test_set) /\ cmd.fname \in {"", test_set[i].name}
    /\ phase' = "test" /\ k' = 0
    /\ alarmed' = (alarmed \/ cmd.timeout_limit > 0)
    /\ UNCHANGED <<cmd, has_arg, argval, i, errors, points, max_points, timeouts, finished>>

(* It returns to run_tests; nothing turns the alarm off. *)
Return(terrors) ==
    LET rating == IF cmd.rating # 0 THEN cmd.rating ELSE test_set[i].rating
    IN  /\ errors' = errors + terrors
        /\ points' = points + (IF terrors = 0 THEN rating ELSE 0)
        /\ max_points' = max_points + rating
        /\ i' = i + 1 /\ k' = 0 /\ phase' = "next"

(* The k-th tuple, with some words where random_val was asked. *)
Inputs(vals) ==
    LET x == TupleAt(vals, k)
    IN  {[arg \in DOMAIN x |-> IF x[arg] = Random THEN r[arg] ELSE x[arg]] :
            r \in [DOMAIN x -> RandomVals]}

(* One call of the puzzle and its test function; the first error returns,   *)
(* and so does the last tuple.                                              *)
TestOne ==
    /\ phase = "test"
    /\ LET vals == ValsOf(test_set[i]) IN
       \E x \in Inputs(vals) :
          LET results == Call(test_set[i].name, x) IN
          IF results[1] # results[2] THEN Return(1) /\ UNCHANGED finished
          ELSE IF k + 1 < Tuples(vals)
          THEN k' = k + 1 /\ UNCHANGED <<errors, points, max_points, i, phase, finished>>
          ELSE Return(0) /\ finished' = finished \cup {i}
    /\ UNCHANGED <<cmd, has_arg, argval, alarmed, timeouts>>

RingReturnsZero ==                         \* Mutant: errors keeps its value.
    /\ alarmed /\ timeouts < MaxTimeouts /\ phase = "test"
    /\ alarmed' = FALSE /\ timeouts' = timeouts + 1 /\ Return(0)
    /\ UNCHANGED <<cmd, has_arg, argval, finished>>

(* The alarm goes off: siglongjmp to the saved frame, which returns one     *)
(* error.  Between two tests that frame is gone, and what follows is        *)
(* undefined.                                                               *)
Ring ==
    /\ alarmed /\ timeouts < MaxTimeouts /\ phase \in {"test", "next"}
    /\ alarmed' = FALSE /\ timeouts' = timeouts + 1
    /\ IF phase = "test" THEN Return(1)
       ELSE phase' = "lost" /\ UNCHANGED <<i, k, errors, points, max_points>>
    /\ UNCHANGED <<cmd, has_arg, argval, finished>>

Finish ==
    /\ phase = "next" /\ i > Len(test_set) /\ phase' = "done"
    /\ UNCHANGED <<cmd, has_arg, argval, i, k, errors, points, max_points, alarmed, timeouts,
                   finished>>

Next == ParseOption \/ EndOptions \/ SkipFunction \/ EnterTest \/ TestOne \/ Ring \/ Finish

Spec == Init /\ [][Next]_vars
-----------------------------------------------------------------------------
Selected(j) == cmd.fname \in {"", test_set[j].name}
Rating(j) == IF cmd.rating # 0 THEN cmd.rating ELSE test_set[j].rating
Corners == {0, 1, TMax, Sign, 2 ^ W - 1}

TypeOK ==
    /\ has_arg \in [1 .. 3 -> BOOLEAN] /\ argval \in [1 .. 3 -> Words]
    /\ phase \in {"options", "next", "test", "done", "bad argument", "lost"}
    /\ i \in 1 .. Len(test_set) + 1 /\ finished \subseteq DOMAIN test_set
    /\ phase = "test" => k \in 0 .. Tuples(ValsOf(test_set[i])) - 1
    /\ alarmed \in BOOLEAN /\ timeouts \in 0 .. MaxTimeouts

(* The largest exponent with a fraction: the code's exponent becomes that  *)
(* of infinity and the fraction stays, which makes a NaN.                  *)
ScalesToNaN(uf) == uf % Sign \in Infinity - Fraction .. Infinity - 1

Agrees(name, x) == LET results == Call(name, x) IN results[1] = results[2]

(* Every puzzle agrees with its test function on every word, on every pair *)
(* of words, or on every word with pairs of corner values; floatScale2 not *)
(* on the largest floats (bits.c, tests.c).                                *)
PuzzlesRight ==
    phase = "test" /\ k = 0 /\ cmd.opts = <<>> /\ cmd.fname = "" /\ timeouts = 0 =>
        LET name == test_set[i].name IN
        CASE test_set[i].args = 0 -> Agrees(name, <<>>)
          [] test_set[i].args = 1 ->
                \A x \in Words : Agrees(name, <<x>>) \/ (name = "floatScale2" /\ ScalesToNaN(x))
          [] test_set[i].args = 2 -> \A x, y \in Words : Agrees(name, <<x, y>>)
          [] test_set[i].args = 3 -> \A x \in Words, y, z \in Corners : Agrees(name, <<x, y, z>>)

(* Points are given for exactly the functions all of whose tests were run  *)
(* and came out right; a test that an alarm ended gives none (run_tests,   *)
(* timeout_handler).                                                       *)
PointsAreEarned ==
    /\ points = MapThenSumSet(Rating, finished)
    /\ max_points = MapThenSumSet(Rating, {j \in 1 .. i - 1 : Selected(j)})
    /\ errors = Cardinality({j \in 1 .. i - 1 : Selected(j)} \ finished)

(* What gen_vals generates fits into the array that test_function has for  *)
(* every argument (MAX_TEST_VALS).                                         *)
FitsArray ==
    phase = "test" => \A vals \in Range(ValsOf(test_set[i])) : Len(vals) <= MAX_TEST_VALS

Boundary(isfloat) ==
    IF isfloat THEN LET smallest_norm == 2 ^ MantBits
                        magnitudes == {0, smallest_norm, smallest_norm - 1, BIAS * 2 ^ MantBits,
                                       Infinity, Infinity + 2 ^ (MantBits - 1)}
                    IN  magnitudes \cup {Sign + m : m \in magnitudes}
    ELSE {Sign, TMax, 0}

(* A puzzle that gets points was called, for every argument that was not   *)
(* fixed, at the boundaries: the least and the largest int and zero, or of *)
(* the floats the zeros, both sides of the smallest normalized one, one,   *)
(* infinity and a NaN, with both signs (gen_vals, test_function).          *)
BoundariesTested ==
    [][\A j \in finished' \ finished : LET vals == ValsOf(test_set[j]) IN
         \A x \in [DOMAIN vals -> Boundary(test_set[j].isfloat)] :
            \E n \in 0 .. k : \A arg \in DOMAIN vals :
                has_arg[arg] \/ TupleAt(vals, n)[arg] = x[arg]]_vars

(* A number that was taken for an argument is the argument: no bit of it   *)
(* was cut off (get_num_val, main).                                        *)
NothingCutOff ==
    [][\A arg \in 1 .. 3 : has_arg'[arg] /\ cmd.opts # cmd'.opts /\ Head(cmd.opts).arg = arg =>
         LET number == Head(cmd.opts).text.number IN
         argval'[arg] = number \/ Signed(argval'[arg]) = number]_vars
(* The harness stays in its tables and arrays, and its score is right      *)
(* (test_function, run_tests).                                             *)
ScoreInv == TypeOK /\ FitsArray /\ PointsAreEarned

=============================================================================
