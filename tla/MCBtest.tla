------------------------------- MODULE MCBtest -------------------------------
EXTENDS Btest

Option(arg, number, rest) ==
    [arg |-> arg, text |-> [isfloat |-> FALSE, number |-> number, rest |-> rest]]
FloatOption(arg, bits, rest) ==
    [arg |-> arg, text |-> [isfloat |-> TRUE, number |-> bits, rest |-> rest]]
Line(fname, rating, limit, opts) ==
    [fname |-> fname, rating |-> rating, timeout_limit |-> limit, opts |-> opts]

(* All functions; one function with its arguments, signed and unsigned, too *)
(* large, given twice, with a rest, or a float; a rating, and no timeout.   *)
SomeCommandLines ==
    {Line("", 0, 10, <<>>), Line("", 1, 0, <<>>),
     Line("isLessOrEqual", 0, 10, <<Option(1, -Sign, FALSE), Option(2, 2 ^ W - 1, FALSE)>>),
     Line("isLessOrEqual", 0, 10, <<Option(1, 2 ^ W, FALSE)>>),
     Line("conditional", 0, 0, <<Option(2, 1, FALSE), Option(2, 2, FALSE)>>),
     Line("conditional", 0, 10, <<Option(3, 5, TRUE), Option(1, 0, FALSE), Option(1, 1, FALSE)>>),
     Line("floatScale2", 2, 10, <<FloatOption(1, BIAS * 2 ^ MantBits, FALSE)>>),
     Line("floatScale2", 0, 10, <<FloatOption(1, BIAS * 2 ^ MantBits, TRUE)>>)}
SomeRandom == {5, TMax - 27, Sign + 42}
==============================================================================
