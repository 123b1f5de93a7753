\* Words of eight bits, floats with four bits of exponent and three of fraction.
SPECIFICATION Spec
CONSTANTS
    W = 8
    ExpBits = 4
    MantBits = 3
    TEST_RANGE = 8
    CommandLines <- SomeCommandLines
    RandomVals <- SomeRandom
    MaxTimeouts = 2
CHECK_DEADLOCK FALSE
INVARIANTS
    PuzzlesRight
    ScoreInv
PROPERTIES
    BoundariesTested
    NothingCutOff
