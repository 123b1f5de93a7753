\* Every command line, two children and a list with room for both.
SPECIFICATION Spec
CONSTANTS
    MAXJOBS = 2
    PIDs = {p1, p2}
    NoPid = NoPid
    ForkError = ForkError
    Commands = {"run", "run &", "bg pid", "bg %jid", "fg pid", "fg %jid", "quit"}
    KeysTyped = {"INT", "TSTP"}
    JidLimit = 2
SYMMETRY PidSymmetry
INVARIANTS
    TypeOK
    ListIsTrue
    NoChildForgotten
    SleepsForLiveJob
PROPERTIES
    WaitsForForeground
    KeysSpareBackground
