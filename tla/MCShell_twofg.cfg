\* Every command line.
SPECIFICATION Spec
CONSTANTS
    MAXJOBS = 2
    PIDs = {p1, p2}
    NoPid = NoPid
    ForkError = ForkError
    Commands = {"run", "run &", "bg pid", "bg %jid", "fg pid", "fg %jid", "quit"}
    KeysTyped = {"INT", "TSTP"}
    JidLimit = 3
SYMMETRY PidSymmetry
INVARIANTS
    AtMostOneFG
