\* Three children on a list with two slots; no fg command.
SPECIFICATION Spec
CONSTANTS
    MAXJOBS = 2
    PIDs = {p1, p2, p3}
    NoPid = NoPid
    ForkError = ForkError
    Commands = {"run", "run &", "bg %jid"}
    KeysTyped = {"TSTP", "QUIT"}
    JidLimit = 3
SYMMETRY PidSymmetry
INVARIANTS
    NextJidFresh
    ForegroundIsWaitedFor
PROPERTIES
    IsJobSet
    JobsChangeWithoutFg
