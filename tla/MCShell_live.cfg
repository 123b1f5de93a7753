\* Liveness: fg by pid only, ctrl-c only.
SPECIFICATION FairSpec
CONSTANTS
    MAXJOBS = 2
    PIDs = {p1, p2}
    NoPid = NoPid
    ForkError = ForkError
    Commands = {"run", "run &", "fg pid"}
    KeysTyped = {"INT"}
    JidLimit = 2
PROPERTIES
    WaitfgEnds
    ZombiesReaped
