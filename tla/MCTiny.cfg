\* Two clients, one after the other or at once; one change of one file.
SPECIFICATION Spec
CONSTANTS
    Clients = {c1, c2}
    NoClient = NoClient
    ServerAddresses <- Addresses
    ClientAddresses <- Addresses
    TakenAddresses <- OthersHave
    Files <- Site
    Attributes <- NewAttributes
    MaxChanges = 1
    Requests <- TheRequests
    Fragments <- TheFragments
    Terminal = FALSE
CHECK_DEADLOCK FALSE
INVARIANTS
    TinyInv
    WellFormed
    LengthKept
    OwnAnswer
PROPERTIES
    Answered
