\* A buffer of two bytes, calls for one to three, up to four bytes in flight.
SPECIFICATION FairSpec
CONSTANTS
    Bytes = {x, y, NL}
    NL = NL
    RIO_BUFSIZE = 2
    Lengths = {1, 2, 3}
    MaxInFlight = 4
INVARIANTS
    RioInv
PROPERTIES
    IsByteStream
    ReadsEnd
