\* csim: two sets of three lines, blocks of two bytes, four tags for each set; the
\* addresses are the first bytes of all blocks, and every byte of the first two.
\* test-trans: the submission and then the plain scan, on 13 sizes of matrices.
SPECIFICATION CachelabSpec
CONSTANTS
    s = 1
    E = 3
    b = 1
    Addresses <- SomeAddresses
    MaxUpdates = 9
    Sizes <- SomeSizes
    Registered <- SubmissionAndScan
    INT_MAX = 2147483647
CHECK_DEADLOCK FALSE
INVARIANTS
    CsimInv
    CopiesOnce
    Graded
PROPERTIES
    IsLRU
    TileStaysCached
