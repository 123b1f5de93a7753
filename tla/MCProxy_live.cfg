\* Liveness: memory for two objects and a cache of one unit.
SPECIFICATION FairSpec
CONSTANTS
    Threads = {t1, t2}
    Urls = {a, b}
    Objects = {o1, o2}
    NULL = NULL
    Root = Root
    MAX_OBJECT_SIZE = 1
    MAX_CACHE_SIZE = 1
PROPERTIES
    CacheCallsEnd
