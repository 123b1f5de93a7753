\* Two connections, two URLs, memory for three objects and a cache of two units.
SPECIFICATION Spec
CONSTANTS
    Threads = {t1, t2}
    Urls = {a, b}
    Objects = {o1, o2, o3}
    NULL = NULL
    Root = Root
    MAX_OBJECT_SIZE = 2
    MAX_CACHE_SIZE = 2
SYMMETRY ProxySymmetry
INVARIANTS
    MutexHeld
    CacheInv
PROPERTIES
    CachedDoNotChange
    IsRecencyCache
