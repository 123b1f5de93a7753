-------------------------------- MODULE Proxy --------------------------------
(***************************************************************************)
(* The caching web proxy: the threads of proxy.c, one per connection, and  *)
(* the object cache of cache.c, a linked list in memory that they share    *)
(* under one semaphore.                                                    *)
(*                                                                         *)
(* The list is the one of the code: a thread walks it with its own         *)
(* pointers p and q, and memory is handed out again once it is freed.      *)
(* A line of a header or a buffer of a body is a unit, and sizes count     *)
(* units; what a unit says does not matter.                                *)
(*                                                                         *)
(* Rio_writen ends the process when a write fails, and the read wrappers   *)
(* do when the connection was reset: one broken connection stops them all. *)
(***************************************************************************)
EXTENDS Naturals, FiniteSetsExt

CONSTANTS Threads,          \* connections open at the same time
          Urls,             \* what is asked for: host:port/uri
          Objects,          \* the memory: pieces that hold one object_t each
          NULL, Root,       \* no object; the root object of the list
          MAX_OBJECT_SIZE, MAX_CACHE_SIZE
ASSUME MemoryAssumption == /\ Objects # {} /\ IsFiniteSet(Objects)
                           /\ NULL \notin Objects \cup {Root} /\ Root \notin Objects
ASSUME SizesAssumption == /\ MAX_OBJECT_SIZE \in Nat /\ MAX_CACHE_SIZE \in Nat
                          /\ MAX_OBJECT_SIZE <= MAX_CACHE_SIZE

VARIABLES
    running,     \* the process has not exited
    mutex,       \* the semaphore of cache.c
    size,        \* cachep->size
    next,        \* the next pointers of the root and of every object
    data,        \* url, size and obj_bufptr # NULL of every object
    allocated,   \* objects handed out by malloc and not freed
    pc,          \* where each thread is
    want,        \* the url its client asked for
    obj,         \* its local obj in doit
    p, q         \* its locals in fetch_object and remove_object

cacheVars == <<mutex, size, next>>
memVars == <<data, allocated>>
walkVars == <<p, q>>
threadVars == <<want, obj>>
vars == <<running, mutex, size, next, data, allocated, pc, want, obj, p, q>>

Pointers == Objects \cup {NULL}

Init ==
    /\ running = TRUE /\ mutex = 1 /\ size = 0
    /\ next = [o \in Objects \cup {Root} |-> NULL]
    /\ data = [o \in Objects |-> [url |-> NULL, size |-> 0, open |-> TRUE]]
    /\ allocated = {}
    /\ pc = [t \in Threads |-> "idle"]
    /\ want = [t \in Threads |-> NULL] /\ obj = [t \in Threads |-> NULL]
    /\ p = [t \in Threads |-> NULL] /\ q = [t \in Threads |-> NULL]

At(t, label) == running /\ pc[t] = label
Goto(t, label) == pc' = [pc EXCEPT ![t] = label]
Set(f, t, x) == [f EXCEPT ![t] = x]

(* Only the program counter of t changes. *)
Only(t, from, to) ==
    /\ At(t, from) /\ Goto(t, to)
    /\ UNCHANGED <<running, cacheVars, memVars, threadVars, walkVars>>

(* exit, or a signal that kills the process: every thread is gone. *)
ProcessEnds ==
    /\ running' = FALSE
    /\ UNCHANGED <<cacheVars, memVars, pc, threadVars, walkVars>>
-----------------------------------------------------------------------------
(* main accepts a connection and creates a detached thread for it. *)
Accept(t) == Only(t, "idle", "request")

(* doit: the request line. *)
Request(t, url) ==
    /\ At(t, "request")
    /\ want' = Set(want, t, url) /\ Goto(t, "lock fetch")
    /\ UNCHANGED <<running, cacheVars, memVars, obj, walkVars>>

NoRequest(t) == Only(t, "request", "close")     \* end of file, or not a GET

(* fetch_object: P, then the walk along the list. *)

LockFetch(t) ==
    /\ At(t, "lock fetch") /\ mutex = 1
    /\ mutex' = 0 /\ Goto(t, "find")
    /\ p' = Set(p, t, Root) /\ q' = Set(q, t, next[Root])
    /\ UNCHANGED <<running, size, next, memVars, threadVars>>

FindNext(t) ==
    /\ At(t, "find") /\ q[t] # NULL /\ data[q[t]].url # want[t]
    /\ p' = Set(p, t, q[t]) /\ q' = Set(q, t, next[q[t]])
    /\ UNCHANGED <<running, cacheVars, memVars, pc, threadVars>>

(* Mutant: a found object stays where it is in the list. *)
HitInPlace(t) ==
    /\ At(t, "find") /\ q[t] # NULL /\ data[q[t]].url = want[t]
    /\ mutex' = 1 /\ obj' = Set(obj, t, q[t]) /\ Goto(t, "serve")
    /\ p' = Set(p, t, NULL) /\ q' = Set(q, t, NULL)
    /\ UNCHANGED <<running, size, next, memVars, want>>

(* The object found moves to the head of the list; V. *)
Hit(t) ==
    /\ At(t, "find") /\ q[t] # NULL /\ data[q[t]].url = want[t]
    /\ LET unlinked == [next EXCEPT ![p[t]] = next[q[t]]]
       IN  next' = [unlinked EXCEPT ![q[t]] = unlinked[Root], ![Root] = q[t]]
    /\ mutex' = 1 /\ obj' = Set(obj, t, q[t]) /\ Goto(t, "serve")
    /\ p' = Set(p, t, NULL) /\ q' = Set(q, t, NULL)
    /\ UNCHANGED <<running, size, memVars, want>>

Miss(t) ==
    /\ At(t, "find") /\ q[t] = NULL
    /\ mutex' = 1 /\ Goto(t, "malloc") /\ p' = Set(p, t, NULL)
    /\ UNCHANGED <<running, size, next, memVars, threadVars, q>>

(* The object found is written to the client, after V. *)
Serve(t) == Only(t, "serve", "close")

(* A new object for the response: malloc and init_object. *)
Malloc(t, o) ==
    /\ At(t, "malloc") /\ o \notin allocated
    /\ allocated' = allocated \cup {o}
    /\ data' = [data EXCEPT ![o] = [url |-> want[t], size |-> 0, open |-> TRUE]]
    /\ next' = [next EXCEPT ![o] = NULL]
    /\ obj' = Set(obj, t, o) /\ Goto(t, "connect")
    /\ UNCHANGED <<running, mutex, size, want, walkVars>>

(* Malloc returns NULL when there is no memory: init_object writes through it.*)
OutOfMemory(t) == At(t, "malloc") /\ allocated = Objects /\ ProcessEnds

(* Open_clientfd, the request line; a failed connect leaves obj allocated. *)
Connect(t) == Only(t, "connect", "first header")
ConnectFails(t) == Only(t, "connect", "close")

(* read_requesthdrs.  At the end of the client's data Rio_readlineb leaves *)
(* buf as it is: the loop writes the last header again, for ever.  Before  *)
(* the first header buf is not initialized: it may end the loop, or not.   *)
Header(t) == Only(t, "first header", "headers") \/ Only(t, "headers", "headers")
LastHeader(t) ==
    \/ Only(t, "first header", "relay header")
    \/ Only(t, "headers", "relay header")
HeadersEnd(t) ==
    \/ Only(t, "first header", "spin")
    \/ Only(t, "headers", "spin")

(* receive_object of a unit, which closes an object that gets too large. *)
receive_object(o) ==
    LET d == data[o]
    IN  data' = IF ~d.open THEN data
                ELSE IF d.size + 1 > MAX_OBJECT_SIZE THEN [data EXCEPT ![o].open = FALSE]
                ELSE [data EXCEPT ![o].size = d.size + 1]

(* doit relays the response; one that breaks off leaves obj allocated. *)
RelayHeader(t, to) ==
    /\ At(t, "relay header") /\ to \in {"relay header", "relay body"}
    /\ receive_object(obj[t]) /\ Goto(t, to)
    /\ UNCHANGED <<running, cacheVars, allocated, threadVars, walkVars>>

RelayBody(t) ==
    /\ At(t, "relay body")
    /\ receive_object(obj[t])
    /\ UNCHANGED <<running, cacheVars, allocated, pc, threadVars, walkVars>>

ResponseEnds(t) == Only(t, "relay body", "insert")
ResponseFails(t) ==
    Only(t, "relay header", "close") \/ Only(t, "relay body", "close")

(* insert_object: an object that got too large is not saved, nor freed. *)
TooLarge(t) == Only(t, "insert", "close") /\ ~data[obj[t]].open

LockInsert(t) ==
    /\ At(t, "insert") /\ data[obj[t]].open /\ mutex = 1
    /\ mutex' = 0 /\ Goto(t, "make room")
    /\ UNCHANGED <<running, size, next, memVars, threadVars, walkVars>>

Fits(o) == size + data[o].size <= MAX_CACHE_SIZE

(* remove_object, as long as obj does not fit: the walk to the last object, *)
(* which is then unlinked and freed.                                        *)
StartRemove(t) ==
    /\ At(t, "make room") /\ ~Fits(obj[t]) /\ next[Root] # NULL
    /\ p' = Set(p, t, Root) /\ q' = Set(q, t, next[Root]) /\ Goto(t, "find last")
    /\ UNCHANGED <<running, cacheVars, memVars, threadVars>>

FindLast(t) ==
    /\ At(t, "find last") /\ next[q[t]] # NULL
    /\ p' = Set(p, t, q[t]) /\ q' = Set(q, t, next[q[t]])
    /\ UNCHANGED <<running, cacheVars, memVars, pc, threadVars>>

RemoveLastKeepsSize(t) ==     \* Mutant: cachep->size is not reduced.
    /\ At(t, "find last") /\ next[q[t]] = NULL
    /\ next' = [next EXCEPT ![p[t]] = NULL]
    /\ allocated' = allocated \ {q[t]}
    /\ p' = Set(p, t, NULL) /\ q' = Set(q, t, NULL) /\ Goto(t, "make room")
    /\ UNCHANGED <<running, mutex, size, data, threadVars>>

RemoveLast(t) ==
    /\ At(t, "find last") /\ next[q[t]] = NULL
    /\ next' = [next EXCEPT ![p[t]] = NULL]
    /\ size' = size - data[q[t]].size
    /\ allocated' = allocated \ {q[t]}
    /\ p' = Set(p, t, NULL) /\ q' = Set(q, t, NULL) /\ Goto(t, "make room")
    /\ UNCHANGED <<running, mutex, data, threadVars>>

LinkForgetsV(t) ==            \* Mutant: insert_object returns without V.
    /\ At(t, "make room") /\ Fits(obj[t])
    /\ next' = [next EXCEPT ![obj[t]] = next[Root], ![Root] = obj[t]]
    /\ size' = size + data[obj[t]].size
    /\ Goto(t, "close")
    /\ UNCHANGED <<running, mutex, memVars, threadVars, walkVars>>

LinkThenFill(t) ==            \* Mutant: obj is saved first and filled afterwards.
    /\ At(t, "make room") /\ Fits(obj[t])
    /\ next' = [next EXCEPT ![obj[t]] = next[Root], ![Root] = obj[t]]
    /\ size' = size + data[obj[t]].size
    /\ mutex' = 1 /\ Goto(t, "relay body")
    /\ UNCHANGED <<running, memVars, threadVars, walkVars>>

(* obj is linked in at the head of the list; V. *)
Link(t) ==
    /\ At(t, "make room") /\ Fits(obj[t])
    /\ next' = [next EXCEPT ![obj[t]] = next[Root], ![Root] = obj[t]]
    /\ size' = size + data[obj[t]].size
    /\ mutex' = 1 /\ Goto(t, "close")
    /\ UNCHANGED <<running, memVars, threadVars, walkVars>>

(* The thread closes its connection and ends. *)
Close(t) ==
    /\ At(t, "close") /\ Goto(t, "idle")
    /\ want' = Set(want, t, NULL) /\ obj' = Set(obj, t, NULL)
    /\ UNCHANGED <<running, cacheVars, memVars, walkVars>>

(* A write to a closed connection, or a read from a reset one. *)
ConnectionBreaks(t) ==
    /\ running /\ pc[t] \in {"request", "serve", "first header", "headers", "spin",
                              "relay header", "relay body"}
    /\ ProcessEnds

Gone == ~running /\ UNCHANGED vars

InCache(t) == FindNext(t) \/ Hit(t) \/ Miss(t) \/ TooLarge(t)
              \/ StartRemove(t) \/ FindLast(t) \/ RemoveLast(t) \/ Link(t)

Network(t) == \/ Accept(t) \/ (\E url \in Urls : Request(t, url)) \/ NoRequest(t)
              \/ Serve(t) \/ Connect(t) \/ ConnectFails(t)
              \/ Header(t) \/ LastHeader(t) \/ HeadersEnd(t)
              \/ (\E to \in {"relay header", "relay body"} : RelayHeader(t, to))
              \/ RelayBody(t) \/ ResponseEnds(t) \/ ResponseFails(t)
              \/ ConnectionBreaks(t)

Next == \/ \E t \in Threads :
              \/ Network(t) \/ InCache(t) \/ LockFetch(t) \/ LockInsert(t)
              \/ (\E o \in Objects : Malloc(t, o)) \/ OutOfMemory(t)
              \/ Close(t)
        \/ Gone

Spec == Init /\ [][Next]_vars

(* A thread inside the cache runs on, and one that waits for the semaphore *)
(* is not passed over for ever; nothing is assumed of the network.         *)
Fairness == \A t \in Threads : /\ WF_vars(InCache(t))
                               /\ SF_vars(LockFetch(t)) /\ SF_vars(LockInsert(t))
FairSpec == Spec /\ Fairness
-----------------------------------------------------------------------------
(* The list, read off the pointers: Nth(n) is its n-th object. *)
N == Cardinality(Objects)
Nth[n \in 0 .. N + 1] ==
    IF n = 0 THEN Root ELSE IF Nth[n - 1] = NULL THEN NULL ELSE next[Nth[n - 1]]
Cached == {Nth[n] : n \in 1 .. N} \ {NULL}

Filling == {"connect", "first header", "headers", "spin", "relay header",
            "relay body", "insert", "make room", "find last"}
Labels == {"idle", "request", "lock fetch", "find", "serve", "malloc", "close"} \cup Filling

TypeOK ==
    /\ running \in BOOLEAN /\ mutex \in {0, 1} /\ size \in 0 .. MAX_CACHE_SIZE
    /\ next \in [Objects \cup {Root} -> Pointers]
    /\ data \in [Objects -> [url : Urls \cup {NULL}, size : 0 .. MAX_OBJECT_SIZE,
                             open : BOOLEAN]]
    /\ allocated \subseteq Objects
    /\ pc \in [Threads -> Labels] /\ want \in [Threads -> Urls \cup {NULL}]
    /\ obj \in [Threads -> Pointers]
    /\ p \in [Threads -> Pointers \cup {Root}] /\ q \in [Threads -> Pointers]

(* The semaphore is taken exactly while one thread is inside the cache:    *)
(* every path through fetch_object and insert_object gives it back.        *)
Inside == {t \in Threads : pc[t] \in {"find", "make room", "find last"}}
MutexHeld == /\ mutex = 0 <=> Inside # {}
             /\ \A t, u \in Inside : t = u

(* The list ends, and holds only memory that is allocated (fetch_object,   *)
(* insert_object, remove_object under the semaphore).                      *)
ListIsSound == Nth[N + 1] = NULL /\ Cached \subseteq allocated

(* cachep->size is the total size of the list (insert_object,              *)
(* remove_object), which MAX_CACHE_SIZE bounds.                            *)
SizeIsTotal == size = MapThenSumSet(LAMBDA o : data[o].size, Cached)

(* A thread that fills an object has it for itself: it is in no other      *)
(* thread's hands and not in the cache (doit, insert_object).              *)
FilledByOne ==
    \A t \in Threads : pc[t] \in Filling =>
        /\ obj[t] \in allocated \ Cached
        /\ \A u \in Threads \ {t} : pc[u] \in Filling => obj[u] # obj[t]

(* What is in the cache does not change while it is there (receive_object, *)
(* insert_object).                                                         *)
CachedDoNotChange == [][\A o \in Cached \cap Cached' : data'[o] = data[o]]_vars

(* The cache is a recency cache: a thread gets the newest object of the    *)
(* URL it asked for, which becomes the newest of all, and room is made     *)
(* from the other end (fetch_object, insert_object, remove_object).        *)
held == [o \in Cached |-> [url |-> data[o].url, size |-> data[o].size]]
newer == {<<Nth[ij[1]], Nth[ij[2]]>> :
            ij \in {ij \in (1 .. N) \X (1 .. N) : ij[1] < ij[2] /\ Nth[ij[2]] # NULL}}
answer == [t \in Threads |-> IF pc[t] = "serve" THEN <<want[t], obj[t]>> ELSE <<>>]
RC == INSTANCE RecencyCache
        WITH Capacity <- MAX_CACHE_SIZE,
             held <- held, newer <- newer,
             total <- size, answer <- answer
IsRecencyCache == RC!Spec

(* A thread that wants the cache gets its answer, or gets its object in:   *)
(* the walks end, room is made, the semaphore is given back.               *)
FetchEnds == \A t \in Threads :
    pc[t] = "lock fetch" ~> pc[t] \in {"serve", "malloc"} \/ ~running
InsertEnds == \A t \in Threads : pc[t] = "insert" ~> pc[t] = "close" \/ ~running

(* What is written to a client is a cached object of the URL it asked for  *)
(* (fetch_object, doit).                                                   *)
ServesRequestedUrl ==
    \A t \in Threads : running /\ pc[t] = "serve" =>
        obj[t] \in allocated /\ data[obj[t]].url = want[t]
(* The cache as a data structure: the list ends, its size is the sum, and  *)
(* nobody else has an object that is still being filled (cache.c, doit).   *)
CacheInv == TypeOK /\ ListIsSound /\ SizeIsTotal /\ FilledByOne

(* Every call of the cache returns (fetch_object, insert_object).          *)
CacheCallsEnd == FetchEnds /\ InsertEnds

=============================================================================
