---------------------------- MODULE Proxy_proofs ----------------------------
(* Proofs about the proxy for every number of threads, objects and URLs. *)
EXTENDS Proxy, NatLemmas, FiniteSetTheorems, TLAPS

(* The semaphore and the program counters have their types. *)
ControlTyped == mutex \in {0, 1} /\ pc \in [Threads -> Labels]

(* A step of t that moves it from outside the cache to outside the cache,  *)
(* or within it, and leaves the semaphore alone.                           *)
LEMMA MutexKept ==
  ASSUME ControlTyped, MutexHeld, NEW t \in Threads, NEW to \in Labels,
         UNCHANGED mutex, pc' = [pc EXCEPT ![t] = to],
         t \in Inside <=> to \in {"find", "make room", "find last"}
  PROVE  ControlTyped' /\ MutexHeld'
<1>1. Inside' = Inside
  BY DEF ControlTyped, Inside
<1> QED
  BY <1>1 DEF ControlTyped, MutexHeld, Labels, Filling

(* P and V write two different values. *)
LEMMA ZeroIsNotOne == 0 # 1
OBVIOUS

(* P lets t in when the semaphore is free. *)
LEMMA MutexTaken ==
  ASSUME ControlTyped, MutexHeld, NEW t \in Threads,
         NEW to \in {"find", "make room"},
         mutex = 1, mutex' = 0, pc' = [pc EXCEPT ![t] = to]
  PROVE  ControlTyped' /\ MutexHeld'
<1>1. Inside = {}
  BY ZeroIsNotOne, Zenon DEF MutexHeld
<1>2. Inside' = {t}
  BY <1>1 DEF ControlTyped, Inside
<1>3. ControlTyped'
  BY DEF ControlTyped, Labels, Filling
<1> QED
  BY <1>2, <1>3 DEF MutexHeld

(* V by the one thread inside lets it out. *)
LEMMA MutexGiven ==
  ASSUME ControlTyped, MutexHeld, NEW t \in Inside, NEW to \in Labels,
         to \notin {"find", "make room", "find last"},
         mutex' = 1, pc' = [pc EXCEPT ![t] = to]
  PROVE  ControlTyped' /\ MutexHeld'
<1>1. \A u \in Inside : u = t
  BY DEF MutexHeld
<1>2. Inside' = {}
  BY <1>1 DEF ControlTyped, Inside
<1>3. ControlTyped'
  BY DEF ControlTyped, Inside
<1>4. mutex' # 0
  BY ZeroIsNotOne, Zenon
<1> QED
  BY <1>2, <1>3, <1>4, Zenon DEF MutexHeld

(* A step of Only between two labels outside the cache. *)
LEMMA OnlyOutside ==
  ASSUME ControlTyped, MutexHeld, NEW t \in Threads,
         NEW from \in Labels, NEW to \in Labels,
         {from, to} \cap {"find", "make room", "find last"} = {},
         Only(t, from, to)
  PROVE  ControlTyped' /\ MutexHeld'
<1>1. t \notin Inside
  BY DEF Only, At, Inside
<1> QED
  BY <1>1, MutexKept DEF Only, Goto, cacheVars

(* Every step keeps the semaphore's invariant. *)
LEMMA MutexHeldStep ==
  ASSUME ControlTyped, MutexHeld, [Next]_vars
  PROVE  ControlTyped' /\ MutexHeld'
<1> USE DEF Labels, Filling
<1>0. CASE UNCHANGED <<mutex, pc>>
  BY <1>0 DEF ControlTyped, MutexHeld, Inside
<1>1. ASSUME NEW t \in Threads, Network(t)
      PROVE  ControlTyped' /\ MutexHeld'
  <2>1. CASE RelayBody(t) \/ ConnectionBreaks(t)
    BY <1>0, <2>1 DEF RelayBody, ConnectionBreaks, ProcessEnds, cacheVars
  <2>2. ASSUME NEW url \in Urls, Request(t, url)
        PROVE  ControlTyped' /\ MutexHeld'
    BY <2>2, MutexKept DEF Request, At, Goto, cacheVars, Inside
  <2>3. ASSUME NEW to \in {"relay header", "relay body"}, RelayHeader(t, to)
        PROVE  ControlTyped' /\ MutexHeld'
    BY <2>3, MutexKept DEF RelayHeader, At, Goto, cacheVars, Inside
  <2> QED
    BY <1>1, <2>1, <2>2, <2>3, OnlyOutside
    DEF Network, Accept, NoRequest, Serve, Connect, ConnectFails, Header,
        LastHeader, HeadersEnd, ResponseEnds, ResponseFails
<1>2. ASSUME NEW t \in Threads, InCache(t)
      PROVE  ControlTyped' /\ MutexHeld'
  <2>1. CASE FindNext(t) \/ FindLast(t)
    BY <1>0, <2>1 DEF FindNext, FindLast, cacheVars
  <2>2. CASE Hit(t) \/ Miss(t) \/ Link(t)
    <3>1. t \in Inside /\ mutex' = 1
      BY <2>2 DEF Hit, Miss, Link, At, Inside
    <3>2. PICK to \in {"serve", "malloc", "close"} : pc' = [pc EXCEPT ![t] = to]
      BY <2>2 DEF Hit, Miss, Link, Goto
    <3> QED
      BY <3>1, <3>2, MutexGiven
  <2>3. CASE TooLarge(t)
    BY <2>3, OnlyOutside DEF TooLarge
  <2>4. CASE StartRemove(t) \/ RemoveLast(t)
    <3>1. t \in Inside /\ UNCHANGED mutex
      BY <2>4 DEF StartRemove, RemoveLast, At, Inside, cacheVars
    <3>2. PICK to \in {"find last", "make room"} : pc' = [pc EXCEPT ![t] = to]
      BY <2>4 DEF StartRemove, RemoveLast, Goto
    <3> QED
      BY <3>1, <3>2, MutexKept
  <2> QED
    BY <1>2, <2>1, <2>2, <2>3, <2>4 DEF InCache
<1>3. ASSUME NEW t \in Threads, LockFetch(t) \/ LockInsert(t)
      PROVE  ControlTyped' /\ MutexHeld'
  BY <1>3, MutexTaken DEF LockFetch, LockInsert, Goto
<1>4. ASSUME NEW t \in Threads, NEW o \in Objects, Malloc(t, o)
      PROVE  ControlTyped' /\ MutexHeld'
  BY <1>4, MutexKept DEF Malloc, At, Goto, Inside
<1>5. ASSUME NEW t \in Threads, OutOfMemory(t)
      PROVE  ControlTyped' /\ MutexHeld'
  BY <1>0, <1>5 DEF OutOfMemory, ProcessEnds, cacheVars
<1>6. ASSUME NEW t \in Threads, Close(t)
      PROVE  ControlTyped' /\ MutexHeld'
  BY <1>6, MutexKept DEF Close, At, Goto, cacheVars, Inside
<1>7. CASE UNCHANGED vars
  BY <1>0, <1>7 DEF vars
<1> QED
  BY <1>1, <1>2, <1>3, <1>4, <1>5, <1>6, <1>7 DEF Next, Gone

(* The semaphore of the cache is taken exactly while one thread is in      *)
(* fetch_object or insert_object, never by two, and every path through     *)
(* them gives it back (Proxy!MutexHeld; P and V in cache.c).               *)
THEOREM ProxyMutexHeld == Spec => []MutexHeld
<1>1. Init => ControlTyped /\ MutexHeld
  <2> SUFFICES ASSUME Init PROVE ControlTyped /\ MutexHeld
    OBVIOUS
  <2>1. ControlTyped /\ Inside = {}
    BY DEF Init, ControlTyped, Inside, Labels
  <2>2. mutex # 0
    BY ZeroIsNotOne, Zenon DEF Init
  <2> QED
    BY <2>1, <2>2, Zenon DEF MutexHeld
<1>2. ControlTyped /\ MutexHeld /\ [Next]_vars => ControlTyped' /\ MutexHeld'
  BY MutexHeldStep
<1> QED
  BY <1>1, <1>2, PTL DEF Spec
-----------------------------------------------------------------------------

(* The list as a path: c[1], ..., c[m] are the objects the pointers nx     *)
(* lead to from the root, each once.                                       *)
Path(c, m, nx) ==
    /\ m \in Nat /\ c[0] = Root
    /\ \A i \in 1 .. m : c[i] \in Objects
    /\ \A i, j \in 1 .. m : c[i] = c[j] => i = j
    /\ \A i \in 0 .. m : nx[c[i]] = IF i < m THEN c[i + 1] ELSE NULL

(* The objects of a path. *)
On(c, m) == {c[i] : i \in 1 .. m}

(* The memory holds finitely many objects. *)
LEMMA ObjectsAreN == N \in Nat
BY FS_CardinalityType, MemoryAssumption DEF N

(* No object is twice on a path, so it is no longer than the memory. *)
LEMMA PathIsShort ==
  ASSUME NEW c, NEW m, NEW nx, Path(c, m, nx)
  PROVE  m <= N
<1> DEFINE f == [i \in 1 .. m |-> c[i]]
<1>1. f \in Injection(1 .. m, Objects)
  BY DEF Path, Injection, IsInjective
<1>2. Cardinality(1 .. m) <= N
  BY <1>1, FS_Injection, MemoryAssumption DEF N
<1>3. Cardinality(1 .. m) = m
  BY FS_Interval DEF Path
<1> QED
  BY <1>2, <1>3

(* What Nth computes, given pointers that form a path. *)
AlongPath(c, m) == [n \in 0 .. N + 1 |-> IF n <= m THEN c[n] ELSE NULL]

Walk(f, nx) ==
    f = [n \in 0 .. N + 1 |->
           IF n = 0 THEN Root ELSE IF f[n - 1] = NULL THEN NULL ELSE nx[f[n - 1]]]

(* Following the pointers from the root goes along the path, then stays at NULL. *)
LEMMA PathWalks ==
  ASSUME NEW c, NEW m, NEW nx, Path(c, m, nx)
  PROVE  Walk(AlongPath(c, m), nx)
<1> DEFINE f == AlongPath(c, m)
<1> USE ObjectsAreN
<1>1. m <= N
  BY PathIsShort
<1>2. \A i \in 0 .. m : c[i] # NULL
  BY MemoryAssumption DEF Path
<1>3. ASSUME NEW n \in 0 .. N + 1
      PROVE  f[n] = IF n = 0 THEN Root ELSE IF f[n - 1] = NULL THEN NULL ELSE nx[f[n - 1]]
  <2>1. CASE n = 0
    BY <2>1 DEF AlongPath, Path
  <2>2. CASE n \in 1 .. m
    <3>1. n - 1 \in 0 .. m /\ n - 1 \in 0 .. N + 1 /\ n - 1 < m /\ n # 0
      BY <2>2, <1>1 DEF Path
    <3>2. f[n - 1] = c[n - 1] /\ f[n] = c[n]
      BY <3>1, <2>2, <1>1 DEF AlongPath
    <3>3. nx[c[n - 1]] = c[n - 1 + 1] /\ n - 1 + 1 = n
      BY <3>1 DEF Path
    <3> QED
      BY <3>1, <3>2, <3>3, <1>2
  <2>3. CASE n = m + 1
    <3>1. m \in 0 .. m /\ m \in 0 .. N + 1 /\ n - 1 = m /\ n # 0 /\ ~(m < m)
      BY <2>3, <1>1 DEF Path
    <3>2. f[m] = c[m] /\ f[n] = NULL
      BY <3>1, <2>3, <1>1 DEF AlongPath, Path
    <3>3. nx[c[m]] = NULL
      BY <3>1 DEF Path
    <3> QED
      BY <3>1, <3>2, <3>3, <1>2
  <2>4. CASE n > m + 1
    BY <2>4, <1>1 DEF AlongPath, Path
  <2> QED
    BY <2>1, <2>2, <2>3, <2>4 DEF Path
<1> QED
  BY <1>3 DEF Walk, AlongPath

(* The pointers determine the walk. *)
LEMMA WalksAgree ==
  ASSUME NEW nx, NEW f, NEW g, Walk(f, nx), Walk(g, nx)
  PROVE  f = g
<1> DEFINE T == {n \in 0 .. N + 1 : f[n] # g[n]}
<1> USE ObjectsAreN
<1>0. ASSUME T = {} PROVE f = g
  <2>1. \A n \in 0 .. N + 1 : f[n] = g[n]
    BY <1>0
  <2>2. f = [n \in 0 .. N + 1 |-> f[n]] /\ g = [n \in 0 .. N + 1 |-> g[n]]
    BY DEF Walk
  <2> QED
    BY <2>1, <2>2, SMT
<1>1. SUFFICES ASSUME T # {} PROVE FALSE
  BY <1>0
<1>2. PICK n \in T : \A k \in T : n <= k
  <2>1. T \subseteq Nat
    OBVIOUS
  <2> HIDE DEF T
  <2> QED
    BY <1>1, <2>1, LeastNat
<1>3. f[0] = g[0]
  BY DEF Walk
<1>4. n - 1 \in 0 .. N + 1 /\ n # 0
  BY <1>2, <1>3
<1>5. f[n - 1] = g[n - 1]
  BY <1>2, <1>4
<1> QED
  BY <1>2, <1>4, <1>5 DEF Walk

(* Nth follows the pointers. *)
LEMMA NthWalks ==
  ASSUME NEW f, Walk(f, next)
  PROVE  Walk(Nth, next)
BY DEF Walk, Nth

(* So it does after a step. *)
LEMMA NthWalksPrime ==
  ASSUME NEW f, Walk(f, next')
  PROVE  Walk(Nth', next')
BY DEF Walk, Nth

(* Nth reads the list off the pointers. *)
LEMMA NthIs ==
  ASSUME NEW c, NEW m, Path(c, m, next)
  PROVE  Nth = AlongPath(c, m)
BY PathWalks, WalksAgree, NthWalks

(* The same after a step. *)
LEMMA NthIsPrime ==
  ASSUME NEW c, NEW m, Path(c, m, next')
  PROVE  Nth' = AlongPath(c, m)
BY PathWalks, WalksAgree, NthWalksPrime

(* The cache holds what the path leads to. *)
LEMMA CachedIs ==
  ASSUME NEW c, NEW m, Path(c, m, next)
  PROVE  Cached = On(c, m)
<1>1. m <= N /\ Nth = AlongPath(c, m)
  BY PathIsShort, NthIs
<1> QED
  BY <1>1, ObjectsAreN, MemoryAssumption DEF Cached, On, AlongPath, Path

(* The same after a step. *)
LEMMA CachedIsPrime ==
  ASSUME NEW c, NEW m, Path(c, m, next')
  PROVE  Cached' = On(c, m)
<1>1. m <= N /\ Nth' = AlongPath(c, m)
  BY PathIsShort, NthIsPrime
<1> QED
  BY <1>1, ObjectsAreN, MemoryAssumption DEF Cached, On, AlongPath, Path
-----------------------------------------------------------------------------

(* The sum of the property is the one of these lemmas. *)
LEMMA SizeIsTotalIs == SizeIsTotal <=> size = SizeOf(data, Cached)
BY DEF SizeIsTotal, SizeOf

-----------------------------------------------------------------------------
(* What the three changes of the list do to its path. *)

(* The order of use: each object before those further down. *)
Before(c, m) ==
    {<<c[ij[1]], c[ij[2]]>> : ij \in {ij \in (1 .. m) \X (1 .. m) : ij[1] < ij[2]}}

(* a is before b when its place comes first. *)
LEMMA BeforeIs ==
  ASSUME NEW c, NEW m, NEW a, NEW b
  PROVE  <<a, b>> \in Before(c, m)
           <=> \E i, j \in 1 .. m : i < j /\ a = c[i] /\ b = c[j]
<1>1. ASSUME NEW i \in 1 .. m, NEW j \in 1 .. m, i < j, a = c[i], b = c[j]
      PROVE  <<a, b>> \in Before(c, m)
  <2> DEFINE ij == <<i, j>>
  <2>1. ij \in (1 .. m) \X (1 .. m) /\ ij[1] = i /\ ij[2] = j
    OBVIOUS
  <2> HIDE DEF ij
  <2>2. ij \in {ij2 \in (1 .. m) \X (1 .. m) : ij2[1] < ij2[2]}
    BY <2>1, <1>1
  <2> QED
    BY <2>1, <2>2, <1>1 DEF Before
<1> QED
  BY <1>1 DEF Before

(* The order of use is a set of pairs. *)
LEMMA BeforeArePairs ==
  ASSUME NEW c, NEW m, NEW x \in Before(c, m)
  PROVE  x = <<x[1], x[2]>>
BY DEF Before

(* The order of use is what newer says. *)
LEMMA NewerAlong ==
  ASSUME NEW c, NEW m, NEW nx, Path(c, m, nx), NEW f, f = AlongPath(c, m)
  PROVE  {<<f[ij[1]], f[ij[2]]>> :
            ij \in {ij \in (1 .. N) \X (1 .. N) : ij[1] < ij[2] /\ f[ij[2]] # NULL}}
           = Before(c, m)
<1>1. m <= N /\ m \in Nat /\ N \in Nat
  BY PathIsShort, ObjectsAreN DEF Path
<1>2. ASSUME NEW i \in 1 .. N, NEW j \in 1 .. N
      PROVE  /\ f[j] # NULL <=> j \in 1 .. m
             /\ i < j /\ j \in 1 .. m => i \in 1 .. m
             /\ i \in 1 .. m => f[i] = c[i]
  BY <1>1, MemoryAssumption DEF AlongPath, Path
<1> DEFINE I == {ij \in (1 .. N) \X (1 .. N) : ij[1] < ij[2] /\ f[ij[2]] # NULL}
           J == {ij \in (1 .. m) \X (1 .. m) : ij[1] < ij[2]}
<1>3. I = J
  <2>1. ASSUME NEW x \in I PROVE x \in J
    BY <1>2
  <2>2. ASSUME NEW x \in J PROVE x \in I
    <3>1. x[1] \in 1 .. N /\ x[2] \in 1 .. N /\ x[1] < x[2] /\ x[2] \in 1 .. m
      BY <1>1
    <3> QED
      BY <3>1, <1>2
  <2> QED
    BY <2>1, <2>2
<1>4. ASSUME NEW x \in J PROVE f[x[1]] = c[x[1]] /\ f[x[2]] = c[x[2]]
  BY <1>1, <1>2
<1> HIDE DEF I, J
<1>5. {<<f[ij[1]], f[ij[2]]>> : ij \in J} = {<<c[ij[1]], c[ij[2]]>> : ij \in J}
  BY <1>4
<1> QED
  BY <1>3, <1>5 DEF Before, I, J

(* newer is the order of the path. *)
LEMMA NewerIs ==
  ASSUME NEW c, NEW m, Path(c, m, next)
  PROVE  newer = Before(c, m)
<1>1. m <= N /\ m \in Nat /\ Nth = AlongPath(c, m)
  BY PathIsShort, NthIs DEF Path
<1> QED
  BY <1>1, NewerAlong DEF newer

(* The same after a step. *)
LEMMA NewerIsPrime ==
  ASSUME NEW c, NEW m, Path(c, m, next')
  PROVE  newer' = Before(c, m)
<1>1. m <= N /\ m \in Nat /\ Nth' = AlongPath(c, m)
  BY PathIsShort, NthIsPrime DEF Path
<1> QED
  BY <1>1, NewerAlong DEF newer

(* c[k] is moved to the head. *)
ToHead(c, m, k) ==
    [i \in 0 .. m |-> IF i = 0 THEN Root ELSE IF i = 1 THEN c[k]
                      ELSE IF i <= k THEN c[i - 1] ELSE c[i]]

(* Moving an object loses and adds none. *)
LEMMA ToHeadOn ==
  ASSUME NEW c, NEW m, m \in Nat, NEW k \in 1 .. m
  PROVE  On(ToHead(c, m, k), m) = On(c, m)
<1> DEFINE h == ToHead(c, m, k)
<1>1. ASSUME NEW i \in 1 .. m PROVE h[i] \in On(c, m)
  BY DEF ToHead, On
<1>2. ASSUME NEW i \in 1 .. m PROVE c[i] \in {h[j] : j \in 1 .. m}
  <2>1. CASE i = k
    <3>1. 1 \in 1 .. m /\ h[1] = c[k]
      BY DEF ToHead
    <3> QED
      BY <2>1, <3>1
  <2>2. CASE i < k
    <3>1. i + 1 \in 1 .. m /\ h[i + 1] = c[i]
      BY <2>2 DEF ToHead
    <3> QED
      BY <3>1
  <2>3. CASE i > k
    <3>1. h[i] = c[i]
      BY <2>3 DEF ToHead
    <3> QED
      BY <3>1
  <2> QED
    BY <2>1, <2>2, <2>3
<1> QED
  BY <1>1, <1>2 DEF On

(* It is before all others then, whose order stays. *)
LEMMA ToHeadBefore ==
  ASSUME NEW nx, NEW c, NEW m, Path(c, m, nx), NEW k \in 1 .. m
  PROVE  Before(ToHead(c, m, k), m)
           = {<<c[k], b>> : b \in On(c, m) \ {c[k]}}
             \cup {pair \in Before(c, m) : pair[1] # c[k] /\ pair[2] # c[k]}
<1> DEFINE h == ToHead(c, m, k)
           R == {<<c[k], b>> : b \in On(c, m) \ {c[k]}}
                \cup {pair \in Before(c, m) : pair[1] # c[k] /\ pair[2] # c[k]}
<1>0. m \in Nat
  BY DEF Path
<1>1. ASSUME NEW i \in 1 .. m, NEW j \in 1 .. m, i < j PROVE <<h[i], h[j]>> \in R
  <2> DEFINE at(n) == IF n <= k THEN n - 1 ELSE n
  <2>1. at(j) \in 1 .. m /\ at(j) # k /\ h[j] = c[at(j)]
    BY <1>0, <1>1 DEF ToHead
  <2>2. c[at(j)] # c[k] /\ c[at(j)] \in On(c, m)
    BY <2>1 DEF Path, On
  <2>3. CASE i = 1
    BY <2>1, <2>2, <2>3, <1>0 DEF ToHead
  <2>4. CASE i # 1
    <3>1. at(i) \in 1 .. m /\ at(i) # k /\ h[i] = c[at(i)] /\ at(i) < at(j)
      BY <2>4, <1>0, <1>1 DEF ToHead
    <3>2. c[at(i)] # c[k]
      BY <3>1 DEF Path
    <3>3. <<c[at(i)], c[at(j)]>> \in Before(c, m)
      <4> HIDE DEF at
      <4> QED
        BY <2>1, <3>1, BeforeIs
    <3> HIDE DEF at
    <3> QED
      BY <2>1, <2>2, <3>1, <3>2, <3>3
  <2> QED
    BY <2>3, <2>4
<1>2. ASSUME NEW i \in 1 .. m, c[i] # c[k] PROVE <<c[k], c[i]>> \in Before(h, m)
  <2> DEFINE to == IF i < k THEN i + 1 ELSE i
  <2>1. to \in 1 .. m /\ 1 \in 1 .. m /\ 1 < to /\ h[to] = c[i] /\ h[1] = c[k]
    BY <1>0, <1>2 DEF ToHead
  <2> HIDE DEF to, h
  <2> QED
    BY <2>1, BeforeIs
<1>3. ASSUME NEW i \in 1 .. m, NEW j \in 1 .. m, i < j, c[i] # c[k], c[j] # c[k]
      PROVE  <<c[i], c[j]>> \in Before(h, m)
  <2> DEFINE to(n) == IF n < k THEN n + 1 ELSE n
  <2>1. /\ to(i) \in 1 .. m /\ to(j) \in 1 .. m /\ to(i) < to(j)
        /\ h[to(i)] = c[i] /\ h[to(j)] = c[j]
    BY <1>0, <1>3 DEF ToHead
  <2> HIDE DEF to, h
  <2> QED
    BY <2>1, BeforeIs
<1> HIDE DEF h
<1>4. ASSUME NEW x \in Before(h, m) PROVE x \in R
  BY <1>1, <1>4, BeforeIs, BeforeArePairs
<1>5. ASSUME NEW x \in R PROVE x \in Before(h, m)
  <2>1. CASE x \in {<<c[k], b>> : b \in On(c, m) \ {c[k]}}
    BY <2>1, <1>2 DEF On
  <2>2. CASE x \in Before(c, m) /\ x[1] # c[k] /\ x[2] # c[k]
    <3>1. x = <<x[1], x[2]>>
      BY <2>2, BeforeArePairs
    <3>2. PICK i \in 1 .. m, j \in 1 .. m : i < j /\ x[1] = c[i] /\ x[2] = c[j]
      BY <2>2, <3>1, BeforeIs
    <3> QED
      BY <2>2, <3>1, <3>2, <1>3
  <2> QED
    BY <1>5, <2>1, <2>2
<1> QED
  BY <1>4, <1>5 DEF h

(* b follows a, and becomes the head. *)
Follows(c, m, a, b) == \E k \in 1 .. m : a = c[k - 1] /\ b = c[k]
Unlinked(nx, a, b) == [nx EXCEPT ![a] = nx[b]]
Moved(nx, a, b) ==
    [Unlinked(nx, a, b) EXCEPT ![b] = Unlinked(nx, a, b)[Root], ![Root] = b]

(* The three writes of fetch_object do that to the pointers. *)
LEMMA ToHeadPath ==
  ASSUME NEW nx, nx \in [Objects \cup {Root} -> Pointers],
         NEW c, NEW m, Path(c, m, nx), NEW a, NEW x, Follows(c, m, a, x)
  PROVE  \E d : /\ Path(d, m, Moved(nx, a, x)) /\ On(d, m) = On(c, m)
                /\ Before(d, m)
                     = {<<x, b>> : b \in On(c, m) \ {x}}
                       \cup {pair \in Before(c, m) : pair[1] # x /\ pair[2] # x}
<1>0. PICK k \in 1 .. m : a = c[k - 1] /\ x = c[k]
  BY DEF Follows
<1> DEFINE un == Unlinked(nx, a, x)
           ny == Moved(nx, a, x)
<1> DEFINE h == ToHead(c, m, k)
<1>1. m \in Nat /\ h[0] = Root
  BY DEF Path, ToHead
<1>2. ASSUME NEW i \in 1 .. m PROVE h[i] \in Objects
  BY <1>1 DEF Path, ToHead
<1>3. ASSUME NEW i \in 1 .. m, NEW j \in 1 .. m, h[i] = h[j] PROVE i = j
  <2> DEFINE at(n) == IF n = 1 THEN k ELSE IF n <= k THEN n - 1 ELSE n
  <2>1. at(i) \in 1 .. m /\ at(j) \in 1 .. m
    BY <1>1
  <2>2. h[i] = c[at(i)] /\ h[j] = c[at(j)]
    BY <1>1 DEF ToHead
  <2>3. at(i) = at(j)
    <3> HIDE DEF at
    <3> QED
      BY <2>1, <2>2, <1>3 DEF Path
  <2> QED
    BY <2>3, <1>1
<1>4. ASSUME NEW i \in 0 .. m, NEW j \in 0 .. m, c[i] = c[j] PROVE i = j
  <2>1. c[0] = Root /\ Root \notin Objects
    BY MemoryAssumption DEF Path
  <2> QED
    BY <1>4, <2>1, <1>1 DEF Path
<1>5. /\ c[k] \in Objects /\ c[k] # Root
      /\ c[k - 1] \in Objects \cup {Root} /\ c[k - 1] # c[k]
      /\ k - 1 \in 0 .. m
  BY <1>1, <1>4, MemoryAssumption DEF Path
<1>6. ASSUME NEW y \in Objects \cup {Root}
      PROVE  ny[y] = IF y = Root THEN c[k] ELSE IF y = c[k] THEN un[Root]
                     ELSE IF y = c[k - 1] THEN nx[c[k]] ELSE nx[y]
  BY <1>0, <1>5 DEF Moved, Unlinked
<1>7. un[Root] = IF k = 1 THEN nx[c[k]] ELSE nx[Root]
  BY <1>0, <1>4, <1>5, <1>1 DEF Path, Unlinked
<1> HIDE DEF un, ny
<1>8. ASSUME NEW i \in 0 .. m PROVE ny[h[i]] = IF i < m THEN h[i + 1] ELSE NULL
  <2>1. CASE i = 0
    BY <2>1, <1>1, <1>6 DEF ToHead
  <2>2. CASE i = 1 /\ k = 1
    <3>1. ny[h[i]] = nx[c[1]] /\ h[i] = c[1]
      BY <2>2, <1>1, <1>5, <1>6, <1>7 DEF ToHead
    <3>2. nx[c[1]] = IF 1 < m THEN c[2] ELSE NULL
      BY <1>1 DEF Path
    <3> QED
      BY <2>2, <3>1, <3>2, <1>1 DEF ToHead
  <2>3. CASE i = 1 /\ k # 1
    <3>1. ny[h[i]] = nx[Root]
      BY <2>3, <1>1, <1>5, <1>6, <1>7 DEF ToHead
    <3>2. nx[c[0]] = c[1] /\ c[0] = Root
      BY <2>3, <1>1 DEF Path
    <3> QED
      BY <2>3, <3>1, <3>2, <1>1 DEF ToHead
  <2>4. CASE i > 1 /\ i < k
    <3>1. h[i] = c[i - 1] /\ h[i + 1] = c[i] /\ i - 1 \in 0 .. m /\ i < m
      BY <2>4, <1>1 DEF ToHead
    <3>2. c[i - 1] # Root /\ c[i - 1] # c[k] /\ c[i - 1] # c[k - 1] /\ c[i - 1] \in Objects
      BY <2>4, <3>1, <1>1, <1>4, <1>5, MemoryAssumption DEF Path
    <3>3. nx[c[i - 1]] = c[i]
      BY <3>1, <1>1 DEF Path
    <3> QED
      BY <3>1, <3>2, <3>3, <1>6
  <2>5. CASE i > 1 /\ i = k
    <3>1. h[i] = c[k - 1] /\ k - 1 \in 1 .. m
      BY <2>5, <1>1 DEF ToHead
    <3>2. c[k - 1] # Root
      BY <3>1, MemoryAssumption DEF Path
    <3>3. ny[h[i]] = nx[c[k]]
      BY <3>1, <3>2, <1>5, <1>6
    <3>4. nx[c[k]] = IF k < m THEN c[k + 1] ELSE NULL
      BY <1>1 DEF Path
    <3> QED
      BY <2>5, <3>3, <3>4, <1>1 DEF ToHead
  <2>6. CASE i > k
    <3>1. h[i] = c[i] /\ (i < m => h[i + 1] = c[i + 1])
      BY <2>6, <1>1 DEF ToHead
    <3>2. c[i] # Root /\ c[i] # c[k] /\ c[i] # c[k - 1] /\ c[i] \in Objects
      BY <2>6, <1>1, <1>4, <1>5, MemoryAssumption DEF Path
    <3> QED
      BY <3>1, <3>2, <1>6, <1>1 DEF Path
  <2> QED
    BY <2>1, <2>2, <2>3, <2>4, <2>5, <2>6, <1>1
<1>9. Path(h, m, ny)
  BY <1>1, <1>2, <1>3, <1>8 DEF Path
<1>10. On(h, m) = On(c, m)
  <2>1. m \in Nat
    BY <1>1
  <2> QED
    BY <2>1, ToHeadOn
<1> HIDE DEF h
<1> QED
  BY <1>0, <1>9, <1>10, ToHeadBefore DEF h, ny

(* A new object comes before all others. *)
AtHead(c, m, o) ==
    [i \in 0 .. m + 1 |-> IF i = 0 THEN Root ELSE IF i = 1 THEN o ELSE c[i - 1]]

(* The path holds one object more. *)
LEMMA AtHeadOn ==
  ASSUME NEW c, NEW m, m \in Nat, NEW o
  PROVE  On(AtHead(c, m, o), m + 1) = On(c, m) \cup {o}
<1> DEFINE h == AtHead(c, m, o)
<1>1. ASSUME NEW i \in 1 .. m + 1 PROVE h[i] \in On(c, m) \cup {o}
  BY DEF AtHead, On
<1>2. ASSUME NEW i \in 1 .. m PROVE c[i] \in {h[j] : j \in 1 .. m + 1}
  <2>1. i + 1 \in 1 .. m + 1 /\ h[i + 1] = c[i]
    BY DEF AtHead
  <2> QED
    BY <2>1
<1>3. 1 \in 1 .. m + 1 /\ h[1] = o
  BY DEF AtHead
<1> QED
  BY <1>1, <1>2, <1>3 DEF On

(* It is before all others, whose order stays. *)
LEMMA AtHeadBefore ==
  ASSUME NEW c, NEW m, m \in Nat, NEW o
  PROVE  Before(AtHead(c, m, o), m + 1)
           = Before(c, m) \cup {<<o, b>> : b \in On(c, m)}
<1> DEFINE h == AtHead(c, m, o)
           R == Before(c, m) \cup {<<o, b>> : b \in On(c, m)}
<1>1. ASSUME NEW i \in 1 .. m + 1, NEW j \in 1 .. m + 1, i < j
      PROVE  <<h[i], h[j]>> \in R
  <2>1. h[j] = c[j - 1] /\ j - 1 \in 1 .. m /\ c[j - 1] \in On(c, m)
    BY <1>1 DEF AtHead, On
  <2>2. CASE i = 1
    BY <2>1, <2>2 DEF AtHead
  <2>3. CASE i # 1
    <3>1. h[i] = c[i - 1] /\ i - 1 \in 1 .. m /\ i - 1 < j - 1
      BY <2>3, <1>1 DEF AtHead
    <3>2. <<c[i - 1], c[j - 1]>> \in Before(c, m)
      BY <2>1, <3>1, BeforeIs
    <3> QED
      BY <2>1, <3>1, <3>2
  <2> QED
    BY <2>2, <2>3
<1>2. ASSUME NEW i \in 1 .. m PROVE <<o, c[i]>> \in Before(h, m + 1)
  <2>1. /\ i + 1 \in 1 .. m + 1 /\ 1 \in 1 .. m + 1 /\ 1 < i + 1
        /\ h[i + 1] = c[i] /\ h[1] = o
    BY DEF AtHead
  <2> HIDE DEF h
  <2> QED
    BY <2>1, BeforeIs
<1>3. ASSUME NEW i \in 1 .. m, NEW j \in 1 .. m, i < j
      PROVE  <<c[i], c[j]>> \in Before(h, m + 1)
  <2>1. /\ i + 1 \in 1 .. m + 1 /\ j + 1 \in 1 .. m + 1 /\ i + 1 < j + 1
        /\ h[i + 1] = c[i] /\ h[j + 1] = c[j]
    BY <1>3 DEF AtHead
  <2> HIDE DEF h
  <2> QED
    BY <2>1, BeforeIs
<1> HIDE DEF h
<1>4. ASSUME NEW x \in Before(h, m + 1) PROVE x \in R
  BY <1>1, <1>4, BeforeIs, BeforeArePairs
<1>5. ASSUME NEW x \in R PROVE x \in Before(h, m + 1)
  <2>1. CASE x \in Before(c, m)
    <3>1. x = <<x[1], x[2]>>
      BY <2>1, BeforeArePairs
    <3> QED
      BY <2>1, <3>1, <1>3, BeforeIs
  <2>2. CASE x \in {<<o, b>> : b \in On(c, m)}
    BY <2>2, <1>2 DEF On
  <2> QED
    BY <1>5, <2>1, <2>2
<1> QED
  BY <1>4, <1>5 DEF h

Saved(nx, o) == [nx EXCEPT ![o] = nx[Root], ![Root] = o]

(* The two writes of insert_object do that to the pointers. *)
LEMMA AtHeadPath ==
  ASSUME NEW nx, nx \in [Objects \cup {Root} -> Pointers], NEW c, NEW m, Path(c, m, nx),
         NEW o \in Objects, o \notin On(c, m)
  PROVE  \E d, n : /\ Path(d, n, Saved(nx, o))
                   /\ On(d, n) = On(c, m) \cup {o}
                   /\ Before(d, n) = Before(c, m) \cup {<<o, b>> : b \in On(c, m)}
<1> DEFINE h == AtHead(c, m, o)
           ny == Saved(nx, o)
<1>1. m \in Nat /\ h[0] = Root /\ h[1] = o /\ c[0] = Root
  BY DEF Path, AtHead
<1>2. ASSUME NEW i \in 2 .. m + 1 PROVE h[i] = c[i - 1] /\ i - 1 \in 1 .. m /\ h[i] # o
  BY <1>1 DEF AtHead, On
<1>3. ASSUME NEW i \in 1 .. m + 1 PROVE h[i] \in Objects
  BY <1>1, <1>2 DEF Path, AtHead
<1>4. ASSUME NEW i \in 1 .. m + 1, NEW j \in 1 .. m + 1, h[i] = h[j] PROVE i = j
  <2>1. CASE i = 1 \/ j = 1
    BY <2>1, <1>1, <1>2, <1>4
  <2>2. CASE i # 1 /\ j # 1
    <3>1. i - 1 = j - 1
      BY <2>2, <1>1, <1>2, <1>4 DEF Path
    <3> QED
      BY <3>1
  <2> QED
    BY <2>1, <2>2
<1>5. \A x \in Objects \cup {Root} :
         ny[x] = IF x = Root THEN o ELSE IF x = o THEN nx[Root] ELSE nx[x]
  BY MemoryAssumption DEF Saved
<1> HIDE DEF ny
<1>6. ASSUME NEW i \in 0 .. m + 1
      PROVE  ny[h[i]] = IF i < m + 1 THEN h[i + 1] ELSE NULL
  <2>1. CASE i = 0
    BY <2>1, <1>1, <1>5
  <2>2. CASE i = 1
    <3>1. ny[h[i]] = nx[Root]
      BY <2>2, <1>1, <1>5, MemoryAssumption
    <3>2. nx[Root] = IF 0 < m THEN c[1] ELSE NULL
      BY <1>1 DEF Path
    <3> QED
      BY <2>2, <3>1, <3>2, <1>1 DEF AtHead
  <2>3. CASE i > 1
    <3>1. h[i] = c[i - 1] /\ i - 1 \in 1 .. m /\ h[i] # o /\ h[i] \in Objects
      BY <2>3, <1>1, <1>2, <1>3
    <3>2. ny[h[i]] = nx[c[i - 1]]
      BY <3>1, <1>5, MemoryAssumption
    <3>3. nx[c[i - 1]] = IF i - 1 < m THEN c[i - 1 + 1] ELSE NULL
      BY <3>1, <1>1 DEF Path
    <3> QED
      BY <2>3, <3>2, <3>3, <1>1 DEF AtHead
  <2> QED
    BY <2>1, <2>2, <2>3, <1>1
<1>7. Path(h, m + 1, ny)
  BY <1>1, <1>3, <1>4, <1>6 DEF Path
<1>8. On(h, m + 1) = On(c, m) \cup {o}
  <2>1. m \in Nat
    BY <1>1
  <2> QED
    BY <2>1, AtHeadOn
<1>9. Before(h, m + 1) = Before(c, m) \cup {<<o, b>> : b \in On(c, m)}
  <2>1. m \in Nat
    BY <1>1
  <2> QED
    BY <2>1, AtHeadBefore
<1> HIDE DEF h
<1> QED
  BY <1>7, <1>8, <1>9 DEF ny

(* The last object goes. *)
LEMMA WithoutLastOn ==
  ASSUME NEW nx, NEW c, NEW m, Path(c, m, nx), m # 0
  PROVE  On(c, m - 1) = On(c, m) \ {c[m]}
BY DEF On, Path

(* The order of the others stays. *)
LEMMA WithoutLastBefore ==
  ASSUME NEW nx, NEW c, NEW m, Path(c, m, nx), m # 0
  PROVE  Before(c, m - 1) = {pair \in Before(c, m) : pair[2] # c[m]}
<1>0. m \in Nat
  BY DEF Path
<1>1. ASSUME NEW i \in 1 .. m, NEW j \in 1 .. m, i < j
      PROVE  c[j] # c[m] <=> j \in 1 .. m - 1
  BY <1>0 DEF Path
<1>2. ASSUME NEW x \in Before(c, m - 1) PROVE x \in Before(c, m) /\ x[2] # c[m]
  <2>1. x = <<x[1], x[2]>>
    BY <1>2, BeforeArePairs
  <2>2. PICK i \in 1 .. m - 1, j \in 1 .. m - 1 : i < j /\ x[1] = c[i] /\ x[2] = c[j]
    BY <1>2, <2>1, BeforeIs
  <2>3. i \in 1 .. m /\ j \in 1 .. m
    BY <1>0
  <2> QED
    BY <2>1, <2>2, <2>3, <1>1, BeforeIs
<1>3. ASSUME NEW x \in Before(c, m), x[2] # c[m] PROVE x \in Before(c, m - 1)
  <2>1. x = <<x[1], x[2]>>
    BY <1>3, BeforeArePairs
  <2>2. PICK i \in 1 .. m, j \in 1 .. m : i < j /\ x[1] = c[i] /\ x[2] = c[j]
    BY <1>3, <2>1, BeforeIs
  <2>3. i \in 1 .. m - 1 /\ j \in 1 .. m - 1
    BY <2>2, <1>0, <1>1, <1>3
  <2> QED
    BY <2>1, <2>2, <2>3, BeforeIs
<1> QED
  BY <1>2, <1>3

(* The last object is x, and a comes before it. *)
IsLast(c, m, a, x) == m # 0 /\ a = c[m - 1] /\ x = c[m]
Cut(nx, a) == [nx EXCEPT ![a] = NULL]

(* The one write of remove_object does that to the pointers. *)
LEMMA WithoutLastPath ==
  ASSUME NEW nx, nx \in [Objects \cup {Root} -> Pointers],
         NEW c, NEW m, Path(c, m, nx), NEW a, NEW x, IsLast(c, m, a, x)
  PROVE  \E n : /\ Path(c, n, Cut(nx, a))
                /\ On(c, n) = On(c, m) \ {x}
                /\ Before(c, n) = {pair \in Before(c, m) : pair[2] # x}
<1> DEFINE ny == Cut(nx, a)
<1>0. m # 0 /\ a = c[m - 1] /\ x = c[m]
  BY DEF IsLast
<1>1. m \in Nat /\ m - 1 \in Nat /\ c[0] = Root
  BY <1>0 DEF Path
<1>2. ASSUME NEW i \in 0 .. m PROVE c[i] \in Objects \cup {Root}
  BY DEF Path
<1>3. ASSUME NEW i \in 0 .. m, NEW j \in 0 .. m, c[i] = c[j] PROVE i = j
  BY <1>1, <1>3, MemoryAssumption DEF Path
<1>4. ASSUME NEW i \in 0 .. m - 1
      PROVE  ny[c[i]] = IF i < m - 1 THEN c[i + 1] ELSE NULL
  <2>1. i \in 0 .. m /\ m - 1 \in 0 .. m
    BY <1>1
  <2>2. ny[c[i]] = IF i = m - 1 THEN NULL ELSE nx[c[i]]
    BY <2>1, <1>0, <1>2, <1>3 DEF Cut
  <2> QED
    BY <2>1, <2>2, <1>1 DEF Path
<1>5. Path(c, m - 1, ny)
  BY <1>1, <1>4 DEF Path
<1> QED
  BY <1>0, <1>5, WithoutLastOn, WithoutLastBefore

-----------------------------------------------------------------------------
(* The invariant of the cache. *)

Typed ==
    /\ running \in BOOLEAN
    /\ next \in [Objects \cup {Root} -> Pointers]
    /\ data \in [Objects -> [url : Urls \cup {NULL}, size : 0 .. MAX_OBJECT_SIZE,
                             open : BOOLEAN]]
    /\ allocated \subseteq Objects
    /\ want \in [Threads -> Urls \cup {NULL}]
    /\ obj \in [Threads -> Pointers]
    /\ p \in [Threads -> Pointers \cup {Root}] /\ q \in [Threads -> Pointers]

(* The pointers form a path, which leads to allocated objects only. *)
Linked == \E c, m : Path(c, m, next) /\ On(c, m) \subseteq allocated

(* A walk is on the list, and has passed no object of the URL it looks for.*)
WalkAt(t) ==
    /\ pc[t] = "find" =>
         \E i \in 0 .. N + 1 :
            /\ Nth[i] # NULL /\ p[t] = Nth[i] /\ q[t] = next[Nth[i]]
            /\ \A j \in 1 .. i : data[Nth[j]].url # want[t]
    /\ pc[t] = "find last" =>
         \E i \in 0 .. N + 1 :
            Nth[i] # NULL /\ p[t] = Nth[i] /\ q[t] = next[Nth[i]] /\ q[t] # NULL
Walking == \A t \in Threads : WalkAt(t)

Total == size = SizeOf(data, Cached) /\ size <= MAX_CACHE_SIZE

(* A thread past its request line has a URL, and so has what it fills. *)
Asking ==
    \A t \in Threads :
      /\ pc[t] \notin {"idle", "request", "close"} => want[t] \in Urls
      /\ pc[t] \in Filling => data[obj[t]].url \in Urls

Inv == /\ ControlTyped /\ MutexHeld /\ Typed
       /\ Linked /\ Walking /\ FilledByOne /\ Asking

(* The list changes only with a pointer. *)
LEMMA NthKept == ASSUME UNCHANGED next PROVE Nth' = Nth /\ Cached' = Cached
BY DEF Nth, Cached

(* A walk's place on a path. *)
LEMMA PlaceOnPath ==
  ASSUME NEW c, NEW m, Path(c, m, next), NEW i \in 0 .. N + 1, Nth[i] # NULL
  PROVE  /\ m \in Nat /\ m <= N /\ i \in 0 .. m
         /\ \A j \in 0 .. i : Nth[j] = c[j]
         /\ Nth[i] = c[i]
         /\ next[Nth[i]] = IF i < m THEN c[i + 1] ELSE NULL
         /\ next[Nth[i]] # NULL => i \in 0 .. m - 1 /\ next[Nth[i]] = c[i + 1]
<1>1. m <= N /\ m \in Nat /\ Nth = AlongPath(c, m)
  BY PathIsShort, NthIs DEF Path
<1>2. i <= m
  BY <1>1, ObjectsAreN DEF AlongPath
<1> QED
  BY <1>1, <1>2, ObjectsAreN DEF AlongPath, Path

(* Where fetch_object's walk is, and what it has passed. *)
LEMMA FindPlace ==
  ASSUME Inv, NEW t \in Threads, pc[t] = "find",
         NEW c, NEW m, Path(c, m, next)
  PROVE  \E i \in 0 .. m :
            /\ m \in Nat /\ m <= N /\ p[t] = c[i] /\ q[t] = IF i < m THEN c[i + 1] ELSE NULL
            /\ \A j \in 1 .. i : data[c[j]].url # want[t]
<1>1. PICK i \in 0 .. N + 1 :
         /\ Nth[i] # NULL /\ p[t] = Nth[i] /\ q[t] = next[Nth[i]]
         /\ \A j \in 1 .. i : data[Nth[j]].url # want[t]
  BY DEF Inv, Walking, WalkAt
<1>2. /\ m \in Nat /\ m <= N /\ i \in 0 .. m
      /\ \A j \in 0 .. i : Nth[j] = c[j]
      /\ next[Nth[i]] = IF i < m THEN c[i + 1] ELSE NULL
  BY <1>1, PlaceOnPath
<1> QED
  BY <1>1, <1>2

(* Where remove_object's walk is: at an object of the list. *)
LEMMA LastPlace ==
  ASSUME Inv, NEW t \in Threads, pc[t] = "find last"
  PROVE  \E c, m, i : /\ Path(c, m, next) /\ On(c, m) \subseteq allocated
                      /\ m \in Nat /\ m <= N /\ i \in 0 .. m - 1
                      /\ p[t] = c[i] /\ q[t] = c[i + 1]
<1>1. PICK i \in 0 .. N + 1 :
         Nth[i] # NULL /\ p[t] = Nth[i] /\ q[t] = next[Nth[i]] /\ q[t] # NULL
  BY DEF Inv, Walking, WalkAt
<1>2. PICK c, m : Path(c, m, next) /\ On(c, m) \subseteq allocated
  BY DEF Inv, Linked
<1>3. /\ m \in Nat /\ m <= N /\ i \in 0 .. m /\ Nth[i] = c[i]
      /\ (next[Nth[i]] # NULL => i \in 0 .. m - 1 /\ next[Nth[i]] = c[i + 1])
  BY <1>1, <1>2, PlaceOnPath
<1> QED
  BY <1>1, <1>2, <1>3

(* What the four actions that change pointers do to the list. *)
LEMMA HitMoves ==
  ASSUME Inv, NEW t \in Threads, Hit(t)
  PROVE  /\ Linked' /\ q[t] \in Cached /\ Cached' = Cached
         /\ newer' = {<<q[t], b>> : b \in Cached \ {q[t]}}
                     \cup {pair \in newer : pair[1] # q[t] /\ pair[2] # q[t]}
         /\ \A a \in Cached : <<a, q[t]>> \in newer => data[a].url # want[t]
<1>1. PICK c, m : Path(c, m, next) /\ On(c, m) \subseteq allocated
  BY DEF Inv, Linked
<1>2. PICK i \in 0 .. m :
         /\ m \in Nat /\ m <= N /\ p[t] = c[i]
         /\ q[t] = IF i < m THEN c[i + 1] ELSE NULL
         /\ \A j \in 1 .. i : data[c[j]].url # want[t]
  BY <1>1, FindPlace DEF Hit, At
<1>3. i + 1 \in 1 .. m /\ q[t] = c[i + 1] /\ m \in Nat /\ (i + 1) - 1 = i
  BY <1>2 DEF Hit
<1>4. Follows(c, m, p[t], q[t])
  BY <1>2, <1>3 DEF Follows
<1>5. next \in [Objects \cup {Root} -> Pointers] /\ next' = Moved(next, p[t], q[t])
  BY DEF Inv, Typed, Hit, Moved, Unlinked
<1>6. PICK d : /\ Path(d, m, next') /\ On(d, m) = On(c, m)
               /\ Before(d, m)
                    = {<<q[t], b>> : b \in On(c, m) \ {q[t]}}
                      \cup {pair \in Before(c, m) : pair[1] # q[t] /\ pair[2] # q[t]}
  BY <1>1, <1>4, <1>5, ToHeadPath
<1>7. /\ Cached = On(c, m) /\ Cached' = On(d, m)
      /\ newer = Before(c, m) /\ newer' = Before(d, m)
  BY <1>1, <1>6, CachedIs, CachedIsPrime, NewerIs, NewerIsPrime
<1>8. Linked'
  BY <1>1, <1>6 DEF Linked, Hit, memVars
<1>9. q[t] \in On(c, m)
  BY <1>3 DEF On
<1>10. ASSUME NEW a, <<a, q[t]>> \in Before(c, m) PROVE data[a].url # want[t]
  <2>1. PICK i1 \in 1 .. m, j1 \in 1 .. m : i1 < j1 /\ a = c[i1] /\ q[t] = c[j1]
    BY <1>10, BeforeIs
  <2>2. j1 = i + 1
    BY <1>1, <1>3, <2>1 DEF Path
  <2> QED
    BY <1>2, <2>1, <2>2
<1> QED
  BY <1>6, <1>7, <1>8, <1>9, <1>10

(* insert_object puts its object before all others. *)
LEMMA LinkAdds ==
  ASSUME Inv, NEW t \in Threads, Link(t)
  PROVE  /\ Linked' /\ obj[t] \in Objects /\ obj[t] \notin Cached
         /\ Cached' = Cached \cup {obj[t]}
         /\ newer' = newer \cup {<<obj[t], b>> : b \in Cached}
<1>1. PICK c, m : Path(c, m, next) /\ On(c, m) \subseteq allocated
  BY DEF Inv, Linked
<1>2. Cached = On(c, m) /\ newer = Before(c, m)
  BY <1>1, CachedIs, NewerIs
<1>3. obj[t] \in Objects /\ obj[t] \in allocated /\ obj[t] \notin On(c, m)
  <2>1. pc[t] \in Filling
    BY DEF Link, At, Filling
  <2> QED
    BY <2>1, <1>2 DEF Inv, FilledByOne, Typed
<1>4. /\ next \in [Objects \cup {Root} -> Pointers]
      /\ next' = Saved(next, obj[t])
  BY DEF Inv, Typed, Link, Saved
<1>5. PICK d, n : /\ Path(d, n, next')
                  /\ On(d, n) = On(c, m) \cup {obj[t]}
                  /\ Before(d, n) = Before(c, m) \cup {<<obj[t], b>> : b \in On(c, m)}
  BY <1>1, <1>3, <1>4, AtHeadPath
<1>6. Cached' = On(d, n) /\ newer' = Before(d, n)
  BY <1>5, CachedIsPrime, NewerIsPrime
<1>7. Linked'
  <2>1. allocated' = allocated
    BY DEF Link, memVars
  <2>2. On(d, n) \subseteq allocated
    BY <1>1, <1>3, <1>5
  <2> QED
    BY <1>5, <2>1, <2>2, Zenon DEF Linked
<1> QED
  BY <1>2, <1>3, <1>5, <1>6, <1>7

(* remove_object takes off the object that no other is older than. *)
LEMMA RemoveLastDrops ==
  ASSUME Inv, NEW t \in Threads, RemoveLast(t)
  PROVE  /\ Linked' /\ q[t] \in Objects /\ q[t] \in Cached
         /\ Cached' = Cached \ {q[t]}
         /\ newer' = {pair \in newer : pair[2] # q[t]}
         /\ \A b : <<q[t], b>> \notin newer
<1>1. PICK c, m, i :
         /\ Path(c, m, next) /\ On(c, m) \subseteq allocated
         /\ m \in Nat /\ m <= N /\ i \in 0 .. m - 1
         /\ p[t] = c[i] /\ q[t] = c[i + 1]
  BY LastPlace DEF RemoveLast, At
<1>2. m \in Nat /\ i \in 0 .. m - 1 /\ p[t] = c[i] /\ q[t] = c[i + 1]
  BY <1>1
<1>3. i + 1 \in 1 .. m /\ m # 0 /\ c[i + 1] \in Objects
  BY <1>1, <1>2 DEF Path
<1>4. i + 1 = m
  <2>1. SUFFICES ASSUME i + 1 < m PROVE FALSE
    BY <1>2, <1>3
  <2>2. next[c[i + 1]] = c[i + 1 + 1] /\ i + 1 + 1 \in 1 .. m
    BY <1>1, <1>2, <1>3, <2>1 DEF Path
  <2>3. c[i + 1 + 1] # NULL
    BY <1>1, <2>2, MemoryAssumption DEF Path
  <2> QED
    BY <1>2, <2>2, <2>3 DEF RemoveLast
<1>5. i = m - 1
  BY <1>2, <1>3, <1>4
<1>6. /\ next \in [Objects \cup {Root} -> Pointers]
      /\ next' = Cut(next, p[t])
  BY DEF Inv, Typed, RemoveLast, Cut
<1>7. q[t] = c[m] /\ q[t] \in On(c, m) /\ IsLast(c, m, p[t], q[t])
  BY <1>2, <1>3, <1>4, <1>5 DEF On, IsLast
<1>8. PICK n : /\ Path(c, n, next')
               /\ On(c, n) = On(c, m) \ {q[t]}
               /\ Before(c, n) = {pair \in Before(c, m) : pair[2] # q[t]}
  BY <1>1, <1>3, <1>6, <1>7, WithoutLastPath
<1>9. /\ Cached = On(c, m) /\ Cached' = On(c, n)
      /\ newer = Before(c, m) /\ newer' = Before(c, n)
  BY <1>1, <1>8, CachedIs, CachedIsPrime, NewerIs, NewerIsPrime
<1>10. Linked'
  BY <1>1, <1>8 DEF Linked, RemoveLast
<1>11. ASSUME NEW b, <<q[t], b>> \in Before(c, m) PROVE FALSE
  <2>1. PICK i1 \in 1 .. m, j1 \in 1 .. m : i1 < j1 /\ q[t] = c[i1] /\ b = c[j1]
    BY <1>11, BeforeIs
  <2>2. \A j \in 1 .. m : c[i1] = c[j] => i1 = j
    BY <1>1 DEF Path
  <2>3. m \in 1 .. m /\ c[i1] = c[m]
    BY <1>2, <1>3, <1>7, <2>1
  <2> QED
    BY <1>2, <2>1, <2>2, <2>3
<1> QED
  BY <1>2, <1>3, <1>7, <1>8, <1>9, <1>10, <1>11

(* A new object is not on the list. *)
LEMMA MallocKeeps ==
  ASSUME Inv, NEW t \in Threads, NEW o \in Objects, Malloc(t, o)
  PROVE  Linked' /\ Cached' = Cached /\ newer' = newer /\ Nth' = Nth /\ o \notin Cached
<1>1. PICK c, m : Path(c, m, next) /\ On(c, m) \subseteq allocated
  BY DEF Inv, Linked
<1>2. o \notin On(c, m) /\ o # Root
  BY <1>1, MemoryAssumption DEF Malloc
<1>3. ASSUME NEW i \in 0 .. m PROVE next'[c[i]] = next[c[i]]
  <2>1. c[i] # o /\ c[i] \in Objects \cup {Root}
    BY <1>1, <1>2 DEF Path, On
  <2> QED
    BY <2>1 DEF Malloc, Inv, Typed
<1>4. Path(c, m, next')
  BY <1>1, <1>3 DEF Path
<1>5. Linked'
  BY <1>1, <1>4 DEF Linked, Malloc
<1> QED
  BY <1>1, <1>2, <1>4, <1>5, CachedIs, CachedIsPrime, NewerIs, NewerIsPrime,
     NthIs, NthIsPrime

-----------------------------------------------------------------------------
(* The steps, by what they change. *)

(* Only the program counter of one thread, or the whole process, changes. *)
Passing(t) ==
    \/ Accept(t) \/ NoRequest(t) \/ Serve(t) \/ Connect(t) \/ ConnectFails(t)
    \/ Header(t) \/ LastHeader(t) \/ HeadersEnd(t) \/ ResponseEnds(t) \/ ResponseFails(t)
    \/ TooLarge(t)
Locals(t) ==
    \/ (\E url \in Urls : Request(t, url)) \/ LockFetch(t) \/ FindNext(t) \/ Miss(t)
    \/ LockInsert(t) \/ StartRemove(t) \/ FindLast(t) \/ Close(t)
Relays(t) ==
    (\E to \in {"relay header", "relay body"} : RelayHeader(t, to)) \/ RelayBody(t)
Ends == UNCHANGED <<mutex, size, next, data, allocated, pc, want, obj, p, q>>
        /\ running' \in BOOLEAN

(* Every step of the proxy is of one of these kinds. *)
LEMMA StepKinds ==
  ASSUME Typed, [Next]_vars
  PROVE  \/ Ends
         \/ \E t \in Threads :
               \/ Passing(t) \/ Locals(t) \/ Relays(t)
               \/ Hit(t) \/ RemoveLast(t) \/ Link(t)
               \/ \E o \in Objects : Malloc(t, o)
<1>1. CASE UNCHANGED vars \/ Gone
  BY <1>1 DEF Gone, vars, Ends, Typed
<1>2. ASSUME NEW t \in Threads, OutOfMemory(t) \/ ConnectionBreaks(t)
      PROVE  Ends
  BY <1>2 DEF OutOfMemory, ConnectionBreaks, ProcessEnds, Ends, cacheVars, memVars,
              threadVars, walkVars
<1> QED
  BY <1>1, <1>2 DEF Next, Network, InCache, Passing, Locals, Relays

NoUrl == {"idle", "request", "close"}
Unlocked == Labels \ {"lock fetch", "find", "malloc", "serve", "find last"}

(* A passing step moves one thread, and not into a walk or to a new object. *)
LEMMA PassingMoves ==
  ASSUME NEW t \in Threads, Passing(t)
  PROVE  /\ UNCHANGED <<running, mutex, size, next, data, allocated, want, obj, p, q>>
         /\ \E to \in Unlocked :
               /\ pc' = [pc EXCEPT ![t] = to]
               /\ to \in Filling => pc[t] \in Filling
               /\ to \notin NoUrl => pc[t] \notin NoUrl
<1> USE DEF Labels, Filling, NoUrl, Unlocked, Goto, At,
            cacheVars, memVars, threadVars, walkVars
<1>1. ASSUME NEW from \in Labels, NEW to \in Unlocked,
             to \in Filling => from \in Filling, to \notin NoUrl => from \notin NoUrl,
             Only(t, from, to)
      PROVE  /\ UNCHANGED <<running, mutex, size, next, data, allocated, want, obj, p, q>>
             /\ pc' = [pc EXCEPT ![t] = to] /\ pc[t] = from
  BY <1>1 DEF Only
<1>2. \E from \in Labels, to \in Unlocked :
         /\ to \in Filling => from \in Filling
         /\ to \notin NoUrl => from \notin NoUrl
         /\ Only(t, from, to)
  <2> HIDE DEF At, Goto
  <2> QED
    BY DEF Passing, Accept, NoRequest, Serve, Connect, ConnectFails, Header, LastHeader,
                HeadersEnd, ResponseEnds, ResponseFails, TooLarge
<1> QED
  BY <1>1, <1>2

(* receive_object changes one object, and not its URL. *)
LEMMA receive_objectGets ==
  ASSUME Typed, NEW o, receive_object(o)
  PROVE  /\ data' \in [Objects -> [url : Urls \cup {NULL}, size : 0 .. MAX_OBJECT_SIZE,
                                   open : BOOLEAN]]
         /\ \A x \in Objects : data'[x].url = data[x].url
         /\ \A x \in Objects \ {o} : data'[x] = data[x]
<1>1. CASE ~data[o].open
  BY <1>1 DEF Typed, receive_object
<1>2. CASE data[o].open /\ data[o].size + 1 > MAX_OBJECT_SIZE
  <2>1. data' = [data EXCEPT ![o].open = FALSE]
    BY <1>2 DEF receive_object
  <2> QED
    BY <2>1 DEF Typed
<1>3. CASE data[o].open /\ ~(data[o].size + 1 > MAX_OBJECT_SIZE)
  <2>1. data' = [data EXCEPT ![o].size = data[o].size + 1]
    BY <1>3 DEF receive_object
  <2>2. o \in Objects => data[o].size + 1 \in 0 .. MAX_OBJECT_SIZE
    BY <1>3, SizesAssumption DEF Typed
  <2> QED
    BY <2>1, <2>2 DEF Typed
<1> QED
  BY <1>1, <1>2, <1>3

(* A relaying step changes the object its thread fills. *)
LEMMA RelaysChange ==
  ASSUME NEW t \in Threads, Relays(t)
  PROVE  /\ UNCHANGED <<running, mutex, size, next, allocated, want, obj, p, q>>
         /\ receive_object(obj[t]) /\ pc[t] \in {"relay header", "relay body"}
         /\ \E to \in {"relay header", "relay body"} : pc' = [pc EXCEPT ![t] = to] \/ pc' = pc
BY DEF Relays, RelayHeader, RelayBody, At, Goto, cacheVars, threadVars, walkVars

(* remove_object's q is an object. *)
LEMMA WalkingInObjects ==
  ASSUME Inv, NEW t \in Threads, pc[t] = "find last"
  PROVE  q[t] \in Objects
<1>1. q[t] # NULL
  BY DEF Inv, Walking, WalkAt
<1> QED
  BY <1>1 DEF Inv, Typed, Pointers

(* Every step keeps the types. *)
LEMMA TypedStep == ASSUME Inv, [Next]_vars PROVE Typed'
<1> USE DEF Typed, Set
<1>0. Typed
  BY DEF Inv
<1>1. CASE Ends
  BY <1>0, <1>1 DEF Ends
<1>2. ASSUME NEW t \in Threads, Passing(t) PROVE Typed'
  BY <1>0, <1>2, PassingMoves
<1>3. ASSUME NEW t \in Threads, Locals(t) PROVE Typed'
  <2> USE <1>0 DEF cacheVars, memVars, threadVars, walkVars, Pointers
  <2>1. ASSUME NEW url \in Urls, Request(t, url) PROVE Typed'
    BY <2>1 DEF Request
  <2>2. CASE LockFetch(t)
    BY <2>2 DEF LockFetch
  <2>3. CASE FindNext(t)
    BY <2>3 DEF FindNext
  <2>4. CASE Miss(t)
    BY <2>4 DEF Miss
  <2>5. CASE LockInsert(t)
    BY <2>5 DEF LockInsert
  <2>6. CASE StartRemove(t)
    BY <2>6 DEF StartRemove
  <2>7. CASE FindLast(t)
    BY <2>7, WalkingInObjects DEF FindLast, At
  <2>8. CASE Close(t)
    BY <2>8 DEF Close
  <2> QED
    BY <1>3, <2>1, <2>2, <2>3, <2>4, <2>5, <2>6, <2>7, <2>8 DEF Locals
<1>4. ASSUME NEW t \in Threads, Relays(t) PROVE Typed'
  BY <1>0, <1>4, RelaysChange, receive_objectGets
<1>5. ASSUME NEW t \in Threads, Hit(t) PROVE Typed'
  <2>1. q[t] \in Objects /\ next' = Moved(next, p[t], q[t])
    BY <1>0, <1>5 DEF Hit, Moved, Unlinked, Pointers
  <2>2. Unlinked(next, p[t], q[t]) \in [Objects \cup {Root} -> Pointers]
    BY <1>0, <2>1 DEF Unlinked
  <2>3. next' \in [Objects \cup {Root} -> Pointers]
    BY <2>1, <2>2 DEF Moved, Pointers
  <2> QED
    BY <1>0, <1>5, <2>3 DEF Hit, memVars, Pointers
<1>6. ASSUME NEW t \in Threads, RemoveLast(t) PROVE Typed'
  BY <1>0, <1>6 DEF RemoveLast, threadVars, Pointers
<1>7. ASSUME NEW t \in Threads, Link(t) PROVE Typed'
  BY <1>0, <1>7 DEF Link, memVars, threadVars, walkVars, Pointers
<1>8. ASSUME NEW t \in Threads, NEW o \in Objects, Malloc(t, o) PROVE Typed'
  <2>1. [url |-> want[t], size |-> 0, open |-> TRUE]
          \in [url : Urls \cup {NULL}, size : 0 .. MAX_OBJECT_SIZE, open : BOOLEAN]
    BY <1>0, SizesAssumption
  <2> QED
    BY <1>0, <1>8, <2>1 DEF Malloc, walkVars, Pointers
<1> QED
  BY <1>0, <1>1, <1>2, <1>3, <1>4, <1>5, <1>6, <1>7, <1>8, StepKinds

-----------------------------------------------------------------------------
(* Every step keeps the parts of the invariant. *)

(* Every step leaves a list that ends. *)
LEMMA LinkedStep == ASSUME Inv, [Next]_vars PROVE Linked'
<1>1. CASE UNCHANGED <<next, allocated>>
  BY <1>1 DEF Inv, Linked
<1>2. ASSUME NEW t \in Threads, Locals(t) PROVE UNCHANGED <<next, allocated>>
  BY <1>2 DEF Locals, Request, LockFetch, FindNext, Miss, LockInsert, StartRemove,
              FindLast, Close, cacheVars, memVars
<1> QED
  BY <1>1, <1>2, StepKinds, PassingMoves, RelaysChange, HitMoves, LinkAdds,
     RemoveLastDrops, MallocKeeps DEF Ends, Inv

(* While one thread is inside the cache no other is. *)
LEMMA OthersOutside ==
  ASSUME Inv, NEW t \in Threads, pc[t] \in {"find", "make room", "find last"},
         NEW u \in Threads, u # t
  PROVE  pc[u] \notin {"find", "make room", "find last"}
BY DEF Inv, MutexHeld, Inside

(* What is cached is allocated memory. *)
LEMMA CachedAreObjects ==
  ASSUME Inv
  PROVE  Cached \subseteq Objects /\ Cached \subseteq allocated /\ IsFiniteSet(Cached)
<1>1. PICK c, m : Path(c, m, next) /\ On(c, m) \subseteq allocated
  BY DEF Inv, Linked
<1>2. Cached = On(c, m)
  BY <1>1, CachedIs
<1>3. On(c, m) \subseteq Objects
  BY <1>1 DEF Path, On
<1>4. IsFiniteSet(Cached)
  BY <1>2, <1>3, MemoryAssumption, FS_Subset
<1> QED
  BY <1>1, <1>2, <1>3, <1>4

(* A walk goes on where it was when its list and its URLs are the same. *)
LEMMA WalkKept ==
  ASSUME Inv, NEW u \in Threads,
         pc'[u] = pc[u], p'[u] = p[u], q'[u] = q[u], want'[u] = want[u], Nth' = Nth,
         \A o \in Cached \cup {Root} : next'[o] = next[o],
         \A o \in Cached : data'[o].url = data[o].url
  PROVE  WalkAt(u)'
<1>1. PICK c, m : Path(c, m, next)
  BY DEF Inv, Linked
<1>2. ASSUME NEW i \in 0 .. N + 1, Nth[i] # NULL
      PROVE  /\ next'[Nth[i]] = next[Nth[i]]
             /\ \A j \in 1 .. i : data'[Nth[j]].url = data[Nth[j]].url
  <2>1. m \in Nat /\ i \in 0 .. m /\ \A j \in 0 .. i : Nth[j] = c[j]
    BY <1>1, <1>2, PlaceOnPath
  <2>2. ASSUME NEW j \in 1 .. i PROVE Nth[j] \in Cached
    <3>1. j \in 1 .. m /\ Nth[j] = c[j]
      BY <2>1
    <3> QED
      BY <1>1, <3>1, CachedIs DEF On
  <2>3. Nth[i] \in Cached \cup {Root}
    <3>1. CASE i = 0
      BY <2>1, <3>1, <1>1 DEF Path
    <3>2. CASE i # 0
      <4>1. i \in 1 .. i
        BY <3>2
      <4> QED
        BY <4>1, <2>2
    <3> QED
      BY <3>1, <3>2
  <2> QED
    BY <2>2, <2>3
<1>3. WalkAt(u)
  BY DEF Inv, Walking
<1>4. ASSUME pc'[u] = "find"
      PROVE  \E i \in 0 .. N + 1 :
                /\ Nth'[i] # NULL /\ p'[u] = Nth'[i] /\ q'[u] = next'[Nth'[i]]
                /\ \A j \in 1 .. i : data'[Nth'[j]].url # want'[u]
  <2>1. PICK i \in 0 .. N + 1 :
           /\ Nth[i] # NULL /\ p[u] = Nth[i] /\ q[u] = next[Nth[i]]
           /\ \A j \in 1 .. i : data[Nth[j]].url # want[u]
    BY <1>3, <1>4 DEF WalkAt
  <2> QED
    BY <2>1, <1>2
<1>5. ASSUME pc'[u] = "find last"
      PROVE  \E i \in 0 .. N + 1 :
                /\ Nth'[i] # NULL /\ p'[u] = Nth'[i] /\ q'[u] = next'[Nth'[i]]
                /\ q'[u] # NULL
  <2>1. PICK i \in 0 .. N + 1 :
           Nth[i] # NULL /\ p[u] = Nth[i] /\ q[u] = next[Nth[i]] /\ q[u] # NULL
    BY <1>3, <1>5 DEF WalkAt
  <2> QED
    BY <2>1, <1>2
<1> QED
  BY <1>4, <1>5 DEF WalkAt

(* One step further along the list. *)
LEMMA NthNext ==
  ASSUME Inv
  PROVE  /\ N \in Nat /\ Nth[0] = Root
         /\ \A i \in 0 .. N + 1 :
               Nth[i] # NULL => i + 1 \in 0 .. N + 1 /\ Nth[i + 1] = next[Nth[i]]
<1>1. PICK c, m : Path(c, m, next)
  BY DEF Inv, Linked
<1>2. m <= N /\ m \in Nat /\ N \in Nat /\ Nth = AlongPath(c, m)
  BY <1>1, PathIsShort, NthIs, ObjectsAreN DEF Path
<1>3. Walk(Nth, next)
  BY <1>1, <1>2, PathWalks
<1>4. ASSUME NEW i \in 0 .. N + 1, Nth[i] # NULL
      PROVE  i + 1 \in 0 .. N + 1 /\ Nth[i + 1] = next[Nth[i]]
  <2>1. i <= m
    BY <1>2, <1>4 DEF AlongPath
  <2>2. i + 1 \in 0 .. N + 1 /\ i + 1 # 0 /\ (i + 1) - 1 = i
    BY <1>2, <2>1
  <2> QED
    BY <1>3, <1>4, <2>2 DEF Walk
<1>5. Nth[0] = Root
  BY <1>2, <1>3 DEF Walk
<1> QED
  BY <1>2, <1>4, <1>5

(* A step of a thread that leaves list and URLs alone keeps the others' walks. *)
LEMMA OthersWalkOn ==
  ASSUME Inv, NEW t \in Threads, NEW to, pc' = [pc EXCEPT ![t] = to] \/ pc' = pc,
         Nth' = Nth, \A o \in Cached \cup {Root} : next'[o] = next[o],
         \A o \in Cached : data'[o].url = data[o].url,
         \A u \in Threads \ {t} : p'[u] = p[u] /\ q'[u] = q[u] /\ want'[u] = want[u],
         WalkAt(t)'
  PROVE  Walking'
<1>1. ASSUME NEW u \in Threads, u # t PROVE WalkAt(u)'
  BY <1>1, WalkKept DEF Inv, ControlTyped
<1> QED
  BY <1>1 DEF Walking

(* Nobody walks after a step that changes the list. *)
LEMMA NobodyWalks ==
  ASSUME Inv, NEW t \in Threads, pc[t] \in {"find", "make room", "find last"},
         NEW to, to \notin {"find", "find last"}, pc' = [pc EXCEPT ![t] = to]
  PROVE  Walking'
<1>1. ASSUME NEW u \in Threads PROVE pc'[u] \notin {"find", "find last"}
  BY OthersOutside DEF Inv, ControlTyped
<1> QED
  BY <1>1 DEF Walking, WalkAt

(* A step of a walk takes it one object further. *)
LEMMA LocalsWalk == ASSUME Inv, NEW t \in Threads, Locals(t) PROVE Walking'
<1> USE DEF Set, Goto, At
<1>1. UNCHANGED <<next, data>> /\ Nth' = Nth /\ t \in DOMAIN pc
  <2>1. UNCHANGED <<next, data>>
    BY DEF Locals, Request, LockFetch, FindNext, Miss, LockInsert, StartRemove,
           FindLast, Close, cacheVars, memVars
  <2> QED
    BY <2>1, NthKept DEF Inv, ControlTyped
<1>2. PICK to : pc' = [pc EXCEPT ![t] = to] \/ pc' = pc
  BY DEF Locals, Request, LockFetch, FindNext, Miss, LockInsert, StartRemove, FindLast, Close
<1>3. \A u \in Threads \ {t} : p'[u] = p[u] /\ q'[u] = q[u] /\ want'[u] = want[u]
  <2>1. \E x, y, z : p' \in {p, [p EXCEPT ![t] = x]} /\ q' \in {q, [q EXCEPT ![t] = y]}
                     /\ want' \in {want, [want EXCEPT ![t] = z]}
    BY DEF Locals, Request, LockFetch, FindNext, Miss, LockInsert, StartRemove,
           FindLast, Close, threadVars, walkVars
  <2> QED
    BY <2>1 DEF Inv, Typed
<1>4. WalkAt(t)'
  <2> DEFINE Here(i) == i \in 0 .. N + 1 /\ Nth[i] # NULL /\ p'[t] = Nth[i]
                        /\ q'[t] = next[Nth[i]]
             Passed(i) == \A j \in 1 .. i : data[Nth[j]].url # want[t]
  <2>1. CASE pc'[t] \notin {"find", "find last"}
    BY <2>1 DEF WalkAt
  <2>2. CASE LockFetch(t)
    <3>0. 0 \in 0 .. N + 1 /\ Nth[0] = Root /\ Root # NULL
      BY NthNext, MemoryAssumption
    <3>1. p'[t] = Root /\ q'[t] = next[Root]
      BY <2>2 DEF LockFetch, Inv, Typed
    <3>3. Here(0) /\ Passed(0)
      <4>1. 1 .. 0 = {}
        OBVIOUS
      <4> QED
        BY <3>0, <3>1, <4>1
    <3>2. pc'[t] = "find" /\ want' = want
      BY <1>1, <2>2 DEF LockFetch, threadVars
    <3> QED
      BY <1>1, <3>2, <3>3 DEF WalkAt
  <2>3. CASE FindNext(t)
    <3>1. PICK i \in 0 .. N + 1 :
             Nth[i] # NULL /\ p[t] = Nth[i] /\ q[t] = next[Nth[i]] /\ Passed(i)
      BY <2>3 DEF FindNext, Inv, Walking, WalkAt
    <3>2. i + 1 \in 0 .. N + 1 /\ Nth[i + 1] = q[t] /\ q[t] # NULL
      BY <2>3, <3>1, NthNext DEF FindNext
    <3>3. Here(i + 1)
      BY <2>3, <3>2 DEF FindNext, Inv, Typed
    <3>4. Passed(i + 1)
      BY <2>3, <3>1, <3>2 DEF FindNext
    <3>5. pc'[t] = "find" /\ want' = want
      BY <2>3 DEF FindNext, threadVars
    <3> HIDE DEF Here
    <3>6. \E k : Here(k) /\ Passed(k)
      BY <3>3, <3>4
    <3> QED
      BY <1>1, <3>5, <3>6 DEF WalkAt, Here
  <2>4. CASE StartRemove(t)
    <3>0. 0 \in 0 .. N + 1 /\ Nth[0] = Root /\ Root # NULL
      BY NthNext, MemoryAssumption
    <3>1. Here(0) /\ q'[t] # NULL
      BY <2>4, <3>0 DEF StartRemove, Inv, Typed
    <3>2. pc'[t] = "find last"
      BY <1>1, <2>4 DEF StartRemove
    <3> QED
      BY <1>1, <3>1, <3>2 DEF WalkAt
  <2>5. CASE FindLast(t)
    <3>1. PICK i \in 0 .. N + 1 :
             Nth[i] # NULL /\ p[t] = Nth[i] /\ q[t] = next[Nth[i]] /\ q[t] # NULL
      BY <2>5 DEF FindLast, Inv, Walking, WalkAt
    <3>2. i + 1 \in 0 .. N + 1 /\ Nth[i + 1] = q[t]
      BY <3>1, NthNext
    <3>3. Here(i + 1) /\ q'[t] # NULL
      BY <2>5, <3>1, <3>2 DEF FindLast, Inv, Typed
    <3>4. pc'[t] = "find last"
      BY <2>5 DEF FindLast
    <3> HIDE DEF Here
    <3>5. \E k : Here(k)
      BY <3>3
    <3> QED
      BY <1>1, <3>3, <3>4, <3>5 DEF WalkAt, Here
  <2>6. CASE Miss(t) \/ LockInsert(t) \/ Close(t) \/ \E url \in Urls : Request(t, url)
    <3>1. pc'[t] \in {"malloc", "make room", "idle", "lock fetch"}
      BY <1>1, <2>6 DEF Miss, LockInsert, Close, Request
    <3> QED
      BY <3>1, <2>1
  <2> QED
    BY <2>2, <2>3, <2>4, <2>5, <2>6 DEF Locals
<1> QED
  BY <1>1, <1>2, <1>3, <1>4, OthersWalkOn

(* Every step keeps the walks on the list. *)
LEMMA WalkingStep == ASSUME Inv, [Next]_vars PROVE Walking'
<1> USE DEF Set, Goto, At
<1>0. Typed /\ ControlTyped /\ Walking
  BY DEF Inv
<1>1. CASE Ends
  <2>1. UNCHANGED <<pc, p, q, want, next, data>> /\ Nth' = Nth
    BY <1>1, NthKept DEF Ends
  <2>2. ASSUME NEW u \in Threads PROVE WalkAt(u)'
    BY <2>1, WalkKept
  <2> QED
    BY <2>2 DEF Walking
<1>2. ASSUME NEW t \in Threads, Passing(t) PROVE Walking'
  <2>1. PICK to \in Unlocked : pc' = [pc EXCEPT ![t] = to]
    BY <1>2, PassingMoves
  <2>2. WalkAt(t)'
    BY <1>0, <2>1 DEF WalkAt, Unlocked, ControlTyped
  <2> QED
    BY <1>2, <2>1, <2>2, PassingMoves, NthKept, OthersWalkOn
<1>3. ASSUME NEW t \in Threads, Relays(t) PROVE Walking'
  <2>1. PICK to \in {"relay header", "relay body"} : pc' = [pc EXCEPT ![t] = to] \/ pc' = pc
    BY <1>3, RelaysChange
  <2>2. WalkAt(t)'
    BY <1>0, <1>3, <2>1, RelaysChange DEF WalkAt, ControlTyped
  <2>3. \A o \in Cached : o \in Objects
    BY CachedAreObjects
  <2>4. \A o \in Cached : data'[o].url = data[o].url
    BY <1>0, <1>3, <2>3, RelaysChange, receive_objectGets
  <2> QED
    BY <1>3, <2>1, <2>2, <2>4, RelaysChange, NthKept, OthersWalkOn
<1>4. ASSUME NEW t \in Threads, Hit(t) \/ RemoveLast(t) \/ Link(t) PROVE Walking'
  <2>1. PICK to \in {"serve", "make room", "close"} : pc' = [pc EXCEPT ![t] = to]
    BY <1>4 DEF Hit, RemoveLast, Link
  <2> QED
    BY <1>4, <2>1, NobodyWalks DEF Hit, RemoveLast, Link
<1>5. ASSUME NEW t \in Threads, NEW o \in Objects, Malloc(t, o) PROVE Walking'
  <2>1. pc' = [pc EXCEPT ![t] = "connect"] /\ UNCHANGED <<p, q, want>>
    BY <1>5 DEF Malloc, walkVars
  <2>2. WalkAt(t)'
    BY <1>0, <2>1 DEF WalkAt, ControlTyped
  <2>3. Nth' = Nth /\ o \notin Cached /\ o # Root
    BY <1>5, MallocKeeps, MemoryAssumption
  <2>4. \A x \in Cached : x \in Objects
    BY CachedAreObjects
  <2>5. /\ \A x \in Cached \cup {Root} : next'[x] = next[x]
        /\ \A x \in Cached : data'[x].url = data[x].url
    BY <1>0, <1>5, <2>3, <2>4 DEF Malloc, Typed
  <2> QED
    BY <2>1, <2>2, <2>3, <2>5, OthersWalkOn
<1> QED
  BY <1>1, <1>2, <1>3, <1>4, <1>5, LocalsWalk, StepKinds, <1>0

(* What these steps change of a thread, and that they change no memory. *)
LEMMA LocalsChange ==
  ASSUME Inv, NEW t \in Threads, Locals(t)
  PROVE  /\ UNCHANGED <<running, size, next, data, allocated>>
         /\ \A u \in Threads :
               pc'[u] \in Filling => /\ pc[u] \in Filling /\ obj'[u] = obj[u]
                                     /\ want'[u] = want[u]
         /\ \A u \in Threads :
               pc'[u] \notin NoUrl =>
                 want'[u] \in Urls \/ (want'[u] = want[u] /\ pc[u] \notin NoUrl)
         /\ \A u \in Threads :
               \/ pc'[u] # "serve" /\ pc[u] # "serve"
               \/ pc'[u] = pc[u] /\ want'[u] = want[u] /\ obj'[u] = obj[u]
<1> USE DEF Set, Goto, At, cacheVars, memVars, threadVars, walkVars, Filling, NoUrl
<1>0. pc \in [Threads -> Labels] /\ want \in [Threads -> Urls \cup {NULL}]
      /\ obj \in [Threads -> Pointers]
  BY DEF Inv, ControlTyped, Typed
<1>1. ASSUME NEW url \in Urls, Request(t, url) PROVE want'[t] = url
  BY <1>0, <1>1 DEF Request
<1>2. UNCHANGED <<running, size, next, data, allocated>>
  BY DEF Locals, Request, LockFetch, FindNext, Miss, LockInsert, StartRemove, FindLast, Close
<1>3. CASE \E url \in Urls : Request(t, url)
  BY <1>0, <1>1, <1>2, <1>3 DEF Request
<1>4. CASE LockFetch(t) \/ FindNext(t) \/ Miss(t)
  BY <1>0, <1>2, <1>4 DEF LockFetch, FindNext, Miss
<1>5. CASE LockInsert(t) \/ StartRemove(t) \/ FindLast(t)
  BY <1>0, <1>2, <1>5 DEF LockInsert, StartRemove, FindLast
<1>6. CASE Close(t)
  BY <1>0, <1>2, <1>6 DEF Close
<1> QED
  BY <1>3, <1>4, <1>5, <1>6 DEF Locals

(* Every step keeps an object that is being filled in one thread's hands. *)
LEMMA FilledByOneStep == ASSUME Inv, [Next]_vars PROVE FilledByOne'
<1> USE DEF Goto, At
<1>0. Typed /\ FilledByOne /\ pc \in [Threads -> Labels]
  BY DEF Inv, ControlTyped
<1>1. CASE Ends
  BY <1>0, <1>1, NthKept DEF Ends, FilledByOne
<1>2. ASSUME NEW t \in Threads, Passing(t) PROVE FilledByOne'
  <2>1. UNCHANGED <<next, allocated, obj>>
    BY <1>2, PassingMoves
  <2>2. PICK to \in Unlocked : /\ pc' = [pc EXCEPT ![t] = to]
                               /\ to \in Filling => pc[t] \in Filling
    BY <1>2, PassingMoves
  <2>3. \A u \in Threads : pc'[u] \in Filling => pc[u] \in Filling
    BY <1>0, <2>2
  <2> QED
    BY <1>0, <2>1, <2>3, NthKept DEF FilledByOne
<1>3. ASSUME NEW t \in Threads, Locals(t) PROVE FilledByOne'
  <2>1. /\ UNCHANGED <<next, allocated>>
        /\ \A u \in Threads : pc'[u] \in Filling => pc[u] \in Filling /\ obj'[u] = obj[u]
    BY <1>3, LocalsChange
  <2> QED
    BY <1>0, <2>1, NthKept DEF FilledByOne
<1>4. ASSUME NEW t \in Threads, Relays(t) PROVE FilledByOne'
  <2>1. UNCHANGED <<next, allocated, obj>> /\ pc[t] \in Filling
    BY <1>4, RelaysChange DEF Filling
  <2>2. PICK to : pc' = [pc EXCEPT ![t] = to] \/ pc' = pc
    BY <1>4, RelaysChange
  <2>3. \A u \in Threads : pc'[u] \in Filling => pc[u] \in Filling
    BY <1>0, <2>1, <2>2
  <2> QED
    BY <1>0, <2>1, <2>3, NthKept DEF FilledByOne
<1>5. ASSUME NEW t \in Threads, Hit(t) PROVE FilledByOne'
  <2>1. Cached' = Cached
    BY <1>5, HitMoves
  <2>2. /\ allocated' = allocated /\ pc' = [pc EXCEPT ![t] = "serve"]
        /\ obj' = [obj EXCEPT ![t] = q[t]]
    BY <1>5 DEF Hit, memVars, Set
  <2>3. \A u \in Threads : pc'[u] \in Filling => pc[u] \in Filling /\ obj'[u] = obj[u]
    BY <1>0, <2>2 DEF Typed, Filling
  <2> QED
    BY <1>0, <2>1, <2>2, <2>3 DEF FilledByOne
<1>6. ASSUME NEW t \in Threads, RemoveLast(t) PROVE FilledByOne'
  <2>1. q[t] \in Cached /\ Cached' = Cached \ {q[t]}
    BY <1>6, RemoveLastDrops
  <2>2. /\ allocated' = allocated \ {q[t]} /\ UNCHANGED obj
        /\ pc[t] = "find last" /\ pc' = [pc EXCEPT ![t] = "make room"]
    BY <1>6 DEF RemoveLast, threadVars
  <2>3. \A u \in Threads : pc'[u] \in Filling => pc[u] \in Filling
    BY <1>0, <2>2 DEF Filling
  <2> QED
    BY <1>0, <2>1, <2>2, <2>3 DEF FilledByOne
<1>7. ASSUME NEW t \in Threads, Link(t) PROVE FilledByOne'
  <2>1. Cached' = Cached \cup {obj[t]}
    BY <1>7, LinkAdds
  <2>2. /\ UNCHANGED <<allocated, obj>>
        /\ pc[t] = "make room" /\ pc' = [pc EXCEPT ![t] = "close"]
    BY <1>7 DEF Link, memVars, threadVars
  <2>3. \A u \in Threads : pc'[u] \in Filling => pc[u] \in Filling /\ u # t
    BY <1>0, <2>2 DEF Filling
  <2>4. \A u \in Threads : pc'[u] \in Filling => obj[u] # obj[t]
    BY <1>0, <2>2, <2>3 DEF FilledByOne, Filling
  <2> QED
    BY <1>0, <2>1, <2>2, <2>3, <2>4 DEF FilledByOne
<1>8. ASSUME NEW t \in Threads, NEW o \in Objects, Malloc(t, o) PROVE FilledByOne'
  <2>1. Cached' = Cached /\ o \notin Cached
    BY <1>8, MallocKeeps
  <2>2. /\ o \notin allocated /\ allocated' = allocated \cup {o}
        /\ obj' = [obj EXCEPT ![t] = o] /\ pc' = [pc EXCEPT ![t] = "connect"]
    BY <1>8 DEF Malloc, Set
  <2>3. \A u \in Threads \ {t} :
           pc'[u] \in Filling => pc[u] \in Filling /\ obj'[u] = obj[u] /\ obj[u] # o
    BY <1>0, <2>2 DEF FilledByOne, Typed
  <2>4. obj'[t] = o
    BY <1>0, <2>2 DEF Typed
  <2> QED
    BY <1>0, <2>1, <2>2, <2>3, <2>4 DEF FilledByOne
<1> QED
  BY <1>1, <1>2, <1>3, <1>4, <1>5, <1>6, <1>7, <1>8, StepKinds, <1>0

(* Every step keeps the URLs known. *)
LEMMA AskingStep == ASSUME Inv, [Next]_vars PROVE Asking'
<1> USE DEF Goto, At
<1>0. /\ Typed /\ Asking /\ FilledByOne
      /\ pc \in [Threads -> Labels] /\ obj \in [Threads -> Pointers]
      /\ want \in [Threads -> Urls \cup {NULL}]
      /\ \A u \in Threads : pc[u] \in Filling => obj[u] \in Objects /\ obj[u] \in allocated
  BY DEF Inv, ControlTyped, Typed, FilledByOne
<1>1. CASE Ends
  BY <1>0, <1>1 DEF Ends, Asking
<1>2. ASSUME NEW t \in Threads, Passing(t) PROVE Asking'
  <2>1. UNCHANGED <<data, obj, want>>
    BY <1>2, PassingMoves
  <2>2. PICK to \in Unlocked : /\ pc' = [pc EXCEPT ![t] = to]
                               /\ to \in Filling => pc[t] \in Filling
                               /\ to \notin NoUrl => pc[t] \notin NoUrl
    BY <1>2, PassingMoves
  <2>3. \A u \in Threads : /\ pc'[u] \in Filling => pc[u] \in Filling
                           /\ pc'[u] \notin NoUrl => pc[u] \notin NoUrl
    BY <1>0, <2>2
  <2> QED
    BY <1>0, <2>1, <2>3 DEF Asking, NoUrl
<1>3. ASSUME NEW t \in Threads, Locals(t) PROVE Asking'
  BY <1>0, <1>3, LocalsChange DEF Asking, NoUrl
<1>4. ASSUME NEW t \in Threads, Relays(t) PROVE Asking'
  <2>1. UNCHANGED <<obj, want>> /\ pc[t] \in {"relay header", "relay body"}
    BY <1>4, RelaysChange
  <2>2. PICK to \in {"relay header", "relay body"} : pc' = [pc EXCEPT ![t] = to] \/ pc' = pc
    BY <1>4, RelaysChange
  <2>3. \A u \in Threads : /\ pc'[u] \in Filling => pc[u] \in Filling
                           /\ pc'[u] \notin NoUrl => pc[u] \notin NoUrl
    BY <1>0, <2>1, <2>2 DEF Filling, NoUrl
  <2>4. \A x \in Objects : data'[x].url = data[x].url
    BY <1>0, <1>4, RelaysChange, receive_objectGets
  <2> QED
    BY <1>0, <2>1, <2>3, <2>4 DEF Asking, NoUrl
<1>5. ASSUME NEW t \in Threads, Hit(t) PROVE Asking'
  <2>1. /\ UNCHANGED <<data, want>> /\ pc' = [pc EXCEPT ![t] = "serve"]
        /\ obj' = [obj EXCEPT ![t] = q[t]] /\ pc[t] = "find"
    BY <1>5 DEF Hit, memVars, Set
  <2>2. \A u \in Threads : pc'[u] \in Filling => pc[u] \in Filling /\ obj'[u] = obj[u]
    BY <1>0, <2>1 DEF Filling
  <2>3. \A u \in Threads : pc'[u] \notin NoUrl => pc[u] \notin NoUrl
    BY <1>0, <2>1 DEF NoUrl
  <2> QED
    BY <1>0, <2>1, <2>2, <2>3 DEF Asking, NoUrl
<1>6. ASSUME NEW t \in Threads, RemoveLast(t) \/ Link(t) PROVE Asking'
  <2>1. UNCHANGED <<data, want, obj>> /\ pc[t] \in {"find last", "make room"}
    BY <1>6 DEF RemoveLast, Link, memVars, threadVars
  <2>2. PICK to \in {"make room", "close"} : pc' = [pc EXCEPT ![t] = to]
    BY <1>6 DEF RemoveLast, Link
  <2>3. \A u \in Threads : /\ pc'[u] \in Filling => pc[u] \in Filling
                           /\ pc'[u] \notin NoUrl => pc[u] \notin NoUrl
    BY <1>0, <2>1, <2>2 DEF Filling, NoUrl
  <2> QED
    BY <1>0, <2>1, <2>3 DEF Asking, NoUrl
<1>7. ASSUME NEW t \in Threads, NEW o \in Objects, Malloc(t, o) PROVE Asking'
  <2>1. /\ UNCHANGED want /\ pc[t] = "malloc" /\ pc' = [pc EXCEPT ![t] = "connect"]
        /\ obj' = [obj EXCEPT ![t] = o] /\ o \notin allocated
        /\ data' = [data EXCEPT ![o] = [url |-> want[t], size |-> 0, open |-> TRUE]]
    BY <1>7 DEF Malloc, Set
  <2>2. data'[o].url = want[t] /\ \A x \in Objects \ {o} : data'[x] = data[x]
    BY <1>0, <2>1 DEF Typed
  <2>3. want[t] \in Urls
    BY <1>0, <2>1 DEF Asking, NoUrl
  <2>4. ASSUME NEW u \in Threads, u # t
        PROVE  /\ pc'[u] = pc[u]
               /\ pc[u] \in Filling => obj'[u] = obj[u] /\ data'[obj[u]] = data[obj[u]]
    <3>1. pc'[u] = pc[u] /\ obj'[u] = obj[u]
      BY <1>0, <2>1, <2>4
    <3>2. pc[u] \in Filling => obj[u] \in Objects \ {o}
      BY <1>0, <2>1
    <3> QED
      BY <2>2, <3>1, <3>2
  <2>5. obj'[t] = o
    BY <1>0, <2>1
  <2>6. ASSUME NEW u \in Threads, u # t
        PROVE  /\ pc'[u] \notin {"idle", "request", "close"} => want'[u] \in Urls
               /\ pc'[u] \in Filling => data'[obj'[u]].url \in Urls
    BY <1>0, <2>1, <2>4, <2>6 DEF Asking
  <2> QED
    BY <2>1, <2>2, <2>3, <2>5, <2>6 DEF Asking
<1> QED
  BY <1>1, <1>2, <1>3, <1>4, <1>5, <1>6, <1>7, StepKinds, <1>0

(* The sizes are numbers within their bound. *)
LEMMA SizesAreNat ==
  ASSUME Inv
  PROVE  /\ \A o \in Objects : data[o].size \in Nat
         /\ \A o \in Objects : data[o].size <= MAX_OBJECT_SIZE
         /\ \A o \in Cached : data[o].size \in Nat
         /\ IsFiniteSet(Cached) /\ SizeOf(data, Cached) \in Nat
<1>1. \A o \in Objects : data[o].size \in Nat /\ data[o].size <= MAX_OBJECT_SIZE
  BY SizesAssumption DEF Inv, Typed
<1>2. Cached \subseteq Objects /\ IsFiniteSet(Cached)
  BY CachedAreObjects
<1>3. \A o \in Cached : data[o].size \in Nat
  BY <1>1, <1>2
<1> QED
  BY <1>1, <1>2, <1>3, SizeIsNat

(* The total stays when no cached size changes. *)
LEMMA SameTotal ==
  ASSUME Inv, Total, UNCHANGED size, Cached' = Cached,
         \A o \in Cached : data[o].size = data'[o].size
  PROVE  Total'
<1>1. SizeOf(data, Cached) = SizeOf(data', Cached)
  BY SizesAreNat, SizeKept
<1>2. SizeOf(data', Cached') = SizeOf(data', Cached)
  OBVIOUS
<1> QED
  BY <1>1, <1>2 DEF Total

(* Every step keeps cachep->size the sum of the list. *)
LEMMA TotalStep == ASSUME Inv, Total, [Next]_vars PROVE Total'
<1>0. Typed
  BY DEF Inv
<1>1. CASE Ends
  BY <1>1, NthKept, SameTotal DEF Ends
<1>2. ASSUME NEW t \in Threads, Passing(t) PROVE Total'
  <2>1. UNCHANGED <<size, next, data>>
    BY <1>2, PassingMoves
  <2> QED
    BY <2>1, NthKept, SameTotal
<1>3. ASSUME NEW t \in Threads, Locals(t) PROVE Total'
  <2>1. UNCHANGED <<size, next, data>>
    BY <1>3, LocalsChange
  <2> QED
    BY <2>1, NthKept, SameTotal
<1>4. ASSUME NEW t \in Threads, Relays(t) PROVE Total'
  <2>1. UNCHANGED <<size, next>> /\ receive_object(obj[t])
    BY <1>4, RelaysChange
  <2>2. obj[t] \notin Cached
    BY <1>4, RelaysChange DEF Inv, FilledByOne, Filling
  <2>3. \A o \in Cached : data'[o] = data[o]
    BY <1>0, <2>1, <2>2, receive_objectGets, CachedAreObjects
  <2> QED
    BY <2>1, <2>3, NthKept, SameTotal
<1>5. ASSUME NEW t \in Threads, Hit(t) PROVE Total'
  <2>1. UNCHANGED <<size, data>> /\ Cached' = Cached
    BY <1>5, HitMoves DEF Hit, memVars
  <2> QED
    BY <2>1, SameTotal
<1>6. ASSUME NEW t \in Threads, RemoveLast(t) PROVE Total'
  <2>1. q[t] \in Cached /\ Cached' = Cached \ {q[t]}
    BY <1>6, RemoveLastDrops
  <2>2. data' = data /\ size' = size - data[q[t]].size
    BY <1>6 DEF RemoveLast
  <2>3. SizeOf(data, Cached) = data[q[t]].size + SizeOf(data, Cached \ {q[t]})
    BY <2>1, SizesAreNat, SizeWithout
  <2>4. SizeOf(data, Cached \ {q[t]}) \in Nat
    <3>1. IsFiniteSet(Cached \ {q[t]})
      BY SizesAreNat, FS_RemoveElement
    <3>2. \A o \in Cached \ {q[t]} : data[o].size \in Nat
      BY SizesAreNat
    <3> QED
      BY <3>1, <3>2, SizeIsNat
  <2>5. SizeOf(data', Cached') = SizeOf(data, Cached \ {q[t]})
    BY <2>1, <2>2
  <2>6. data[q[t]].size \in Nat
    BY <2>1, SizesAreNat
  <2> QED
    BY <2>2, <2>3, <2>4, <2>5, <2>6, SizesAssumption DEF Total
<1>7. ASSUME NEW t \in Threads, Link(t) PROVE Total'
  <2>1. obj[t] \in Objects /\ obj[t] \notin Cached /\ Cached' = Cached \cup {obj[t]}
    BY <1>7, LinkAdds
  <2>2. /\ data' = data /\ size' = size + data[obj[t]].size
        /\ size + data[obj[t]].size <= MAX_CACHE_SIZE
    BY <1>7 DEF Link, memVars, Fits
  <2> DEFINE S == Cached \cup {obj[t]}
  <2>3. IsFiniteSet(S) /\ \A o \in S : data[o].size \in Nat
    BY <2>1, SizesAreNat, FS_AddElement
  <2>4. SizeOf(data, S) = data[obj[t]].size + SizeOf(data, S \ {obj[t]})
    <3>1. obj[t] \in S
      OBVIOUS
    <3> HIDE DEF S
    <3> QED
      BY <2>3, <3>1, SizeWithout
  <2>5. S \ {obj[t]} = Cached
    BY <2>1
  <2>6. SizeOf(data', Cached') = SizeOf(data, S)
    BY <2>1, <2>2
  <2>7. data[obj[t]].size \in Nat /\ SizeOf(data, Cached) \in Nat
    BY <2>1, SizesAreNat
  <2>8. SizeOf(data, S) = data[obj[t]].size + SizeOf(data, Cached)
    BY <2>4, <2>5
  <2>9. size = SizeOf(data, Cached)
    BY DEF Total
  <2> HIDE DEF S
  <2>10. size' = SizeOf(data', Cached')
    BY <2>2, <2>6, <2>7, <2>8, <2>9
  <2> QED
    BY <2>2, <2>10 DEF Total
<1>8. ASSUME NEW t \in Threads, NEW o \in Objects, Malloc(t, o) PROVE Total'
  <2>1. Cached' = Cached /\ o \notin Cached
    BY <1>8, MallocKeeps
  <2>2. UNCHANGED size /\ \A x \in Objects \ {o} : data'[x] = data[x]
    BY <1>0, <1>8 DEF Malloc, Typed
  <2>3. \A x \in Cached : data[x].size = data'[x].size
    BY <2>1, <2>2, CachedAreObjects
  <2> QED
    BY <2>1, <2>2, <2>3, SameTotal
<1> QED
  BY <1>1, <1>2, <1>3, <1>4, <1>5, <1>6, <1>7, <1>8, StepKinds, <1>0

-----------------------------------------------------------------------------
(* The theorems. *)

(* The root alone is a path. *)
LEMMA EmptyPath ==
  ASSUME Init
  PROVE  \E c : Path(c, 0, next) /\ On(c, 0) = {} /\ Before(c, 0) = {}
<1> DEFINE c == [i \in {0} |-> Root]
<1>1. 1 .. 0 = {} /\ c[0] = Root /\ 0 .. 0 = {0} /\ ~(0 < 0)
  OBVIOUS
<1>2. next[Root] = NULL
  BY DEF Init
<1> HIDE DEF c
<1>3. Path(c, 0, next)
  BY <1>1, <1>2 DEF Path
<1>4. On(c, 0) = {}
  BY <1>1 DEF On
<1>5. \A x : x \notin Before(c, 0)
  BY <1>1 DEF Before
<1> QED
  BY <1>3, <1>4, <1>5

(* init_cache leaves an empty list. *)
LEMMA EmptyList == ASSUME Init PROVE Linked /\ Cached = {} /\ newer = {}
<1>1. PICK c : Path(c, 0, next) /\ On(c, 0) = {} /\ Before(c, 0) = {}
  BY EmptyPath
<1>2. Cached = {} /\ newer = {}
  BY <1>1, CachedIs, NewerIs
<1>3. Linked
  BY <1>1 DEF Linked
<1> QED
  BY <1>2, <1>3

(* The invariant holds at the start. *)
LEMMA InvInit == ASSUME Init PROVE Inv /\ Total
<1>1. ControlTyped /\ Inside = {}
  BY DEF Init, ControlTyped, Inside, Labels
<1>2. MutexHeld
  <2>1. mutex # 0
    BY ZeroIsNotOne, Zenon DEF Init
  <2> QED
    BY <1>1, <2>1, Zenon DEF MutexHeld
<1>3. Typed
  BY SizesAssumption DEF Init, Typed, Pointers
<1>4. \A t \in Threads : pc[t] = "idle"
  BY DEF Init
<1>5. Walking /\ FilledByOne /\ Asking
  BY <1>4 DEF Walking, WalkAt, FilledByOne, Asking, Filling
<1>6. Total
  <2>1. SizeOf(data, Cached) = 0
    BY EmptyList, SizeOfNone
  <2>2. size = 0
    BY DEF Init
  <2> QED
    BY <2>1, <2>2, SizesAssumption DEF Total
<1> QED
  BY <1>1, <1>2, <1>3, <1>5, <1>6, EmptyList DEF Inv

(* Every step keeps it. *)
LEMMA InvStep == Inv /\ Total /\ [Next]_vars => Inv' /\ Total'
<1> SUFFICES ASSUME Inv, Total, [Next]_vars PROVE Inv' /\ Total'
  OBVIOUS
<1>1. ControlTyped' /\ MutexHeld'
  BY MutexHeldStep DEF Inv
<1>2. Typed' /\ Linked' /\ Walking' /\ FilledByOne' /\ Asking' /\ Total'
  BY TypedStep, LinkedStep, WalkingStep, FilledByOneStep, AskingStep, TotalStep
<1> QED
  BY <1>1, <1>2 DEF Inv

(* So it always holds. *)
LEMMA InvHolds == Spec => [](Inv /\ Total)
<1>1. Init => Inv /\ Total
  BY InvInit
<1> QED
  BY <1>1, InvStep, PTL DEF Spec

(* The cache is sound as a data structure, for every number of threads and *)
(* objects: the list ends and holds allocated memory only, its size is the *)
(* sum of its objects' and within the bound, and an object that is being   *)
(* filled is in no other thread's hands (Proxy!CacheInv; cache.c, doit).   *)
THEOREM ProxyCacheInv == Spec => []CacheInv
<1>1. Inv /\ Total => CacheInv
  <2> SUFFICES ASSUME Inv, Total PROVE CacheInv
    OBVIOUS
  <2>1. size \in 0 .. MAX_CACHE_SIZE
    BY SizesAreNat, SizesAssumption DEF Total
  <2>2. TypeOK
    BY <2>1 DEF Inv, ControlTyped, Typed, TypeOK
  <2>3. ListIsSound
    <3>1. PICK c, m : Path(c, m, next)
      BY DEF Inv, Linked
    <3>2. m <= N /\ m \in Nat /\ N \in Nat /\ Nth = AlongPath(c, m)
      BY <3>1, PathIsShort, NthIs, ObjectsAreN DEF Path
    <3>3. Nth[N + 1] = NULL
      BY <3>2 DEF AlongPath
    <3> QED
      BY <3>3, CachedAreObjects DEF ListIsSound
  <2>4. SizeIsTotal
    BY SizeIsTotalIs DEF Total
  <2> QED
    BY <2>2, <2>3, <2>4 DEF Inv, CacheInv
<1> QED
  BY <1>1, InvHolds, PTL

(* A step changes no object that is in the cache. *)
LEMMA CachedKept ==
  ASSUME Inv, [Next]_vars, NEW o \in Cached
  PROVE  data'[o] = data[o]
<1>0. Typed /\ o \in Objects /\ o \in Cached
  BY CachedAreObjects DEF Inv
<1>1. ASSUME NEW t \in Threads, Relays(t) PROVE data'[o] = data[o]
  <2>1. receive_object(obj[t]) /\ o # obj[t]
    BY <1>0, <1>1, RelaysChange DEF Inv, FilledByOne, Filling
  <2> QED
    BY <1>0, <2>1, receive_objectGets
<1>2. ASSUME NEW t \in Threads, NEW x \in Objects, Malloc(t, x) PROVE data'[o] = data[o]
  <2>1. o # x
    BY <1>0, <1>2, MallocKeeps
  <2> QED
    BY <1>0, <1>2, <2>1 DEF Malloc, Typed
<1>3. ASSUME NEW t \in Threads, Hit(t) \/ RemoveLast(t) \/ Link(t) PROVE data' = data
  BY <1>3 DEF Hit, RemoveLast, Link, memVars
<1> QED
  BY <1>0, <1>1, <1>2, <1>3, StepKinds, PassingMoves, LocalsChange DEF Ends

(* No step changes an object that is in the cache before and after it      *)
(* (Proxy!CachedDoNotChange; receive_object, insert_object).               *)
THEOREM ProxyCachedDoNotChange == Spec => CachedDoNotChange
<1>1. Inv /\ [Next]_vars => [\A o \in Cached \cap Cached' : data'[o] = data[o]]_vars
  BY CachedKept
<1> QED
  BY <1>1, InvHolds, PTL DEF Spec, CachedDoNotChange

(* What the recency cache sees. *)

(* held shows the URL and the size of a cached object. *)
LEMMA HeldIs ==
  ASSUME NEW o \in Cached
  PROVE  held[o].url = data[o].url /\ held[o].size = data[o].size
BY DEF held

(* The answers change only with a thread that starts or ends serving. *)
LEMMA AnswerKept ==
  ASSUME \A u \in Threads : \/ pc'[u] # "serve" /\ pc[u] # "serve"
                            \/ pc'[u] = pc[u] /\ want'[u] = want[u] /\ obj'[u] = obj[u]
  PROVE  answer' = answer
BY DEF answer

(* A step that changes neither list, size nor answers is a stutter. *)
LEMMA SeesNothing ==
  ASSUME Inv, [Next]_vars, UNCHANGED size, Cached' = Cached, newer' = newer, answer' = answer
  PROVE  UNCHANGED RC!vars
<1>1. held' = held
  BY CachedKept DEF held
<1> QED
  BY <1>1 DEF RC!vars

(* The order of use changes only with a pointer. *)
LEMMA NewerKept == ASSUME UNCHANGED next PROVE newer' = newer
BY NthKept DEF newer, Nth

(* A hit is a Fetch of the recency cache. *)
LEMMA HitFetches ==
  ASSUME Inv, NEW t \in Threads, Hit(t)
  PROVE  q[t] \in Objects /\ RC!Fetch(t, q[t])
<1>1. /\ q[t] \in Cached /\ Cached' = Cached
      /\ newer' = {<<q[t], b>> : b \in Cached \ {q[t]}}
                  \cup {pair \in newer : pair[1] # q[t] /\ pair[2] # q[t]}
      /\ \A a \in Cached : <<a, q[t]>> \in newer => data[a].url # want[t]
  BY HitMoves
<1>2. /\ pc[t] = "find" /\ pc' = [pc EXCEPT ![t] = "serve"]
      /\ obj' = [obj EXCEPT ![t] = q[t]] /\ UNCHANGED <<size, data, want>>
      /\ data[q[t]].url = want[t]
  BY DEF Hit, At, Goto, Set, memVars
<1>3. pc \in [Threads -> Labels] /\ obj \in [Threads -> Pointers]
  BY DEF Inv, ControlTyped, Typed
<1>4. DOMAIN held = Cached /\ q[t] \in Objects
  BY <1>1, CachedAreObjects DEF held
<1>5. answer[t] = <<>> /\ answer' = [answer EXCEPT ![t] = <<want[t], q[t]>>]
  <2>1. ASSUME NEW u \in Threads
        PROVE  /\ u # t => pc'[u] = pc[u] /\ obj'[u] = obj[u]
               /\ pc'[t] = "serve" /\ obj'[t] = q[t]
    BY <1>2, <1>3
  <2>2. ASSUME NEW u \in Threads
        PROVE  answer'[u] = IF u = t THEN <<want[t], q[t]>> ELSE answer[u]
    <3>1. CASE u = t
      BY <1>2, <2>1, <3>1 DEF answer
    <3>2. CASE u # t
      BY <1>2, <2>1, <3>2 DEF answer
    <3> QED
      BY <3>1, <3>2
  <2>3. /\ answer = [u \in Threads |-> answer[u]]
        /\ answer' = [u \in Threads |-> answer'[u]]
    BY DEF answer
  <2>4. answer[t] = <<>>
    BY <1>2 DEF answer
  <2> HIDE DEF answer
  <2> QED
    BY <2>2, <2>3, <2>4
<1>6. held[q[t]].url = want[t]
  BY <1>1, <1>2, HeldIs
<1>7. \A b \in Cached : held[b].url = want[t] => <<b, q[t]>> \notin newer
  BY <1>1, HeldIs
<1>8. held' = held
  BY <1>1, <1>2 DEF held
<1> QED
  BY <1>1, <1>2, <1>4, <1>5, <1>6, <1>7, <1>8 DEF RC!Fetch, RC!Held, RC!Newest

(* The last object's removal is an Evict. *)
LEMMA RemoveLastEvicts ==
  ASSUME Inv, NEW t \in Threads, RemoveLast(t)
  PROVE  q[t] \in Objects /\ RC!Evict(q[t])
<1>1. /\ q[t] \in Objects /\ q[t] \in Cached
      /\ Cached' = Cached \ {q[t]}
      /\ newer' = {pair \in newer : pair[2] # q[t]}
      /\ \A b : <<q[t], b>> \notin newer
  BY RemoveLastDrops
<1>2. /\ pc[t] = "find last" /\ pc' = [pc EXCEPT ![t] = "make room"]
      /\ UNCHANGED <<data, want, obj>> /\ size' = size - data[q[t]].size
  BY DEF RemoveLast, At, Goto, threadVars
<1>3. answer' = answer
  <2>1. \A u \in Threads : \/ pc'[u] # "serve" /\ pc[u] # "serve"
                           \/ pc'[u] = pc[u] /\ want'[u] = want[u] /\ obj'[u] = obj[u]
    BY <1>2 DEF Inv, ControlTyped
  <2> QED
    BY <2>1, AnswerKept
<1>4. DOMAIN held = Cached /\ held[q[t]].size = data[q[t]].size
  BY <1>1, HeldIs DEF held
<1>5. held' = RC!Restrict(held, Cached \ {q[t]})
  BY <1>1, <1>2 DEF held, RC!Restrict
<1> QED
  BY <1>1, <1>2, <1>3, <1>4, <1>5 DEF RC!Evict, RC!Held

(* Linking an object in is an Insert. *)
LEMMA LinkInserts ==
  ASSUME Inv, NEW t \in Threads, Link(t)
  PROVE  /\ obj[t] \in Objects /\ data[obj[t]].url \in Urls
         /\ data[obj[t]].size \in 0 .. MAX_CACHE_SIZE
         /\ RC!Insert(obj[t], data[obj[t]].url, data[obj[t]].size)
<1>1. /\ obj[t] \in Objects /\ obj[t] \notin Cached
      /\ Cached' = Cached \cup {obj[t]}
      /\ newer' = newer \cup {<<obj[t], b>> : b \in Cached}
  BY LinkAdds
<1>2. /\ pc[t] = "make room" /\ pc' = [pc EXCEPT ![t] = "close"]
      /\ UNCHANGED <<data, want, obj>> /\ size' = size + data[obj[t]].size
      /\ size + data[obj[t]].size <= MAX_CACHE_SIZE
  BY DEF Link, At, Goto, threadVars, memVars, Fits
<1>3. answer' = answer
  <2>1. \A u \in Threads : \/ pc'[u] # "serve" /\ pc[u] # "serve"
                           \/ pc'[u] = pc[u] /\ want'[u] = want[u] /\ obj'[u] = obj[u]
    BY <1>2 DEF Inv, ControlTyped
  <2> QED
    BY <2>1, AnswerKept
<1>4. data[obj[t]].url \in Urls
  BY <1>2 DEF Inv, Asking, Filling
<1>5. data[obj[t]].size \in 0 .. MAX_CACHE_SIZE
  BY <1>1, SizesAreNat, SizesAssumption
<1>6. DOMAIN held = Cached /\ Cached \ {obj[t]} = Cached
  BY <1>1 DEF held
<1>7. held' = [b \in Cached \cup {obj[t]} |->
                 IF b = obj[t] THEN [url |-> data[obj[t]].url, size |-> data[obj[t]].size]
                 ELSE held[b]]
  BY <1>1, <1>2 DEF held
<1> QED
  BY <1>1, <1>2, <1>3, <1>4, <1>5, <1>6, <1>7 DEF RC!Insert, RC!Held, RC!Newest

(* Every step of the proxy is one of the recency cache or a stutter. *)
LEMMA RecencyStep == ASSUME Inv, [Next]_vars PROVE [RC!Next]_(RC!vars)
<1>0. pc \in [Threads -> Labels]
  BY DEF Inv, ControlTyped
<1>1. CASE Ends
  <2>1. answer' = answer
    BY <1>1, AnswerKept DEF Ends
  <2> QED
    BY <1>1, <2>1, NthKept, NewerKept, SeesNothing DEF Ends
<1>2. ASSUME NEW t \in Threads, Passing(t) PROVE [RC!Next]_(RC!vars)
  <2>1. UNCHANGED <<size, next, data, want, obj>>
    BY <1>2, PassingMoves
  <2>2. PICK to \in Unlocked : pc' = [pc EXCEPT ![t] = to]
    BY <1>2, PassingMoves
  <2>3. Cached' = Cached /\ newer' = newer /\ \A o \in Cached : data'[o] = data[o]
    BY <2>1, NthKept, NewerKept
  <2>4. CASE pc[t] # "serve"
    <3>1. \A u \in Threads : \/ pc'[u] # "serve" /\ pc[u] # "serve"
                             \/ pc'[u] = pc[u] /\ want'[u] = want[u] /\ obj'[u] = obj[u]
      BY <1>0, <2>1, <2>2, <2>4 DEF Unlocked
    <3> QED
      BY <2>1, <2>3, <3>1, AnswerKept, SeesNothing
  <2>5. CASE pc[t] = "serve"
    <3>1. \A u \in Threads : u # t => pc'[u] = pc[u]
      BY <1>0, <2>2
    <3>2. pc'[t] # "serve"
      BY <1>0, <2>2 DEF Unlocked
    <3>3. answer[t] # <<>> /\ answer' = [answer EXCEPT ![t] = <<>>]
      BY <2>1, <2>5, <3>1, <3>2 DEF answer
    <3>4. held' = held
      BY <2>1, <2>3 DEF held
    <3>5. RC!Answered(t)
      BY <2>1, <2>3, <3>3, <3>4 DEF RC!Answered
    <3> QED
      BY <3>5 DEF RC!Next
  <2> QED
    BY <2>4, <2>5
<1>3. ASSUME NEW t \in Threads, Locals(t) PROVE [RC!Next]_(RC!vars)
  BY <1>3, LocalsChange, NthKept, NewerKept, AnswerKept, SeesNothing
<1>4. ASSUME NEW t \in Threads, Relays(t) PROVE [RC!Next]_(RC!vars)
  <2>1. UNCHANGED <<size, next, want, obj>> /\ pc[t] # "serve"
    BY <1>4, RelaysChange
  <2>2. PICK to \in {"relay header", "relay body"} : pc' = [pc EXCEPT ![t] = to] \/ pc' = pc
    BY <1>4, RelaysChange
  <2>3. \A u \in Threads : \/ pc'[u] # "serve" /\ pc[u] # "serve"
                           \/ pc'[u] = pc[u] /\ want'[u] = want[u] /\ obj'[u] = obj[u]
    BY <1>0, <2>1, <2>2
  <2> QED
    BY <2>1, <2>3, NthKept, NewerKept, AnswerKept, SeesNothing
<1>5. ASSUME NEW t \in Threads, Hit(t) \/ RemoveLast(t) \/ Link(t) PROVE RC!Next
  <2>1. CASE Hit(t)
    BY <2>1, HitFetches DEF RC!Next
  <2>2. CASE RemoveLast(t)
    BY <2>2, RemoveLastEvicts DEF RC!Next
  <2>3. CASE Link(t)
    BY <2>3, LinkInserts DEF RC!Next
  <2> QED
    BY <1>5, <2>1, <2>2, <2>3
<1>6. ASSUME NEW t \in Threads, NEW o \in Objects, Malloc(t, o) PROVE [RC!Next]_(RC!vars)
  <2>1. UNCHANGED size /\ Cached' = Cached /\ newer' = newer
    BY <1>6, MallocKeeps DEF Malloc
  <2>2. \A u \in Threads : \/ pc'[u] # "serve" /\ pc[u] # "serve"
                           \/ pc'[u] = pc[u] /\ want'[u] = want[u] /\ obj'[u] = obj[u]
    BY <1>0, <1>6 DEF Malloc, At, Goto, Set, Inv, Typed
  <2> QED
    BY <2>1, <2>2, AnswerKept, SeesNothing
<1> QED
  BY <1>1, <1>2, <1>3, <1>4, <1>5, <1>6, StepKinds DEF Inv

(* The linked list implements the recency cache: a hit is the newest       *)
(* object of the URL asked for and becomes the newest of all, and room is  *)
(* made from the other end (Proxy!IsRecencyCache; fetch_object,            *)
(* insert_object, remove_object).                                          *)
THEOREM ProxyIsRecencyCache == Spec => IsRecencyCache
<1>1. Init => RC!Init
  <2> SUFFICES ASSUME Init PROVE RC!Init
    OBVIOUS
  <2>1. Cached = {} /\ newer = {} /\ size = 0
    BY EmptyList DEF Init
  <2>2. held = [o \in {} |-> 0]
    BY <2>1 DEF held
  <2>3. answer = [t \in Threads |-> <<>>]
    BY DEF Init, answer
  <2> QED
    BY <2>1, <2>2, <2>3 DEF RC!Init
<1>2. Inv /\ [Next]_vars => [RC!Next]_(RC!vars)
  BY RecencyStep
<1> QED
  BY <1>1, <1>2, InvHolds, PTL DEF Spec, IsRecencyCache, RC!Spec
=============================================================================
