--------------------------- MODULE Mdriver_proofs ---------------------------
(***************************************************************************)
(* Proofs about the allocator and its callers, for every size of memory,   *)
(* chunk and block, and for every trace.  Sections 1 to 13 are about the   *)
(* routines of mm.c: each of them turns a heap that is sound into one that *)
(* is, and writes into no block that it is not called for.  Sections 14 to *)
(* 20 are about what follows: the heap is sound, the data of callers is    *)
(* kept, the best fit is given, and the driver knows the blocks, and       *)
(* reports no error that is none.  Sections 21 and 22 set two heaps beside *)
(* each other that differ in garbage: a trace gets the same blocks again.  *)
(*                                                                         *)
(* A routine works on one block at a time, whose words say nothing true    *)
(* meanwhile.  So a heap is described with a hole (HeapAt): outside of it  *)
(* the boundary tags agree and the lists hold the free blocks.  A block    *)
(* opens to a hole, the hole takes in its neighbours or is cut, and closes *)
(* to a block again; only then are the lists and the walk spoken of.       *)
(***************************************************************************)
EXTENDS Mdriver, NatLemmas, FiniteSetTheorems, TLAPS
-----------------------------------------------------------------------------
(* 1. The predicates: a heap with a hole that is being worked on.          *)

(* The addresses of the words of memory. *)
Addr == {WSIZE * k : k \in 0 .. MAX_HEAP \div WSIZE - 1}
Memory == [Addr -> Int]

(* Every multiple of 4 below MAX_HEAP that has room for a word is one. *)
LEMMA IsAddr ==
  ASSUME NEW p \in Nat, p % 4 = 0, p + 4 <= MAX_HEAP
  PROVE  p \in Addr
<1>1. MAX_HEAP \in Nat
  BY HeapAssumption
<1> DEFINE k == p \div 4
<1>2. k \in 0 .. MAX_HEAP \div 4 - 1 /\ p = 4 * k
  BY <1>1
<1> QED
  BY <1>2 DEF Addr, WSIZE

(* And each of them is such a multiple.                                    *)
LEMMA AddrIs ==
  ASSUME NEW p \in Addr
  PROVE  p \in Nat /\ p % 4 = 0 /\ p + 4 <= MAX_HEAP
<1>1. MAX_HEAP \in Nat
  BY HeapAssumption
<1> QED
  BY <1>1 DEF Addr, WSIZE

(* What a header packs can be read back. *)
LEMMA HeaderReads ==
  ASSUME NEW size \in Nat, size % 8 = 0, NEW flags \in 0 .. 3
  PROVE  /\ SIZE(size + flags) = size
         /\ ALLOCATED(size + flags) <=> flags \in {1, 3}
         /\ PALLOCATED(size + flags) <=> flags \in {2, 3}
BY DEF SIZE, ALLOCATED, PALLOCATED

(* Sizes are multiples of 8. *)
LEMMA SizeIs ==
  ASSUME NEW w \in Int
  PROVE  SIZE(w) \in Int /\ SIZE(w) % 8 = 0
BY DEF SIZE
-----------------------------------------------------------------------------
(* A heap in the memory m whose blocks start at the addresses of S, the    *)
(* last of which is brk.  Nothing is said about what the h bytes from lo   *)
(* on hold, which are being worked on; when lo is 0 there is no such hole. *)
Extent(m, lo, h, b) == IF b = lo THEN h ELSE Size(m, b)

Walls(m, brk, S, lo, h) ==
    /\ m \in Memory /\ S \subseteq Nat /\ brk <= MAX_HEAP
    /\ class_listp \in S /\ brk \in S
    /\ lo \in (S \ {class_listp, brk}) \cup {0} /\ h \in Nat /\ (lo = 0 => h = 0)
    /\ \A b \in S : class_listp <= b /\ b <= brk /\ b % 8 = 0
    /\ \A b \in S \ {brk} :
          /\ Extent(m, lo, h, b) >= MINBLOCK /\ b + Extent(m, lo, h, b) \in S
          /\ \A c \in S : c <= b \/ b + Extent(m, lo, h, b) <= c
    /\ m[12] = 27 /\ Size(m, brk) = 0 /\ Allocated(m, brk)

Tags(m, brk, S, lo) ==
    \A b \in S \ {brk, lo} :
        /\ Allocated(m, b) <=> PrevAllocated(m, NEXT_BLKP(m, b))
        /\ ~Allocated(m, b) => /\ m[NEXT_BLKP(m, b) - DSIZE] = Size(m, b)
                               /\ Allocated(m, NEXT_BLKP(m, b)) \/ NEXT_BLKP(m, b) = lo

FreeIn(m, brk, S, lo) == {b \in S \ {brk, lo} : ~Allocated(m, b)}

(* The lists of the free blocks F: linked both ways, and R ranks the       *)
(* blocks of a list, so that none is a circle.                             *)
Class(m, b) == match_heap(Size(m, b))
Linked(m, F, R) ==
    /\ R \in [F -> Nat]
    /\ \A b \in F :
          /\ Pred(m, b) = NULL => m[Class(m, b)] = b
          /\ Pred(m, b) # NULL =>
                /\ Pred(m, b) \in F /\ Class(m, Pred(m, b)) = Class(m, b)
                /\ Succ(m, Pred(m, b)) = b /\ R[Pred(m, b)] < R[b]
          /\ Succ(m, b) # NULL =>
                /\ Succ(m, b) \in F /\ Class(m, Succ(m, b)) = Class(m, b)
                /\ Pred(m, Succ(m, b)) = b
    /\ \A k \in Classes :
          m[k] # NULL => m[k] \in F /\ Class(m, m[k]) = k /\ Pred(m, m[k]) = NULL

HeapAt(m, brk, S, lo, h) ==
    /\ Walls(m, brk, S, lo, h) /\ Tags(m, brk, S, lo)
    /\ \E R : Linked(m, FreeIn(m, brk, S, lo), R)
-----------------------------------------------------------------------------
(* The words around a block are there. *)
LEMMA BlockWords ==
  ASSUME NEW m, NEW brk, NEW S, NEW lo, NEW h, Walls(m, brk, S, lo, h)
  PROVE  /\ brk \in Nat /\ 12 \in Addr /\ Classes \subseteq Addr
         /\ \A b \in S : b - 4 \in Addr /\ Size(m, b) \in Int /\ Size(m, b) % 8 = 0
         /\ \A b \in S \ {brk} :
               /\ Extent(m, lo, h, b) \in Nat /\ Extent(m, lo, h, b) % 8 = 0
               /\ b + Extent(m, lo, h, b) <= brk
               /\ b \in Addr /\ b + 4 \in Addr /\ b + Extent(m, lo, h, b) - 8 \in Addr
<1> USE DEF Walls, class_listp, MINBLOCK
<1>1. brk \in Nat /\ MAX_HEAP \in Nat
  BY HeapAssumption
<1>2. 40 \in S /\ 40 <= brk
  <2>1. Extent(m, lo, h, 16) = 24 /\ 16 # brk
    BY DEF Extent, Size, Header, WSIZE, SIZE
  <2> QED
    BY <2>1
<1>3. 12 \in Addr /\ Classes \subseteq Addr
  BY <1>1, <1>2, IsAddr DEF Classes, WSIZE, CLASS_SIZE
<1>4. ASSUME NEW b \in S PROVE b - 4 \in Addr /\ Size(m, b) \in Int /\ Size(m, b) % 8 = 0
  <2>1. b - 4 \in Addr
    BY <1>1, IsAddr
  <2> QED
    BY <2>1, SizeIs DEF Size, Header, WSIZE, Memory
<1>5. ASSUME NEW b \in S \ {brk}
      PROVE  /\ Extent(m, lo, h, b) \in Nat /\ Extent(m, lo, h, b) % 8 = 0
             /\ b + Extent(m, lo, h, b) <= brk
             /\ b \in Addr /\ b + 4 \in Addr /\ b + Extent(m, lo, h, b) - 8 \in Addr
  <2> DEFINE e == Extent(m, lo, h, b)
  <2>1. e \in Int
    BY <1>4 DEF Extent
  <2>2. e >= 16 /\ b + e \in S /\ b % 8 = 0 /\ b \in Nat
    OBVIOUS
  <2> HIDE DEF e
  <2>3. (b + e) % 8 = 0 /\ b + e <= brk
    BY <2>2
  <2>4. e \in Nat /\ e % 8 = 0
    BY <2>1, <2>2, <2>3
  <2>5. b \in Addr /\ b + 4 \in Addr /\ b + e - 8 \in Addr
    BY <1>1, <2>2, <2>3, <2>4, IsAddr
  <2> QED
    BY <2>3, <2>4, <2>5 DEF e
<1> QED
  BY <1>1, <1>3, <1>4, <1>5

(* The class lists are the first block; every other begins at 40 or above. *)
LEMMA FirstBlock ==
  ASSUME NEW m, NEW brk, NEW S, NEW lo, NEW h, Walls(m, brk, S, lo, h)
  PROVE  /\ 40 \in S /\ brk >= 40 /\ Size(m, class_listp) = 24 /\ Allocated(m, class_listp)
         /\ PrevAllocated(m, class_listp)
         /\ \A b \in S \ {class_listp} : b >= 40
<1> USE DEF Walls, class_listp, MINBLOCK
<1>1. Size(m, 16) = 24 /\ Allocated(m, 16) /\ PrevAllocated(m, 16)
  BY DEF Size, Header, WSIZE, SIZE, Allocated, ALLOCATED, PrevAllocated, PALLOCATED
<1>2. Extent(m, lo, h, 16) = 24 /\ 16 # brk
  BY <1>1 DEF Extent
<1> QED
  BY <1>1, <1>2

(* Two blocks do not end at the same address. *)
LEMMA NextOnce ==
  ASSUME NEW m, NEW brk, NEW S, NEW lo, NEW h, Walls(m, brk, S, lo, h),
         NEW b \in S \ {brk}, NEW c \in S \ {brk},
         b + Extent(m, lo, h, b) = c + Extent(m, lo, h, c)
  PROVE  b = c
<1>1. Extent(m, lo, h, b) \in Nat /\ Extent(m, lo, h, c) \in Nat
  BY BlockWords
<1> QED
  BY <1>1 DEF Walls, MINBLOCK

(* Every size has its class. *)
LEMMA HasClass == ASSUME NEW s \in Int PROVE match_heap(s) \in Classes
BY DEF match_heap, Classes, CLASS_SIZE, MINBLOCK, class_listp, WSIZE

(* What is said of the lists depends on their links and the sizes.         *)
LEMMA LinksSeen ==
  ASSUME NEW m, NEW F, NEW R, Linked(m, F, R), NEW m2,
         \A b \in F : Size(m2, b) = Size(m, b) /\ Size(m, b) \in Int,
         \A k \in Classes : m2[k] = m[k],
         \A b \in F : Pred(m2, b) = Pred(m, b) /\ Succ(m2, b) = Succ(m, b)
  PROVE  Linked(m2, F, R)
<1>1. \A b \in F : Class(m2, b) = Class(m, b) /\ Class(m, b) \in Classes
  BY HasClass DEF Class
<1>2. \A b \in F : m2[Class(m2, b)] = m[Class(m, b)]
  BY <1>1
<1>3. \A k \in Classes : m[k] # NULL =>
         m2[k] \in F /\ Class(m2, m2[k]) = k /\ Pred(m2, m2[k]) = NULL
  BY <1>1 DEF Linked
<1>4. ASSUME NEW b \in F
      PROVE  /\ Pred(m2, b) = NULL => m2[Class(m2, b)] = b
             /\ Pred(m2, b) # NULL =>
                  /\ Pred(m2, b) \in F /\ Class(m2, Pred(m2, b)) = Class(m2, b)
                  /\ Succ(m2, Pred(m2, b)) = b /\ R[Pred(m2, b)] < R[b]
             /\ Succ(m2, b) # NULL =>
                  /\ Succ(m2, b) \in F /\ Class(m2, Succ(m2, b)) = Class(m2, b)
                  /\ Pred(m2, Succ(m2, b)) = b
  BY <1>1, <1>2 DEF Linked
<1> QED
  BY <1>3, <1>4 DEF Linked

(* What the predicates say of a heap depends on its tags and links only.   *)
LEMMA HeapSeen ==
  ASSUME NEW m, NEW brk, NEW S, NEW lo, NEW h, HeapAt(m, brk, S, lo, h),
         NEW m2 \in Memory, m2[12] = m[12],
         \A b \in S \ {lo} : /\ Size(m2, b) = Size(m, b)
                             /\ Allocated(m2, b) <=> Allocated(m, b),
         \A b \in S : b = lo + h \/ (PrevAllocated(m2, b) <=> PrevAllocated(m, b)),
         \A k \in Classes : m2[k] = m[k],
         \A b \in FreeIn(m, brk, S, lo) :
             /\ Pred(m2, b) = Pred(m, b) /\ Succ(m2, b) = Succ(m, b)
             /\ m2[NEXT_BLKP(m, b) - DSIZE] = m[NEXT_BLKP(m, b) - DSIZE]
  PROVE  HeapAt(m2, brk, S, lo, h)
<1>0. Walls(m, brk, S, lo, h) /\ Tags(m, brk, S, lo)
  BY DEF HeapAt
<1>1. \A b \in S : Extent(m2, lo, h, b) = Extent(m, lo, h, b)
  BY DEF Extent
<1>2. Walls(m2, brk, S, lo, h)
  <2>1. brk \in S \ {lo} /\ brk # 0
    BY <1>0 DEF Walls, class_listp
  <2>2. Size(m2, brk) = 0 /\ Allocated(m2, brk)
    BY <1>0, <2>1 DEF Walls
  <2>3. \A b \in S \ {brk} :
           /\ Extent(m2, lo, h, b) >= MINBLOCK /\ b + Extent(m2, lo, h, b) \in S
           /\ \A c \in S : c <= b \/ b + Extent(m2, lo, h, b) <= c
    BY <1>0, <1>1 DEF Walls
  <2> QED
    BY <1>0, <2>2, <2>3 DEF Walls
<1>3. FreeIn(m2, brk, S, lo) = FreeIn(m, brk, S, lo)
  BY DEF FreeIn
<1>4. Tags(m2, brk, S, lo)
  <2> SUFFICES ASSUME NEW b \in S \ {brk, lo}
               PROVE  /\ Allocated(m2, b) <=> PrevAllocated(m2, NEXT_BLKP(m2, b))
                      /\ ~Allocated(m2, b) =>
                            /\ m2[NEXT_BLKP(m2, b) - DSIZE] = Size(m2, b)
                            /\ Allocated(m2, NEXT_BLKP(m2, b)) \/ NEXT_BLKP(m2, b) = lo
    BY DEF Tags
  <2>1. NEXT_BLKP(m2, b) = NEXT_BLKP(m, b)
    BY DEF NEXT_BLKP
  <2>2. NEXT_BLKP(m, b) \in S /\ NEXT_BLKP(m, b) # lo + h
    <3>1. Extent(m, lo, h, b) = Size(m, b) /\ b + Size(m, b) \in S
      BY <1>0 DEF Extent, Walls
    <3>2. lo \in S => lo \in S \ {brk} /\ Extent(m, lo, h, lo) = h
      BY <1>0 DEF Extent, Walls
    <3>3. lo \in S => b + Size(m, b) # lo + h
      BY <1>0, <3>1, <3>2, NextOnce
    <3>4. lo \notin S => lo + h = 0 /\ 0 \notin S
      BY <1>0 DEF Walls, class_listp
    <3> QED
      BY <3>1, <3>3, <3>4 DEF NEXT_BLKP
  <2> QED
    BY <1>0, <2>1, <2>2 DEF Tags, FreeIn
<1>5. ASSUME NEW R, Linked(m, FreeIn(m, brk, S, lo), R)
      PROVE  Linked(m2, FreeIn(m, brk, S, lo), R)
  <2>1. \A b \in FreeIn(m, brk, S, lo) : Size(m2, b) = Size(m, b) /\ Size(m, b) \in Int
    BY <1>0, BlockWords DEF FreeIn
  <2> QED
    BY <2>1, <1>5, LinksSeen
<1> QED
  BY <1>2, <1>3, <1>4, <1>5 DEF HeapAt
-----------------------------------------------------------------------------
(* 2. unjoin and join: the lists of the free blocks.                       *)

(* What the walls say of the addresses alone. *)
LEMMA WallsSay ==
  ASSUME NEW m, NEW brk, NEW S, NEW lo, NEW h, Walls(m, brk, S, lo, h)
  PROVE  /\ m \in Memory /\ brk \in S /\ class_listp \in S /\ brk # class_listp
         /\ brk <= MAX_HEAP /\ h \in Nat /\ (lo = 0 => h = 0)
         /\ lo \in Nat /\ 0 \notin S /\ (lo \in S => lo # 0 /\ lo \in S \ {class_listp, brk})
         /\ lo \in S \/ lo = 0
         /\ \A b \in S : b \in Nat /\ class_listp <= b /\ b <= brk /\ b % 8 = 0
         /\ \A b \in S \ {brk} :
               /\ Extent(m, lo, h, b) >= 16 /\ b + Extent(m, lo, h, b) \in S
               /\ \A c \in S : c <= b \/ b + Extent(m, lo, h, b) <= c
               /\ b # lo => Extent(m, lo, h, b) = Size(m, b)
         /\ lo \in S => Extent(m, lo, h, lo) = h
         /\ m[12] = 27 /\ Size(m, brk) = 0 /\ Allocated(m, brk)
<1>1. brk # class_listp
  BY FirstBlock DEF class_listp
<1> QED
  BY <1>1 DEF Walls, class_listp, MINBLOCK, Extent

(* The words of two blocks, and those of the class lists, are different. *)
LEMMA WordsApart ==
  ASSUME NEW m, NEW brk, NEW S, NEW lo, NEW h, Walls(m, brk, S, lo, h)
  PROVE  /\ \A b \in S \ {class_listp} : b \notin Classes /\ b + 4 \notin Classes /\ b # 0
         /\ \A b, c \in S : b + 4 # c /\ (b + 4 = c + 4 => b = c)
<1>1. \A b \in S \ {class_listp} : b >= 40
  BY FirstBlock
<1>2. \A b \in S : b \in Nat /\ b % 8 = 0
  BY DEF Walls
<1>3. \A k \in Classes : k < 40 /\ k # 0
  BY DEF Classes, class_listp, WSIZE, CLASS_SIZE
<1> QED
  BY <1>1, <1>2, <1>3

(* A free block is not the first. *)
LEMMA FreeIsLater ==
  ASSUME NEW m, NEW brk, NEW S, NEW lo, NEW h, Walls(m, brk, S, lo, h)
  PROVE  \A b \in FreeIn(m, brk, S, lo) : /\ b \in S \ {class_listp, brk} /\ b # lo
                                          /\ b \in Addr /\ b + 4 \in Addr
                                          /\ Class(m, b) \in Classes
BY FirstBlock, BlockWords, HasClass DEF FreeIn, Class

(* What unjoin writes: it changes the links of b's neighbours on the list. *)
LEMMA UnjoinWrites ==
  ASSUME NEW m, NEW brk, NEW S, NEW lo, NEW h, Walls(m, brk, S, lo, h),
         NEW R, Linked(m, FreeIn(m, brk, S, lo), R), NEW b \in FreeIn(m, brk, S, lo)
  PROVE  /\ unjoin(m, b) \in Memory
         /\ \A p \in Addr :
               p \notin Classes /\ (\A c \in FreeIn(m, brk, S, lo) \ {b} : p # c /\ p # c + 4)
               => unjoin(m, b)[p] = m[p]
         /\ \A c \in FreeIn(m, brk, S, lo) :
               /\ Pred(unjoin(m, b), c) = IF c = Succ(m, b) THEN Pred(m, b) ELSE Pred(m, c)
               /\ Succ(unjoin(m, b), c) = IF c = Pred(m, b) THEN Succ(m, b) ELSE Succ(m, c)
         /\ \A k \in Classes :
               unjoin(m, b)[k] = IF k = Class(m, b) /\ m[k] = b THEN Succ(m, b) ELSE m[k]
<1> DEFINE F == FreeIn(m, brk, S, lo)
           p == Pred(m, b)
           s == Succ(m, b)
           m1 == PutPred(m, s, p)
           m2 == PutSucc(m1, p, s)
           k0 == Class(m, b)
<1>1. m \in Memory /\ \A c \in F : c \in Addr /\ c + 4 \in Addr
  BY FreeIsLater DEF Walls
<1>2. /\ p \in Int /\ s \in Int
      /\ p # 0 => p \in F /\ p # b
      /\ s # 0 => s \in F /\ s # b
  <2>1. p \in Int /\ s \in Int
    BY <1>1 DEF Pred, Succ, WSIZE, Memory
  <2>2. ASSUME p # 0 PROVE p \in F /\ p # b
    <3>1. p \in F /\ R[p] < R[b] /\ R[b] \in Nat
      BY <2>2 DEF Linked, NULL
    <3> QED
      BY <3>1
  <2>3. ASSUME s # 0 PROVE s \in F /\ s # b
    <3>1. s \in F /\ Pred(m, s) = b
      BY <2>3 DEF Linked, NULL
    <3>2. b # 0
      BY WordsApart, FreeIsLater
    <3>3. R[b] < R[s] /\ R[b] \in Nat
      BY <3>1, <3>2 DEF Linked, NULL
    <3> QED
      BY <3>1, <3>3
  <2> QED
    BY <2>1, <2>2, <2>3
<1>3. /\ \A c \in F : c \notin Classes /\ c + 4 \notin Classes /\ c # 0
      /\ \A c, d \in F : c + 4 # d /\ (c + 4 = d + 4 => c = d)
  BY WordsApart, FreeIsLater
<1>4. k0 \in Classes /\ Classes \subseteq Addr
  BY FreeIsLater, BlockWords
<1>5. m1 = IF s = 0 THEN m ELSE [m EXCEPT ![s] = p]
  BY DEF PutPred, PUT, NULL
<1>6. m2 = IF p = 0 THEN m1 ELSE [m1 EXCEPT ![p + 4] = s]
  BY DEF PutSucc, PUT, NULL, WSIZE
<1>7. unjoin(m, b) = IF b = m[k0] THEN [m2 EXCEPT ![k0] = m2[b + 4]] ELSE m2
  BY DEF unjoin, PUT, Class, Succ, WSIZE
<1>8. m1 \in Memory /\ m2 \in Memory
  BY <1>1, <1>2, <1>5, <1>6 DEF Memory
<1>9. /\ \A q \in Addr : m1[q] = IF q = s /\ s # 0 THEN p ELSE m[q]
      /\ \A q \in Addr : m2[q] = IF q = p + 4 /\ p # 0 THEN s ELSE m1[q]
  BY <1>1, <1>2, <1>5, <1>6, <1>8 DEF Memory
<1>10. m2[b + 4] = s
  <2>1. b \in F /\ b + 4 \in Addr /\ s = m[b + 4]
    BY <1>1 DEF Succ, WSIZE
  <2>2. (s # 0 => b + 4 # s) /\ (p # 0 => b + 4 # p + 4)
    BY <1>2, <1>3, <2>1
  <2> QED
    BY <2>1, <2>2, <1>9
<1> DEFINE u == unjoin(m, b)
<1>11. u \in Memory /\ \A q \in Addr : u[q] = IF q = k0 /\ b = m[k0] THEN s ELSE m2[q]
  BY <1>2, <1>4, <1>7, <1>8, <1>10 DEF Memory
<1> HIDE DEF u, m1, m2, k0, F, p, s
<1>12. \A q \in Addr : q \notin Classes /\ (\A c \in F \ {b} : q # c /\ q # c + 4) => u[q] = m[q]
  BY <1>2, <1>4, <1>9, <1>11
<1>13. \A c \in F : u[c] = IF c = s THEN p ELSE m[c]
  BY <1>1, <1>2, <1>3, <1>4, <1>9, <1>11
<1>14. \A c \in F : u[c + 4] = IF c = p THEN s ELSE m[c + 4]
  BY <1>1, <1>2, <1>3, <1>4, <1>9, <1>11
<1>15. \A k \in Classes : u[k] = IF k = k0 /\ m[k] = b THEN s ELSE m[k]
  BY <1>2, <1>3, <1>4, <1>9, <1>11
<1> QED
  BY <1>11, <1>12, <1>13, <1>14, <1>15 DEF u, F, p, s, k0, Pred, Succ, WSIZE

(* Then b is on no list, and the others are on theirs. *)
LEMMA UnjoinLinked ==
  ASSUME NEW m, NEW brk, NEW S, NEW lo, NEW h, Walls(m, brk, S, lo, h),
         NEW R, Linked(m, FreeIn(m, brk, S, lo), R), NEW b \in FreeIn(m, brk, S, lo),
         NEW F, F = FreeIn(m, brk, S, lo) \ {b},
         \A c \in F : Class(unjoin(m, b), c) = Class(m, c)
  PROVE  \E Q : Linked(unjoin(m, b), F, Q)
<1> DEFINE Q == [c \in F |-> R[c]]
           u == unjoin(m, b)
           A == FreeIn(m, brk, S, lo)
<1>0. \A c \in A : c # 0
  BY WordsApart, FreeIsLater
<1>1. /\ \A c \in A :
               /\ Pred(u, c) = IF c = Succ(m, b) THEN Pred(m, b) ELSE Pred(m, c)
               /\ Succ(u, c) = IF c = Pred(m, b) THEN Succ(m, b) ELSE Succ(m, c)
      /\ \A k \in Classes : u[k] = IF k = Class(m, b) /\ m[k] = b THEN Succ(m, b) ELSE m[k]
  BY UnjoinWrites
<1>2. Q \in [F -> Nat] /\ \A c \in F : Q[c] = R[c] /\ R[c] \in Nat
  BY DEF Linked
<1>3. \A c \in A : Class(m, c) \in Classes
  BY FreeIsLater
<1>4. Linked(m, A, R) /\ b \in A /\ F = A \ {b}
  OBVIOUS
<1> HIDE DEF u, Q, A
<1>5. ASSUME NEW c \in F
      PROVE  /\ Pred(u, c) = NULL => u[Class(u, c)] = c
             /\ Pred(u, c) # NULL =>
                  /\ Pred(u, c) \in F /\ Class(u, Pred(u, c)) = Class(u, c)
                  /\ Succ(u, Pred(u, c)) = c /\ Q[Pred(u, c)] < Q[c]
  <2>0. Class(u, c) = Class(m, c) /\ Class(m, c) \in Classes /\ c \in A /\ c # b
    BY <1>3, <1>4 DEF u
  <2>1. CASE c = Succ(m, b)
    <3>1. Pred(m, c) = b /\ Class(m, c) = Class(m, b) /\ R[b] < R[c] /\ R[b] \in Nat
      BY <2>0, <2>1, <1>0, <1>4 DEF Linked, NULL
    <3>2. CASE Pred(m, b) = 0
      <4>1. m[Class(m, b)] = b /\ Pred(u, c) = 0
        BY <3>2, <2>1, <2>0, <1>1, <1>4 DEF Linked, NULL
      <4>2. u[Class(m, c)] = c
        BY <4>1, <3>1, <2>0, <2>1, <1>1
      <4> QED
        BY <4>1, <4>2, <2>0 DEF NULL
    <3>3. CASE Pred(m, b) # 0
      <4> DEFINE p == Pred(m, b)
      <4>1. p \in A /\ Class(m, p) = Class(m, b) /\ Succ(m, p) = b /\ R[p] < R[b] /\ R[p] \in Nat
        BY <3>3, <1>4 DEF Linked, NULL
      <4>2. p \in F
        BY <4>1, <1>4
      <4>3. Pred(u, c) = p /\ Succ(u, p) = c
        BY <4>1, <2>0, <2>1, <1>1
      <4>4. Class(u, p) = Class(u, c)
        BY <4>1, <4>2, <3>1, <2>0 DEF u
      <4>5. Q[p] < Q[c]
        BY <4>1, <4>2, <3>1, <1>2
      <4> HIDE DEF p
      <4> QED
        BY <4>2, <4>3, <4>4, <4>5, <3>3 DEF p, NULL
    <3> QED
      BY <3>2, <3>3
  <2>2. CASE c # Succ(m, b)
    <3>1. Pred(u, c) = Pred(m, c)
      BY <2>0, <2>2, <1>1
    <3>2. CASE Pred(m, c) = 0
      <4>1. m[Class(m, c)] = c
        BY <3>2, <2>0, <1>4 DEF Linked, NULL
      <4> QED
        BY <4>1, <3>1, <3>2, <2>0, <1>1 DEF NULL
    <3>3. CASE Pred(m, c) # 0
      <4> DEFINE p == Pred(m, c)
      <4>1. p \in A /\ Class(m, p) = Class(m, c) /\ Succ(m, p) = c /\ R[p] < R[c]
        BY <3>3, <2>0, <1>4 DEF Linked, NULL
      <4>2. p # b
        BY <4>1, <2>2
      <4>3. p # Pred(m, b)
        <5>1. p = Pred(m, b) => Succ(m, p) = b
          BY <3>3, <1>4 DEF Linked, NULL
        <5> QED
          BY <5>1, <4>1, <2>0
      <4>4. p \in F /\ Succ(u, p) = c /\ Class(u, p) = Class(u, c) /\ Q[p] < Q[c]
        BY <4>1, <4>2, <4>3, <2>0, <1>1, <1>2, <1>4 DEF u
      <4> HIDE DEF p
      <4> QED
        BY <4>4, <3>1, <3>3 DEF p, NULL
    <3> QED
      BY <3>2, <3>3
  <2> QED
    BY <2>1, <2>2
<1>6. ASSUME NEW c \in F, Succ(u, c) # NULL
      PROVE  Succ(u, c) \in F /\ Class(u, Succ(u, c)) = Class(u, c) /\ Pred(u, Succ(u, c)) = c
  <2>0. Class(u, c) = Class(m, c) /\ c \in A /\ c # b
    BY <1>4 DEF u
  <2>1. CASE c = Pred(m, b)
    <3> DEFINE s == Succ(m, b)
    <3>1. Succ(u, c) = s /\ s # 0 /\ Class(m, c) = Class(m, b) /\ R[c] < R[b] /\ R[c] \in Nat
      BY <2>0, <2>1, <1>0, <1>1, <1>2, <1>4, <1>6 DEF Linked, NULL
    <3>2. s \in A /\ Class(m, s) = Class(m, b) /\ Pred(m, s) = b
      BY <3>1, <1>4 DEF Linked, NULL
    <3>3. R[b] < R[s] /\ R[b] \in Nat
      BY <3>2, <1>0, <1>4 DEF Linked, NULL
    <3>4. s \in F
      BY <3>2, <3>3, <1>4
    <3>5. Pred(u, s) = c /\ Class(u, s) = Class(u, c)
      BY <3>1, <3>2, <3>4, <2>0, <2>1, <1>1 DEF u
    <3> HIDE DEF s
    <3> QED
      BY <3>1, <3>4, <3>5
  <2>2. CASE c # Pred(m, b)
    <3> DEFINE s == Succ(m, c)
    <3>1. Succ(u, c) = s /\ s # 0
      BY <2>0, <2>2, <1>1, <1>6 DEF NULL
    <3>2. s \in A /\ Class(m, s) = Class(m, c) /\ Pred(m, s) = c
      BY <3>1, <2>0, <1>4 DEF Linked, NULL
    <3>3. s # b /\ s # Succ(m, b)
      <4>1. s = Succ(m, b) => Pred(m, s) = b
        BY <3>1, <1>4 DEF Linked, NULL
      <4> QED
        BY <4>1, <3>2, <2>0, <2>2
    <3>4. s \in F /\ Pred(u, s) = c /\ Class(u, s) = Class(u, c)
      BY <3>2, <3>3, <2>0, <1>1, <1>4 DEF u
    <3> HIDE DEF s
    <3> QED
      BY <3>1, <3>4
  <2> QED
    BY <2>1, <2>2
<1>7. ASSUME NEW k \in Classes, u[k] # NULL
      PROVE  u[k] \in F /\ Class(u, u[k]) = k /\ Pred(u, u[k]) = NULL
  <2>1. CASE m[k] = b
    <3> DEFINE s == Succ(m, b)
    <3>0. Class(m, b) = k /\ Pred(m, b) = 0
      BY <2>1, <1>0, <1>4 DEF Linked, NULL
    <3>1. u[k] = s /\ s # 0
      BY <3>0, <2>1, <1>1, <1>7 DEF NULL
    <3>2. s \in A /\ Class(m, s) = k /\ Pred(m, s) = b
      BY <3>0, <3>1, <1>4 DEF Linked, NULL
    <3>3. s # b
      BY <3>0, <3>2, <1>0, <1>4
    <3>4. s \in F /\ Pred(u, s) = 0 /\ Class(u, s) = k
      BY <3>0, <3>2, <3>3, <1>1, <1>4 DEF u
    <3> HIDE DEF s
    <3> QED
      BY <3>1, <3>4 DEF NULL
  <2>2. CASE m[k] # b
    <3>1. u[k] = m[k] /\ m[k] # 0
      BY <2>2, <1>1, <1>7 DEF NULL
    <3>2. m[k] \in A /\ Class(m, m[k]) = k /\ Pred(m, m[k]) = 0
      BY <3>1, <1>4 DEF Linked, NULL
    <3>3. m[k] # Succ(m, b)
      <4>1. m[k] = Succ(m, b) => Pred(m, m[k]) = b
        BY <3>1, <1>4 DEF Linked, NULL
      <4> QED
        BY <4>1, <3>2, <1>0, <1>4
    <3>4. m[k] \in F /\ Pred(u, m[k]) = 0 /\ Class(u, m[k]) = k
      BY <3>2, <3>3, <2>2, <1>1, <1>4 DEF u
    <3> QED
      BY <3>1, <3>4 DEF NULL
  <2> QED
    BY <2>1, <2>2
<1>8. Linked(u, F, Q)
  BY <1>2, <1>5, <1>6, <1>7 DEF Linked
<1> QED
  BY <1>8 DEF u

(* What join writes: the hole's block goes in front of its list. *)
LEMMA JoinWrites ==
  ASSUME NEW m, NEW brk, NEW S, NEW lo, NEW h, Walls(m, brk, S, lo, h), lo \in S,
         NEW R, Linked(m, FreeIn(m, brk, S, lo), R)
  PROVE  /\ join(m, lo) \in Memory
         /\ \A p \in Addr :
               p \notin Classes /\ (\A c \in FreeIn(m, brk, S, lo) \cup {lo} : p # c /\ p # c + 4)
               => join(m, lo)[p] = m[p]
         /\ Pred(join(m, lo), lo) = NULL /\ Succ(join(m, lo), lo) = m[Class(m, lo)]
         /\ \A c \in FreeIn(m, brk, S, lo) :
               /\ Pred(join(m, lo), c) = IF c = m[Class(m, lo)] THEN lo ELSE Pred(m, c)
               /\ Succ(join(m, lo), c) = Succ(m, c)
         /\ \A k \in Classes :
               join(m, lo)[k] = IF k = Class(m, lo) THEN lo ELSE m[k]
<1> DEFINE F == FreeIn(m, brk, S, lo)
           k0 == Class(m, lo)
           s == m[k0]
           m1 == PutPred(m, lo, NULL)
           m2 == PutSucc(m1, lo, s)
           m3 == PutPred(m2, s, lo)
           j == join(m, lo)
<1>1. m \in Memory /\ \A c \in F \cup {lo} : c \in Addr /\ c + 4 \in Addr /\ c \in S
  <2>1. m \in Memory /\ lo \in S \ {class_listp, brk}
    BY WallsSay
  <2>2. \A c \in F : c \in Addr /\ c + 4 \in Addr /\ c \in S
    BY FreeIsLater
  <2>3. lo \in Addr /\ lo + 4 \in Addr
    BY <2>1, BlockWords
  <2> QED
    BY <2>1, <2>2, <2>3
<1>2. k0 \in Classes /\ Classes \subseteq Addr
  <2>1. Size(m, lo) \in Int
    BY BlockWords
  <2> QED
    BY <2>1, BlockWords, HasClass DEF Class
<1>3. s \in Int /\ (s # 0 => s \in F)
  BY <1>1, <1>2 DEF Memory, Linked, NULL
<1>4. lo # 0 /\ lo \in Nat /\ lo \notin F
  BY WallsSay DEF FreeIn
<1>5. /\ \A c \in F \cup {lo} : c \notin Classes /\ c + 4 \notin Classes /\ c # 0
      /\ \A c, d \in F \cup {lo} : c + 4 # d /\ (c + 4 = d + 4 => c = d)
  <2>1. lo \in S \ {class_listp}
    BY WallsSay
  <2> QED
    BY <1>1, <2>1, WordsApart, FreeIsLater
<1>6. m1 = [m EXCEPT ![lo] = 0]
  BY <1>4 DEF PutPred, PUT, NULL
<1>7. m2 = [m1 EXCEPT ![lo + 4] = s]
  BY <1>4 DEF PutSucc, PUT, NULL, WSIZE
<1>8. m3 = IF s = 0 THEN m2 ELSE [m2 EXCEPT ![s] = lo]
  BY DEF PutPred, PUT, NULL
<1>9. j = [m3 EXCEPT ![k0] = lo]
  BY DEF join, PUT, Class
<1> HIDE DEF j, m1, m2, m3, k0, F, s
<1>10. m1 \in Memory /\ m2 \in Memory /\ m3 \in Memory /\ j \in Memory
  <2>1. m1 \in Memory
    BY <1>1, <1>6 DEF Memory
  <2>2. m2 \in Memory
    BY <2>1, <1>3, <1>7 DEF Memory
  <2>3. lo \in Int
    BY <1>4
  <2>4. m3 \in Memory
    BY <2>2, <2>3, <1>8 DEF Memory
  <2> QED
    BY <2>1, <2>2, <2>3, <2>4, <1>9 DEF Memory
<1>11. /\ \A q \in Addr : m1[q] = IF q = lo THEN 0 ELSE m[q]
       /\ \A q \in Addr : m2[q] = IF q = lo + 4 THEN s ELSE m1[q]
       /\ \A q \in Addr : m3[q] = IF q = s /\ s # 0 THEN lo ELSE m2[q]
       /\ \A q \in Addr : j[q] = IF q = k0 THEN lo ELSE m3[q]
  BY <1>1, <1>3, <1>4, <1>6, <1>7, <1>8, <1>9, <1>10 DEF Memory
<1>12. \A q \in Addr : q \notin Classes /\ (\A c \in F \cup {lo} : q # c /\ q # c + 4)
                       => j[q] = m[q]
  BY <1>2, <1>3, <1>11
<1>13. j[lo] = 0 /\ j[lo + 4] = s
  BY <1>1, <1>2, <1>3, <1>4, <1>5, <1>11
<1>14. \A c \in F : j[c] = IF c = s THEN lo ELSE m[c]
  BY <1>1, <1>2, <1>3, <1>4, <1>5, <1>11
<1>15. \A c \in F : j[c + 4] = m[c + 4]
  BY <1>1, <1>2, <1>3, <1>4, <1>5, <1>11
<1>16. \A k \in Classes : j[k] = IF k = k0 THEN lo ELSE m[k]
  BY <1>2, <1>3, <1>4, <1>5, <1>11
<1> QED
  BY <1>10, <1>12, <1>13, <1>14, <1>15, <1>16 DEF j, F, s, k0, Pred, Succ, WSIZE, NULL

(* Then it is first on the list of its class. *)
LEMMA JoinLinked ==
  ASSUME NEW m, NEW brk, NEW S, NEW lo, NEW h, Walls(m, brk, S, lo, h), lo \in S,
         NEW R, Linked(m, FreeIn(m, brk, S, lo), R),
         NEW F, F = FreeIn(m, brk, S, lo) \cup {lo},
         \A c \in F : Class(join(m, lo), c) = Class(m, c)
  PROVE  \E Q : Linked(join(m, lo), F, Q)
<1> DEFINE Q == [c \in F |-> IF c = lo THEN 0 ELSE R[c] + 1]
           j == join(m, lo)
           A == FreeIn(m, brk, S, lo)
           k0 == Class(m, lo)
<1>0. (\A c \in A : c # 0) /\ lo # 0 /\ lo \notin A
  <2>1. \A c \in A : c # 0
    BY WordsApart, FreeIsLater
  <2> QED
    BY <2>1, WallsSay DEF FreeIn
<1>1. /\ Pred(j, lo) = NULL /\ Succ(j, lo) = m[k0]
      /\ \A c \in A : /\ Pred(j, c) = IF c = m[k0] THEN lo ELSE Pred(m, c)
                      /\ Succ(j, c) = Succ(m, c)
      /\ \A k \in Classes : j[k] = IF k = k0 THEN lo ELSE m[k]
  BY JoinWrites
<1>2. /\ Q \in [F -> Nat] /\ Q[lo] = 0
      /\ \A c \in A : Q[c] = R[c] + 1 /\ R[c] \in Nat
  BY <1>0 DEF Linked
<1>3. k0 \in Classes /\ \A c \in A : Class(m, c) \in Classes
  <2>1. Size(m, lo) \in Int
    BY BlockWords
  <2> QED
    BY <2>1, FreeIsLater, HasClass DEF Class
<1>4. Linked(m, A, R) /\ F = A \cup {lo}
  OBVIOUS
<1>5. \A c \in F : Class(j, c) = Class(m, c)
  OBVIOUS
<1> HIDE DEF j, Q, A, k0
<1>6. ASSUME NEW c \in A
      PROVE  /\ Pred(j, c) = NULL => j[Class(j, c)] = c
             /\ Pred(j, c) # NULL =>
                  /\ Pred(j, c) \in F /\ Class(j, Pred(j, c)) = Class(j, c)
                  /\ Succ(j, Pred(j, c)) = c /\ Q[Pred(j, c)] < Q[c]
  <2>0. Class(j, c) = Class(m, c) /\ Class(m, c) \in Classes /\ c # lo
    BY <1>0, <1>3, <1>4, <1>5
  <2>1. CASE c = m[k0]
    <3>1. Class(m, c) = k0
      BY <2>1, <1>0, <1>3, <1>4 DEF Linked, NULL
    <3>2. Pred(j, c) = lo /\ Succ(j, lo) = c /\ Class(j, lo) = Class(j, c) /\ Q[lo] < Q[c]
      BY <2>0, <2>1, <3>1, <1>1, <1>2, <1>4, <1>5 DEF k0
    <3> QED
      BY <3>2, <1>0, <1>4 DEF NULL
  <2>2. CASE c # m[k0]
    <3>1. Pred(j, c) = Pred(m, c)
      BY <2>2, <1>1
    <3>2. CASE Pred(m, c) = 0
      <4>1. m[Class(m, c)] = c
        BY <3>2, <1>4 DEF Linked, NULL
      <4> QED
        BY <4>1, <3>1, <3>2, <2>0, <2>2, <1>1 DEF NULL
    <3>3. CASE Pred(m, c) # 0
      <4> DEFINE p == Pred(m, c)
      <4>1. p \in A /\ Class(m, p) = Class(m, c) /\ Succ(m, p) = c /\ R[p] < R[c]
        BY <3>3, <1>4 DEF Linked, NULL
      <4>2. p \in F /\ Succ(j, p) = c /\ Class(j, p) = Class(j, c) /\ Q[p] < Q[c]
        BY <4>1, <2>0, <1>1, <1>2, <1>4, <1>5
      <4> HIDE DEF p
      <4> QED
        BY <4>2, <3>1, <3>3 DEF p, NULL
    <3> QED
      BY <3>2, <3>3
  <2> QED
    BY <2>1, <2>2
<1>7. ASSUME NEW c \in A, Succ(j, c) # NULL
      PROVE  Succ(j, c) \in F /\ Class(j, Succ(j, c)) = Class(j, c) /\ Pred(j, Succ(j, c)) = c
  <2> DEFINE s == Succ(m, c)
  <2>1. Succ(j, c) = s /\ s # 0
    BY <1>1, <1>7 DEF NULL
  <2>2. s \in A /\ Class(m, s) = Class(m, c) /\ Pred(m, s) = c
    BY <2>1, <1>4 DEF Linked, NULL
  <2>3. s # m[k0]
    <3>1. s = m[k0] => Pred(m, s) = 0
      BY <2>1, <1>3, <1>4 DEF Linked, NULL
    <3> QED
      BY <3>1, <2>2, <1>0
  <2>4. s \in F /\ Pred(j, s) = c /\ Class(j, s) = Class(j, c)
    BY <2>2, <2>3, <1>1, <1>4, <1>5
  <2> HIDE DEF s
  <2> QED
    BY <2>1, <2>4
<1>8. Succ(j, lo) # NULL =>
        Succ(j, lo) \in F /\ Class(j, Succ(j, lo)) = Class(j, lo) /\ Pred(j, Succ(j, lo)) = lo
  <2> SUFFICES ASSUME m[k0] # 0
               PROVE  m[k0] \in F /\ Class(j, m[k0]) = Class(j, lo) /\ Pred(j, m[k0]) = lo
    BY <1>1 DEF NULL
  <2>1. m[k0] \in A /\ Class(m, m[k0]) = k0
    BY <1>3, <1>4 DEF Linked, NULL
  <2> QED
    BY <2>1, <1>1, <1>4, <1>5 DEF k0
<1>9. ASSUME NEW k \in Classes, j[k] # NULL
      PROVE  j[k] \in F /\ Class(j, j[k]) = k /\ Pred(j, j[k]) = NULL
  <2>1. CASE k = k0
    BY <2>1, <1>1, <1>3, <1>4, <1>5 DEF k0
  <2>2. CASE k # k0
    <3>1. j[k] = m[k] /\ m[k] # 0
      BY <2>2, <1>1, <1>9 DEF NULL
    <3>2. m[k] \in A /\ Class(m, m[k]) = k /\ Pred(m, m[k]) = 0
      BY <3>1, <1>4 DEF Linked, NULL
    <3>3. m[k] # m[k0]
      <4>1. m[k] = m[k0] => Class(m, m[k]) = k0
        BY <3>1, <1>3, <1>4 DEF Linked, NULL
      <4> QED
        BY <4>1, <3>2, <2>2
    <3>4. m[k] \in F /\ Pred(j, m[k]) = 0 /\ Class(j, m[k]) = k
      BY <3>2, <3>3, <1>1, <1>4, <1>5
    <3> QED
      BY <3>1, <3>4 DEF NULL
  <2> QED
    BY <2>1, <2>2
<1>10. Pred(j, lo) = NULL /\ j[Class(j, lo)] = lo
  BY <1>1, <1>3, <1>4, <1>5 DEF k0
<1>11. Linked(j, F, Q)
  <2>1. \A c \in F : c \in A \/ c = lo
    BY <1>4
  <2> QED
    BY <2>1, <1>2, <1>6, <1>7, <1>8, <1>9, <1>10 DEF Linked
<1> QED
  BY <1>11 DEF j
-----------------------------------------------------------------------------
(* Headers are no links. *)
LEMMA HeaderNoLink ==
  ASSUME NEW m, NEW brk, NEW S, NEW lo, NEW h, Walls(m, brk, S, lo, h)
  PROVE  \A c \in S : /\ c - 4 \notin Classes
                      /\ \A d \in S \ {brk} : c - 4 # d /\ c - 4 # d + 4
<1>1. \A c \in S : c = 16 \/ c >= 40
  BY FirstBlock DEF class_listp
<1>2. \A c \in S : c \in Nat /\ c % 8 = 0
  BY DEF Walls
<1>3. \A k \in Classes : k < 36 /\ k >= 16 /\ k \in Nat
  BY DEF Classes, class_listp, WSIZE, CLASS_SIZE
<1>4. \A c \in S, d \in S \ {brk} : c - 4 # d + 4
  <2> SUFFICES ASSUME NEW c \in S, NEW d \in S \ {brk}, c - 4 = d + 4 PROVE FALSE
    OBVIOUS
  <2>1. d + Extent(m, lo, h, d) <= c \/ c <= d
    BY DEF Walls
  <2>2. Extent(m, lo, h, d) \in Nat /\ Extent(m, lo, h, d) >= 16
    BY BlockWords DEF Walls, MINBLOCK
  <2> QED
    BY <2>1, <2>2, <1>2
<1> QED
  BY <1>1, <1>2, <1>3, <1>4

(* Neither is what is inside of another block. *)
LEMMA InsideNoLink ==
  ASSUME NEW m, NEW brk, NEW S, NEW lo, NEW h, Walls(m, brk, S, lo, h),
         NEW c \in S \ {class_listp, brk}, NEW p \in Addr,
         c <= p, p <= c + Extent(m, lo, h, c) - 8
  PROVE  p \notin Classes /\ \A d \in S \ {c} : p # d /\ p # d + 4
<1>1. c >= 40 /\ c \in Nat /\ p \in Nat /\ Extent(m, lo, h, c) \in Nat
  BY FirstBlock, AddrIs, BlockWords, WallsSay
<1>2. \A k \in Classes : k < 36 /\ k \in Nat
  BY DEF Classes, class_listp, WSIZE, CLASS_SIZE
<1>3. ASSUME NEW d \in S \ {c} PROVE p # d /\ p # d + 4
  <2>1. d \in Nat
    BY DEF Walls
  <2>2. CASE d < c
    <3>1. d # brk
      BY <2>2, <1>1 DEF Walls
    <3>2. d + Extent(m, lo, h, d) <= c
      BY <3>1, <2>1, <2>2, <1>1 DEF Walls
    <3>3. Extent(m, lo, h, d) \in Nat /\ Extent(m, lo, h, d) >= 16
      BY <3>1, BlockWords DEF Walls, MINBLOCK
    <3> QED
      BY <3>2, <3>3, <2>1, <1>1
  <2>3. CASE d > c
    <3>1. d >= c + Extent(m, lo, h, c)
      BY <2>1, <2>3, <1>1 DEF Walls
    <3> QED
      BY <3>1, <2>1, <1>1
  <2> QED
    BY <2>1, <2>2, <2>3, <1>1
<1> QED
  BY <1>1, <1>2, <1>3

(* Nor a block's own footer. *)
LEMMA FooterNoLink ==
  ASSUME NEW m, NEW brk, NEW S, NEW lo, NEW h, Walls(m, brk, S, lo, h),
         NEW c \in S \ {class_listp, brk}
  PROVE  /\ c + Extent(m, lo, h, c) - 8 \in Addr
         /\ c + Extent(m, lo, h, c) - 8 \notin Classes
         /\ \A d \in S : /\ c + Extent(m, lo, h, c) - 8 # d
                         /\ c + Extent(m, lo, h, c) - 8 # d + 4
<1> DEFINE e == Extent(m, lo, h, c)
<1>1. e \in Nat /\ e % 8 = 0 /\ e >= 16 /\ c \in Nat /\ c % 8 = 0 /\ c + e - 8 \in Addr
  BY BlockWords, WallsSay
<1>2. c <= c + e - 8
  BY <1>1
<1>3. c + e - 8 \notin Classes /\ \A d \in S \ {c} : c + e - 8 # d /\ c + e - 8 # d + 4
  BY <1>1, <1>2, InsideNoLink
<1> HIDE DEF e
<1>4. c + e - 8 # c /\ c + e - 8 # c + 4
  BY <1>1
<1> QED
  BY <1>1, <1>3, <1>4 DEF e
-----------------------------------------------------------------------------
(* 3. Holes: blocks that open, grow and close.                             *)

(* The allocated blocks but the one of the class lists, and what is in     *)
(* them.                                                                   *)
Used(m, brk, S, lo) == {b \in S \ {class_listp, brk, lo} : Allocated(m, b)}
Intact(m, m2, c) ==
    /\ Size(m2, c) = Size(m, c)
    /\ \A p \in Addr : c <= p /\ p <= c + Size(m, c) - DSIZE => m2[p] = m[p]
Spares(m, m2, A) == \A c \in A : Intact(m, m2, c)

(* What is spared twice is spared. *)
LEMMA SparesTwice ==
  ASSUME NEW m, NEW m2, NEW m3, NEW A, Spares(m, m2, A), Spares(m2, m3, A)
  PROVE  Spares(m, m3, A)
BY DEF Spares, Intact

SameHeaders(m, m2, S) == \A c \in S : Header(m2, c) = Header(m, c)

(* What the headers say, the same headers say.                             *)
LEMMA HeadersSay ==
  ASSUME NEW m, NEW m2, NEW S, SameHeaders(m, m2, S)
  PROVE  \A c \in S : /\ Size(m2, c) = Size(m, c) /\ NEXT_BLKP(m2, c) = NEXT_BLKP(m, c)
                      /\ Class(m2, c) = Class(m, c)
                      /\ Allocated(m2, c) <=> Allocated(m, c)
                      /\ PrevAllocated(m2, c) <=> PrevAllocated(m, c)
BY DEF SameHeaders, Size, Allocated, PrevAllocated, NEXT_BLKP, Class

(* What is outside of the hole is walled as it was when the headers are    *)
(* the same.                                                               *)
LEMMA SameWalls ==
  ASSUME NEW m, NEW brk, NEW S, NEW lo, NEW h, Walls(m, brk, S, lo, h),
         NEW m2 \in Memory, SameHeaders(m, m2, S), m2[12] = m[12]
  PROVE  Walls(m2, brk, S, lo, h)
<1>1. \A c \in S : Size(m2, c) = Size(m, c) /\ Extent(m2, lo, h, c) = Extent(m, lo, h, c)
  BY HeadersSay DEF Extent
<1>2. brk \in S /\ (Allocated(m2, brk) <=> Allocated(m, brk))
  BY HeadersSay, WallsSay
<1> QED
  BY <1>1, <1>2 DEF Walls

(* The heap without the links of its free block b. *)
Unlinked(m, u, brk, S, lo, h, b) ==
    /\ u \in Memory /\ u[12] = m[12] /\ SameHeaders(m, u, S) /\ Walls(u, brk, S, lo, h)
    /\ \E Q : Linked(u, FreeIn(m, brk, S, lo) \ {b}, Q)
    /\ \A c \in FreeIn(m, brk, S, lo) :
          u[NEXT_BLKP(m, c) - DSIZE] = m[NEXT_BLKP(m, c) - DSIZE]
    /\ Spares(m, u, Used(m, brk, S, lo))
    /\ lo \in S => \A p \in Addr : lo <= p /\ p <= (lo + h) - DSIZE => u[p] = m[p]

(* unjoin leaves the tags as they are. *)
LEMMA Unjoined ==
  ASSUME NEW m, NEW brk, NEW S, NEW lo, NEW h, HeapAt(m, brk, S, lo, h),
         NEW b \in FreeIn(m, brk, S, lo), NEW u, u = unjoin(m, b)
  PROVE  Unlinked(m, u, brk, S, lo, h, b)
<1> DEFINE F == FreeIn(m, brk, S, lo)
<1>0. Walls(m, brk, S, lo, h) /\ \E R : Linked(m, F, R)
  BY DEF HeapAt
<1>1. PICK R : Linked(m, F, R)
  BY <1>0
<1>2. /\ u \in Memory
      /\ \A p \in Addr :
             p \notin Classes /\ (\A c \in F : p # c /\ p # c + 4) => u[p] = m[p]
  BY <1>0, <1>1, UnjoinWrites
<1>3. \A c \in F : c \in S \ {class_listp, brk} /\ c # lo
  BY <1>0, FreeIsLater
<1>4. SameHeaders(m, u, S)
  <2>1. ASSUME NEW c \in S PROVE u[c - 4] = m[c - 4]
    <3>1. c - 4 \in Addr
      BY <1>0, BlockWords
    <3>2. c - 4 \notin Classes /\ \A d \in F : c - 4 # d /\ c - 4 # d + 4
      BY <1>0, <1>3, HeaderNoLink
    <3> QED
      BY <1>2, <3>1, <3>2
  <2> QED
    BY <2>1 DEF SameHeaders, Header, WSIZE
<1>5. u[12] = m[12]
  <2>1. u[16 - 4] = m[16 - 4] /\ 16 - 4 = 12
    BY <1>0, <1>4, WallsSay DEF SameHeaders, Header, WSIZE, class_listp
  <2> QED
    BY <2>1
<1>6. Walls(u, brk, S, lo, h)
  BY <1>0, <1>2, <1>4, <1>5, SameWalls
<1>7. \E Q : Linked(u, F \ {b}, Q)
  <2>1. \A c \in F \ {b} : Class(unjoin(m, b), c) = Class(m, c)
    BY <1>3, <1>4, HeadersSay
  <2> HIDE DEF F
  <2> QED
    BY <2>1, <1>0, <1>1, UnjoinLinked DEF F
<1>8. ASSUME NEW c \in S \ {class_listp, brk}, c \notin F, NEW p \in Addr,
             c <= p, p <= c + Extent(m, lo, h, c) - 8
      PROVE  u[p] = m[p]
  <2>1. p \notin Classes /\ \A d \in S \ {c} : p # d /\ p # d + 4
    BY <1>0, <1>8, InsideNoLink
  <2> QED
    BY <2>1, <1>2, <1>3, <1>8
<1>9. Spares(m, u, Used(m, brk, S, lo))
  <2> SUFFICES ASSUME NEW c \in Used(m, brk, S, lo) PROVE Intact(m, u, c)
    BY DEF Spares
  <2>1. c \in S \ {class_listp, brk} /\ c \notin F /\ Extent(m, lo, h, c) = Size(m, c)
    BY DEF Used, FreeIn, Extent
  <2>2. Size(u, c) = Size(m, c)
    BY <1>4, <2>1, HeadersSay
  <2> QED
    BY <1>8, <2>1, <2>2 DEF Intact, DSIZE
<1>10. ASSUME lo \in S, NEW p \in Addr, lo <= p, p <= (lo + h) - DSIZE PROVE u[p] = m[p]
  <2>1. lo \in S \ {class_listp, brk} /\ lo \notin F /\ Extent(m, lo, h, lo) = h
        /\ lo \in Nat /\ h \in Nat
    BY <1>10, <1>0, WallsSay DEF FreeIn
  <2> QED
    BY <1>8, <1>10, <2>1 DEF DSIZE
<1>11. ASSUME NEW c \in F
       PROVE  u[NEXT_BLKP(m, c) - DSIZE] = m[NEXT_BLKP(m, c) - DSIZE]
  <2>1. c \in S \ {class_listp, brk} /\ Extent(m, lo, h, c) = Size(m, c)
    BY <1>3 DEF Extent
  <2>2. /\ c + Size(m, c) - 8 \in Addr /\ c + Size(m, c) - 8 \notin Classes
        /\ \A d \in S : c + Size(m, c) - 8 # d /\ c + Size(m, c) - 8 # d + 4
    BY <2>1, <1>0, FooterNoLink
  <2>3. NEXT_BLKP(m, c) - DSIZE = c + Size(m, c) - 8
    <3>1. c \in Nat /\ Size(m, c) \in Int
      BY <1>0, <2>1, BlockWords, WallsSay
    <3> QED
      BY <3>1 DEF NEXT_BLKP, DSIZE
  <2> QED
    BY <2>2, <2>3, <1>2, <1>3
<1> QED
  BY <1>2, <1>4, <1>5, <1>6, <1>7, <1>9, <1>10, <1>11 DEF Unlinked
-----------------------------------------------------------------------------
(* An allocated block becomes a hole. *)
LEMMA OpenUsed ==
  ASSUME NEW m, NEW brk, NEW S, HeapAt(m, brk, S, 0, 0), NEW b \in Used(m, brk, S, 0)
  PROVE  /\ HeapAt(m, brk, S, b, Size(m, b))
         /\ Used(m, brk, S, b) = Used(m, brk, S, 0) \ {b}
<1>1. Walls(m, brk, S, 0, 0) /\ Tags(m, brk, S, 0) /\ \E R : Linked(m, FreeIn(m, brk, S, 0), R)
  BY DEF HeapAt
<1>2. b \in S \ {class_listp, brk} /\ b # 0 /\ Allocated(m, b)
  BY <1>1, WallsSay DEF Used
<1>3. \A c \in S \ {brk} : Extent(m, b, Size(m, b), c) = Extent(m, 0, 0, c)
  BY <1>1, WallsSay DEF Extent
<1>4. Size(m, b) \in Nat
  BY <1>1, <1>2, BlockWords, WallsSay DEF Extent
<1>5. Walls(m, brk, S, b, Size(m, b))
  BY <1>1, <1>2, <1>3, <1>4 DEF Walls
<1>6. Tags(m, brk, S, b)
  <2>1. \A c \in S \ {brk, b} : NEXT_BLKP(m, c) # 0
    <3>1. \A c \in S \ {brk} : NEXT_BLKP(m, c) \in S /\ 0 \notin S
      BY <1>1, WallsSay DEF NEXT_BLKP
    <3> QED
      BY <3>1
  <2>2. \A c \in S \ {brk, b} : c \in S \ {brk, 0}
    BY <1>1, WallsSay
  <2> QED
    BY <1>1, <2>1, <2>2 DEF Tags
<1>7. FreeIn(m, brk, S, b) = FreeIn(m, brk, S, 0)
  BY <1>1, <1>2, WallsSay DEF FreeIn
<1>8. Used(m, brk, S, b) = Used(m, brk, S, 0) \ {b}
  BY <1>1, WallsSay DEF Used
<1> QED
  BY <1>1, <1>5, <1>6, <1>7, <1>8 DEF HeapAt

(* A free block becomes a hole. *)
LEMMA OpenFree ==
  ASSUME NEW m, NEW brk, NEW S, HeapAt(m, brk, S, 0, 0), NEW b \in FreeIn(m, brk, S, 0),
         NEW u, u = unjoin(m, b)
  PROVE  /\ HeapAt(u, brk, S, b, Size(m, b)) /\ SameHeaders(m, u, S)
         /\ Used(u, brk, S, b) = Used(m, brk, S, 0)
         /\ Spares(m, u, Used(m, brk, S, 0))
<1>1. Walls(m, brk, S, 0, 0) /\ Tags(m, brk, S, 0)
  BY DEF HeapAt
<1>2. /\ u \in Memory /\ u[12] = m[12] /\ SameHeaders(m, u, S) /\ Walls(u, brk, S, 0, 0)
      /\ \E Q : Linked(u, FreeIn(m, brk, S, 0) \ {b}, Q)
      /\ \A c \in FreeIn(m, brk, S, 0) :
             u[NEXT_BLKP(m, c) - DSIZE] = m[NEXT_BLKP(m, c) - DSIZE]
      /\ Spares(m, u, Used(m, brk, S, 0))
  <2>1. Unlinked(m, u, brk, S, 0, 0, b)
    BY Unjoined
  <2> QED
    BY <2>1 DEF Unlinked
<1>3. b \in S \ {class_listp, brk} /\ b # 0 /\ ~Allocated(m, b)
  BY <1>1, FreeIsLater, WallsSay DEF FreeIn
<1>4. \A c \in S : /\ Size(u, c) = Size(m, c) /\ NEXT_BLKP(u, c) = NEXT_BLKP(m, c)
                   /\ Allocated(u, c) <=> Allocated(m, c)
                   /\ PrevAllocated(u, c) <=> PrevAllocated(m, c)
  BY <1>2, HeadersSay
<1>5. \A c \in S \ {brk} : Extent(u, b, Size(m, b), c) = Extent(u, 0, 0, c)
  BY <1>2, <1>4, WallsSay DEF Extent
<1>6. Size(m, b) \in Nat
  BY <1>1, <1>3, BlockWords, WallsSay DEF Extent
<1>7. Walls(u, brk, S, b, Size(m, b))
  BY <1>2, <1>3, <1>5, <1>6 DEF Walls
<1>8. Tags(u, brk, S, b)
  <2>1. \A c \in S \ {brk} : NEXT_BLKP(m, c) \in S /\ c # 0 /\ NEXT_BLKP(m, c) # 0
    <3>1. \A c \in S \ {brk} : NEXT_BLKP(m, c) \in S /\ 0 \notin S
      BY <1>1, WallsSay DEF NEXT_BLKP
    <3> QED
      BY <3>1
  <2> SUFFICES ASSUME NEW c \in S \ {brk, b}
               PROVE  /\ Allocated(u, c) <=> PrevAllocated(u, NEXT_BLKP(u, c))
                      /\ ~Allocated(u, c) =>
                            /\ u[NEXT_BLKP(u, c) - DSIZE] = Size(u, c)
                            /\ Allocated(u, NEXT_BLKP(u, c)) \/ NEXT_BLKP(u, c) = b
    BY DEF Tags
  <2>2. /\ Allocated(m, c) <=> PrevAllocated(m, NEXT_BLKP(m, c))
        /\ ~Allocated(m, c) => /\ m[NEXT_BLKP(m, c) - DSIZE] = Size(m, c)
                               /\ Allocated(m, NEXT_BLKP(m, c))
    BY <1>1, <2>1 DEF Tags
  <2>3. ~Allocated(m, c) => c \in FreeIn(m, brk, S, 0)
    BY <2>1 DEF FreeIn
  <2>4. ~Allocated(m, c) => u[NEXT_BLKP(m, c) - DSIZE] = m[NEXT_BLKP(m, c) - DSIZE]
    BY <2>3, <1>2
  <2> QED
    BY <2>1, <2>2, <2>4, <1>4
<1>9. FreeIn(u, brk, S, b) = FreeIn(m, brk, S, 0) \ {b}
  BY <1>1, <1>4, WallsSay DEF FreeIn
<1>10. Used(u, brk, S, b) = Used(m, brk, S, 0)
  BY <1>1, <1>3, <1>4, WallsSay DEF Used
<1> QED
  BY <1>2, <1>7, <1>8, <1>9, <1>10 DEF HeapAt

(* What a heap with a hole says, in one place. *)
LEMMA HoleSays ==
  ASSUME NEW m, NEW brk, NEW S, NEW lo, NEW h, HeapAt(m, brk, S, lo, h), lo \in S
  PROVE  /\ Walls(m, brk, S, lo, h) /\ Tags(m, brk, S, lo)
         /\ \E R : Linked(m, FreeIn(m, brk, S, lo), R)
         /\ lo \in S \ {class_listp, brk} /\ lo \in Nat /\ h \in Nat /\ h >= 16 /\ h % 8 = 0
         /\ lo + h \in S /\ lo + h # lo /\ lo + h \in Nat /\ lo + h # class_listp
         /\ lo >= 40 /\ lo % 8 = 0 /\ lo + h <= brk /\ brk <= MAX_HEAP /\ brk \in Nat
<1>1. Walls(m, brk, S, lo, h) /\ Tags(m, brk, S, lo) /\ \E R : Linked(m, FreeIn(m, brk, S, lo), R)
  BY DEF HeapAt
<1>2. lo \in S \ {class_listp, brk} /\ lo \in Nat /\ Extent(m, lo, h, lo) = h /\ lo >= 40
      /\ lo % 8 = 0
  BY <1>1, WallsSay, FirstBlock
<1>3. h \in Nat /\ h >= 16 /\ h % 8 = 0 /\ lo + h \in S /\ lo + h <= brk /\ brk \in Nat
      /\ brk <= MAX_HEAP
  BY <1>1, <1>2, WallsSay, BlockWords
<1> QED
  BY <1>1, <1>2, <1>3 DEF class_listp

(* The block behind every block is one, and only one block is in front of  *)
(* the hole's end.                                                         *)
LEMMA Nexts ==
  ASSUME NEW m, NEW brk, NEW S, NEW lo, NEW h, Walls(m, brk, S, lo, h)
  PROVE  \A c \in S \ {brk, lo} :
            /\ Size(m, c) \in Nat /\ Size(m, c) % 8 = 0 /\ Size(m, c) >= 16
            /\ Extent(m, lo, h, c) = Size(m, c)
            /\ NEXT_BLKP(m, c) = c + Size(m, c) /\ NEXT_BLKP(m, c) \in S
            /\ NEXT_BLKP(m, c) \in Nat /\ NEXT_BLKP(m, c) <= brk
            /\ NEXT_BLKP(m, c) # 0 /\ NEXT_BLKP(m, c) # class_listp
            /\ NEXT_BLKP(m, c) # c
            /\ lo \in S => NEXT_BLKP(m, c) # lo + h
<1> SUFFICES ASSUME NEW c \in S \ {brk, lo}
             PROVE  /\ Size(m, c) \in Nat /\ Size(m, c) % 8 = 0 /\ Size(m, c) >= 16
                    /\ Extent(m, lo, h, c) = Size(m, c)
                    /\ NEXT_BLKP(m, c) = c + Size(m, c) /\ NEXT_BLKP(m, c) \in S
                    /\ NEXT_BLKP(m, c) \in Nat /\ NEXT_BLKP(m, c) <= brk
                    /\ NEXT_BLKP(m, c) # 0 /\ NEXT_BLKP(m, c) # class_listp
                    /\ NEXT_BLKP(m, c) # c
                    /\ lo \in S => NEXT_BLKP(m, c) # lo + h
  OBVIOUS
<1>1. Extent(m, lo, h, c) = Size(m, c)
  BY DEF Extent
<1>2. NEXT_BLKP(m, c) = c + Size(m, c)
  BY DEF NEXT_BLKP
<1>3. /\ Size(m, c) \in Nat /\ Size(m, c) % 8 = 0 /\ Size(m, c) >= 16
      /\ c + Size(m, c) \in S /\ c \in Nat /\ class_listp <= c /\ c + Size(m, c) <= brk
  BY <1>1, BlockWords, WallsSay
<1>4. lo \in S => c + Size(m, c) # lo + h
  <2> SUFFICES ASSUME lo \in S, c + Size(m, c) = lo + h PROVE FALSE
    OBVIOUS
  <2>1. lo \in S \ {brk} /\ Extent(m, lo, h, lo) = h
    BY WallsSay
  <2>2. c + Extent(m, lo, h, c) = lo + Extent(m, lo, h, lo)
    BY <1>1, <2>1
  <2>3. c = lo
    BY <2>1, <2>2, NextOnce
  <2> QED
    BY <2>3
<1> QED
  BY <1>1, <1>2, <1>3, <1>4 DEF class_listp

(* The hole grows over the block behind it. *)
LEMMA WallsUp ==
  ASSUME NEW m, NEW brk, NEW S, NEW lo, NEW h, Walls(m, brk, S, lo, h), lo \in S,
         lo + h # brk, lo + h \in S, lo + h # lo
  PROVE  Walls(m, brk, S \ {lo + h}, lo, h + Size(m, lo + h))
<1> DEFINE n == lo + h
           s == Size(m, n)
           T == S \ {n}
<1>1. n \in S \ {brk, lo}
  OBVIOUS
<1>2. s \in Nat /\ s >= 16 /\ n + s \in S /\ n + s <= brk /\ Extent(m, lo, h, n) = s
  BY <1>1, Nexts
<1>3. /\ lo \in Nat /\ h \in Nat /\ n \in Nat /\ h >= 16 /\ Extent(m, lo, h, lo) = h
      /\ lo \in S \ {class_listp, brk} /\ n # class_listp
      /\ \A c \in S : c \in Nat
  <2>1. lo \in S \ {brk, class_listp} /\ Extent(m, lo, h, lo) = h
    BY WallsSay
  <2>2. h >= 16 /\ lo \in Nat /\ h \in Nat /\ class_listp <= lo
    BY <2>1, WallsSay
  <2> QED
    BY <2>1, <2>2, WallsSay DEF class_listp
<1>4. ASSUME NEW b \in T \ {brk}
      PROVE  /\ Extent(m, lo, h + s, b) >= MINBLOCK /\ b + Extent(m, lo, h + s, b) \in T
             /\ \A c \in T : c <= b \/ b + Extent(m, lo, h + s, b) <= c
  <2>1. CASE b = lo
    <3>1. Extent(m, lo, h + s, b) = h + s /\ b + (h + s) = n + s
      BY <2>1, <1>2, <1>3 DEF Extent
    <3>2. \A c \in S : c <= lo \/ n <= c
      BY <1>3, WallsSay
    <3>3. \A c \in S : c <= n \/ n + s <= c
      BY <1>1, <1>2, WallsSay
    <3>4. n + s \in T
      BY <1>2, <1>3
    <3>5. \A c \in T : c <= lo \/ n + s <= c
      BY <3>2, <3>3, <1>3
    <3> HIDE DEF n, s, T
    <3>6. h + s >= 16
      BY <1>2, <1>3
    <3> QED
      BY <3>1, <3>4, <3>5, <3>6, <2>1 DEF MINBLOCK
  <2>2. CASE b # lo
    <3>1. b \in S \ {brk, lo} /\ Extent(m, lo, h + s, b) = Size(m, b)
          /\ Extent(m, lo, h, b) = Size(m, b)
      BY <2>2 DEF Extent
    <3>2. /\ Size(m, b) >= 16 /\ b + Size(m, b) \in S
          /\ \A c \in S : c <= b \/ b + Size(m, b) <= c
      BY <3>1, WallsSay
    <3>3. b + Size(m, b) # n
      BY <3>1, Nexts
    <3> HIDE DEF n, s
    <3> QED
      BY <3>1, <3>2, <3>3 DEF MINBLOCK
  <2> QED
    BY <2>1, <2>2
<1>5. class_listp \in T /\ brk \in T /\ lo \in (T \ {class_listp, brk}) \cup {0}
      /\ h + s \in Nat /\ (lo = 0 => h + s = 0)
  BY <1>2, <1>3, WallsSay
<1> HIDE DEF s, n
<1>6. Walls(m, brk, T, lo, h + s)
  BY <1>4, <1>5 DEF Walls
<1> QED
  BY <1>6 DEF s, n

(* The hole grows over the block in front of it. *)
LEMMA WallsDown ==
  ASSUME NEW m, NEW brk, NEW S, NEW lo, NEW h, Walls(m, brk, S, lo, h), lo \in S,
         NEW p \in S \ {class_listp, brk, lo}, NEXT_BLKP(m, p) = lo
  PROVE  Walls(m, brk, S \ {lo}, p, Size(m, p) + h)
<1> DEFINE s == Size(m, p)
           T == S \ {lo}
<1>1. s \in Nat /\ s >= 16 /\ p + s = lo /\ Extent(m, lo, h, p) = s /\ p \in Nat
  BY Nexts, WallsSay
<1>2. /\ lo \in Nat /\ h \in Nat /\ h >= 16 /\ Extent(m, lo, h, lo) = h
      /\ lo \in S \ {class_listp, brk} /\ lo + h \in S /\ lo + h # lo
      /\ \A c \in S : c \in Nat
      /\ \A c \in S : c <= lo \/ lo + h <= c
  <2>1. lo \in S \ {brk, class_listp} /\ Extent(m, lo, h, lo) = h
    BY WallsSay
  <2>2. h >= 16 /\ lo \in Nat /\ h \in Nat /\ lo + h \in S
    BY <2>1, WallsSay
  <2> QED
    BY <2>1, <2>2, WallsSay
<1>3. ASSUME NEW b \in T \ {brk}
      PROVE  /\ Extent(m, p, s + h, b) >= MINBLOCK /\ b + Extent(m, p, s + h, b) \in T
             /\ \A c \in T : c <= b \/ b + Extent(m, p, s + h, b) <= c
  <2>1. CASE b = p
    <3>1. Extent(m, p, s + h, b) = s + h /\ b + (s + h) = lo + h
      BY <2>1, <1>1, <1>2 DEF Extent
    <3>2. \A c \in S : c <= p \/ lo <= c
      BY <1>1, WallsSay
    <3>3. \A c \in T : c <= p \/ lo + h <= c
      BY <3>2, <1>2
    <3>4. lo + h \in T
      BY <1>2
    <3> HIDE DEF s, T
    <3>6. s + h >= 16
      BY <1>1, <1>2
    <3> QED
      BY <3>1, <3>3, <3>4, <3>6, <2>1 DEF MINBLOCK
  <2>2. CASE b # p
    <3>1. b \in S \ {brk, lo} /\ Extent(m, p, s + h, b) = Size(m, b)
          /\ Extent(m, lo, h, b) = Size(m, b)
      BY <2>2 DEF Extent
    <3>2. /\ Size(m, b) >= 16 /\ b + Size(m, b) \in S
          /\ \A c \in S : c <= b \/ b + Size(m, b) <= c
      BY <3>1, WallsSay
    <3>3. b + Size(m, b) # lo
      <4>1. b + Size(m, b) = lo => b + Extent(m, lo, h, b) = p + Extent(m, lo, h, p)
        BY <3>1, <1>1
      <4> QED
        BY <4>1, <3>1, <2>2, NextOnce
    <3> HIDE DEF s
    <3> QED
      BY <3>1, <3>2, <3>3 DEF MINBLOCK
  <2> QED
    BY <2>1, <2>2
<1>4. class_listp \in T /\ brk \in T /\ p \in (T \ {class_listp, brk}) \cup {0}
      /\ s + h \in Nat /\ (p = 0 => s + h = 0)
  BY <1>1, <1>2, WallsSay
<1> HIDE DEF s
<1>5. Walls(m, brk, T, p, s + h)
  BY <1>3, <1>4 DEF Walls
<1> QED
  BY <1>5 DEF s

(* A hole takes in the free block in front of it. *)
LEMMA WidenDown ==
  ASSUME NEW m, NEW brk, NEW S, NEW lo, NEW h, HeapAt(m, brk, S, lo, h), lo \in S,
         NEW p \in FreeIn(m, brk, S, lo), NEXT_BLKP(m, p) = lo, NEW u, u = unjoin(m, p)
  PROVE  /\ HeapAt(u, brk, S \ {lo}, p, Size(m, p) + h) /\ SameHeaders(m, u, S)
         /\ Used(u, brk, S \ {lo}, p) = Used(m, brk, S, lo)
         /\ Spares(m, u, Used(m, brk, S, lo))
         /\ \A q \in Addr : lo <= q /\ q <= (lo + h) - DSIZE => u[q] = m[q]
<1> DEFINE T == S \ {lo}
<1>0. /\ Walls(m, brk, S, lo, h) /\ Tags(m, brk, S, lo)
      /\ lo \in S \ {class_listp, brk} /\ lo + h \in S
  BY HoleSays
<1>1. Unlinked(m, u, brk, S, lo, h, p)
  BY Unjoined
<1>2. /\ u \in Memory /\ u[12] = m[12] /\ SameHeaders(m, u, S) /\ Walls(u, brk, S, lo, h)
      /\ \E Q : Linked(u, FreeIn(m, brk, S, lo) \ {p}, Q)
      /\ \A c \in FreeIn(m, brk, S, lo) :
            u[NEXT_BLKP(m, c) - DSIZE] = m[NEXT_BLKP(m, c) - DSIZE]
      /\ Spares(m, u, Used(m, brk, S, lo))
      /\ \A q \in Addr : lo <= q /\ q <= (lo + h) - DSIZE => u[q] = m[q]
  BY <1>1 DEF Unlinked
<1>3. \A c \in S : /\ Size(u, c) = Size(m, c) /\ NEXT_BLKP(u, c) = NEXT_BLKP(m, c)
                   /\ Allocated(u, c) <=> Allocated(m, c)
                   /\ PrevAllocated(u, c) <=> PrevAllocated(m, c)
  BY <1>2, HeadersSay
<1>4. p \in S \ {class_listp, brk, lo} /\ ~Allocated(m, p)
  BY <1>0, FreeIsLater DEF FreeIn
<1>5. Walls(u, brk, T, p, Size(m, p) + h)
  BY <1>0, <1>2, <1>3, <1>4, WallsDown
<1>6. Tags(u, brk, T, p)
  <2> SUFFICES ASSUME NEW c \in T \ {brk, p}
               PROVE  /\ Allocated(u, c) <=> PrevAllocated(u, NEXT_BLKP(u, c))
                      /\ ~Allocated(u, c) =>
                            /\ u[NEXT_BLKP(u, c) - DSIZE] = Size(u, c)
                            /\ Allocated(u, NEXT_BLKP(u, c)) \/ NEXT_BLKP(u, c) = p
    BY DEF Tags
  <2>1. c \in S \ {brk, lo} /\ NEXT_BLKP(m, c) \in S /\ NEXT_BLKP(m, c) # lo
    <3>1. c \in S \ {brk, lo} /\ p \in S \ {brk, lo}
      BY <1>4
    <3>2. /\ NEXT_BLKP(m, c) \in S /\ NEXT_BLKP(m, c) = c + Extent(m, lo, h, c)
          /\ NEXT_BLKP(m, p) = p + Extent(m, lo, h, p)
      BY <1>0, <3>1, Nexts
    <3>3. NEXT_BLKP(m, c) # lo
      BY <1>0, <3>1, <3>2, NextOnce
    <3> QED
      BY <3>1, <3>2, <3>3
  <2>2. /\ Allocated(m, c) <=> PrevAllocated(m, NEXT_BLKP(m, c))
        /\ ~Allocated(m, c) => /\ m[NEXT_BLKP(m, c) - DSIZE] = Size(m, c)
                               /\ Allocated(m, NEXT_BLKP(m, c))
    BY <1>0, <2>1 DEF Tags
  <2>3. ~Allocated(m, c) => c \in FreeIn(m, brk, S, lo)
    BY <2>1 DEF FreeIn
  <2>4. ~Allocated(m, c) => u[NEXT_BLKP(m, c) - DSIZE] = m[NEXT_BLKP(m, c) - DSIZE]
    BY <2>3, <1>2
  <2> QED
    BY <2>1, <2>2, <2>4, <1>3
<1>7. FreeIn(u, brk, T, p) = FreeIn(m, brk, S, lo) \ {p}
  BY <1>3 DEF FreeIn
<1>8. Used(u, brk, T, p) = Used(m, brk, S, lo)
  BY <1>3, <1>4 DEF Used
<1> QED
  BY <1>2, <1>5, <1>6, <1>7, <1>8 DEF HeapAt

(* A hole takes in the free block behind it. *)
LEMMA WidenUp ==
  ASSUME NEW m, NEW brk, NEW S, NEW lo, NEW h, HeapAt(m, brk, S, lo, h), lo \in S,
         NEW n, n = lo + h, n \in FreeIn(m, brk, S, lo), NEW u, u = unjoin(m, n)
  PROVE  /\ HeapAt(u, brk, S \ {n}, lo, h + Size(m, n)) /\ SameHeaders(m, u, S)
         /\ Used(u, brk, S \ {n}, lo) = Used(m, brk, S, lo)
         /\ Spares(m, u, Used(m, brk, S, lo))
         /\ \A q \in Addr : lo <= q /\ q <= (lo + h) - DSIZE => u[q] = m[q]
<1> DEFINE T == S \ {n}
<1>0. /\ Walls(m, brk, S, lo, h) /\ Tags(m, brk, S, lo)
      /\ lo \in S \ {class_listp, brk} /\ lo + h \in S /\ lo + h # lo
  BY HoleSays
<1>1. Unlinked(m, u, brk, S, lo, h, n)
  BY Unjoined
<1>2. /\ u \in Memory /\ u[12] = m[12] /\ SameHeaders(m, u, S) /\ Walls(u, brk, S, lo, h)
      /\ \E Q : Linked(u, FreeIn(m, brk, S, lo) \ {n}, Q)
      /\ \A c \in FreeIn(m, brk, S, lo) :
            u[NEXT_BLKP(m, c) - DSIZE] = m[NEXT_BLKP(m, c) - DSIZE]
      /\ Spares(m, u, Used(m, brk, S, lo))
      /\ \A q \in Addr : lo <= q /\ q <= (lo + h) - DSIZE => u[q] = m[q]
  BY <1>1 DEF Unlinked
<1>3. \A c \in S : /\ Size(u, c) = Size(m, c) /\ NEXT_BLKP(u, c) = NEXT_BLKP(m, c)
                   /\ Allocated(u, c) <=> Allocated(m, c)
                   /\ PrevAllocated(u, c) <=> PrevAllocated(m, c)
  BY <1>2, HeadersSay
<1>4. n \in S \ {class_listp, brk, lo} /\ ~Allocated(m, n)
  BY <1>0, FreeIsLater DEF FreeIn
<1>5. Walls(u, brk, T, lo, h + Size(m, n))
  BY <1>0, <1>2, <1>3, <1>4, WallsUp
<1>6. Tags(u, brk, T, lo)
  <2> SUFFICES ASSUME NEW c \in T \ {brk, lo}
               PROVE  /\ Allocated(u, c) <=> PrevAllocated(u, NEXT_BLKP(u, c))
                      /\ ~Allocated(u, c) =>
                            /\ u[NEXT_BLKP(u, c) - DSIZE] = Size(u, c)
                            /\ Allocated(u, NEXT_BLKP(u, c)) \/ NEXT_BLKP(u, c) = lo
    BY DEF Tags
  <2>1. c \in S \ {brk, lo} /\ NEXT_BLKP(m, c) \in S
    BY <1>0, Nexts
  <2>2. /\ Allocated(m, c) <=> PrevAllocated(m, NEXT_BLKP(m, c))
        /\ ~Allocated(m, c) => /\ m[NEXT_BLKP(m, c) - DSIZE] = Size(m, c)
                               /\ Allocated(m, NEXT_BLKP(m, c)) \/ NEXT_BLKP(m, c) = lo
    BY <1>0, <2>1 DEF Tags
  <2>3. ~Allocated(m, c) => c \in FreeIn(m, brk, S, lo)
    BY <2>1 DEF FreeIn
  <2>4. ~Allocated(m, c) => u[NEXT_BLKP(m, c) - DSIZE] = m[NEXT_BLKP(m, c) - DSIZE]
    BY <2>3, <1>2
  <2> QED
    BY <2>1, <2>2, <2>4, <1>3
<1>7. FreeIn(u, brk, T, lo) = FreeIn(m, brk, S, lo) \ {n}
  BY <1>3 DEF FreeIn
<1>8. Used(u, brk, T, lo) = Used(m, brk, S, lo)
  BY <1>3, <1>4 DEF Used
<1> QED
  BY <1>2, <1>5, <1>6, <1>7, <1>8 DEF HeapAt

(* A hole takes in the allocated block behind it. *)
LEMMA WidenUsed ==
  ASSUME NEW m, NEW brk, NEW S, NEW lo, NEW h, HeapAt(m, brk, S, lo, h), lo \in S,
         NEW n, n = lo + h, n \in Used(m, brk, S, lo)
  PROVE  /\ HeapAt(m, brk, S \ {n}, lo, h + Size(m, n))
         /\ Used(m, brk, S \ {n}, lo) = Used(m, brk, S, lo) \ {n}
<1> DEFINE T == S \ {n}
<1>0. /\ Walls(m, brk, S, lo, h) /\ Tags(m, brk, S, lo)
      /\ lo \in S \ {class_listp, brk} /\ lo + h \in S /\ lo + h # lo
      /\ \E R : Linked(m, FreeIn(m, brk, S, lo), R)
  BY HoleSays
<1>1. n \in S \ {class_listp, brk, lo} /\ Allocated(m, n)
  BY DEF Used
<1>2. Walls(m, brk, T, lo, h + Size(m, n))
  BY <1>0, <1>1, WallsUp
<1>3. Tags(m, brk, T, lo)
  BY <1>0 DEF Tags
<1>4. FreeIn(m, brk, T, lo) = FreeIn(m, brk, S, lo)
  BY <1>1 DEF FreeIn
<1>5. Used(m, brk, T, lo) = Used(m, brk, S, lo) \ {n}
  BY DEF Used
<1> QED
  BY <1>0, <1>2, <1>3, <1>4, <1>5 DEF HeapAt
-----------------------------------------------------------------------------
(* An allocated block of a bytes at the begin of the hole leaves a smaller *)
(* hole.                                                                   *)
LEMMA Narrow ==
  ASSUME NEW m, NEW brk, NEW S, NEW lo, NEW h, HeapAt(m, brk, S, lo, h), lo \in S,
         NEW a \in Nat, a % 8 = 0, a >= 16, h - a >= 16,
         Size(m, lo) = a, Allocated(m, lo), PrevAllocated(m, lo + a),
         NEW x, x = lo + a
  PROVE  /\ HeapAt(m, brk, S \cup {x}, x, h - a)
         /\ Used(m, brk, S \cup {x}, x) = Used(m, brk, S, lo) \cup {lo}
<1> DEFINE T == S \cup {x}
<1>0. /\ Walls(m, brk, S, lo, h) /\ Tags(m, brk, S, lo)
      /\ lo \in S \ {class_listp, brk} /\ lo + h \in S /\ lo + h # lo
      /\ lo \in Nat /\ h \in Nat /\ lo % 8 = 0 /\ lo + h <= brk /\ lo >= 40 /\ brk \in Nat
      /\ \E R : Linked(m, FreeIn(m, brk, S, lo), R)
  BY HoleSays
<1>1. \A c \in S : c \in Nat /\ (c <= lo \/ lo + h <= c)
  <2>1. Extent(m, lo, h, lo) = h
    BY <1>0, WallsSay
  <2> QED
    BY <2>1, <1>0, WallsSay
<1>2. x \notin S /\ x \in Nat /\ x % 8 = 0 /\ x > lo /\ x < lo + h /\ x < brk /\ x >= 40
  BY <1>0, <1>1
<1>3. ASSUME NEW b \in T \ {brk}
      PROVE  /\ Extent(m, x, h - a, b) >= MINBLOCK /\ b + Extent(m, x, h - a, b) \in T
             /\ \A c \in T : c <= b \/ b + Extent(m, x, h - a, b) <= c
  <2>1. CASE b = x
    <3>1. Extent(m, x, h - a, b) = h - a /\ x + (h - a) = lo + h
      BY <2>1, <1>0 DEF Extent
    <3> QED
      BY <3>1, <2>1, <1>0, <1>1, <1>2 DEF MINBLOCK
  <2>2. CASE b = lo
    <3>1. Extent(m, x, h - a, b) = a
      BY <2>2, <1>2 DEF Extent
    <3> QED
      BY <3>1, <2>2, <1>0, <1>1, <1>2 DEF MINBLOCK
  <2>3. CASE b # x /\ b # lo
    <3>1. b \in S \ {brk, lo} /\ Extent(m, x, h - a, b) = Size(m, b)
      BY <2>3 DEF Extent
    <3>2. /\ Size(m, b) >= 16 /\ b + Size(m, b) \in S /\ Size(m, b) \in Nat /\ b \in Nat
          /\ \A c \in S : c <= b \/ b + Size(m, b) <= c
      BY <1>0, <3>1, Nexts, WallsSay
    <3>3. x <= b \/ b + Size(m, b) <= x
      <4>1. b <= lo \/ lo + h <= b
        BY <3>1, <1>1
      <4>2. lo <= b \/ b + Size(m, b) <= lo
        BY <3>2, <1>0
      <4> QED
        BY <4>1, <4>2, <3>2, <1>0, <1>2, <2>3
    <3> QED
      BY <3>1, <3>2, <3>3 DEF MINBLOCK
  <2> QED
    BY <2>1, <2>2, <2>3
<1>4. Walls(m, brk, T, x, h - a)
  <2>1. class_listp \in T /\ brk \in T /\ x \in (T \ {class_listp, brk}) \cup {0}
        /\ h - a \in Nat /\ (x = 0 => h - a = 0) /\ T \subseteq Nat
    BY <1>0, <1>1, <1>2, WallsSay DEF class_listp
  <2>2. \A b \in T : class_listp <= b /\ b <= brk /\ b % 8 = 0
    BY <1>0, <1>2, WallsSay DEF class_listp
  <2>3. m \in Memory /\ brk <= MAX_HEAP /\ m[12] = 27 /\ Size(m, brk) = 0 /\ Allocated(m, brk)
    BY <1>0, WallsSay
  <2> QED
    BY <1>3, <2>1, <2>2, <2>3 DEF Walls
<1>5. Tags(m, brk, T, x)
  <2> SUFFICES ASSUME NEW c \in T \ {brk, x}
               PROVE  /\ Allocated(m, c) <=> PrevAllocated(m, NEXT_BLKP(m, c))
                      /\ ~Allocated(m, c) =>
                            /\ m[NEXT_BLKP(m, c) - DSIZE] = Size(m, c)
                            /\ Allocated(m, NEXT_BLKP(m, c)) \/ NEXT_BLKP(m, c) = x
    BY DEF Tags
  <2>1. CASE c = lo
    BY <2>1 DEF NEXT_BLKP
  <2>2. CASE c # lo
    BY <2>2, <1>0 DEF Tags
  <2> QED
    BY <2>1, <2>2
<1>6. FreeIn(m, brk, T, x) = FreeIn(m, brk, S, lo)
  BY <1>2 DEF FreeIn
<1>7. Used(m, brk, T, x) = Used(m, brk, S, lo) \cup {lo}
  BY <1>0, <1>2 DEF Used
<1> QED
  BY <1>0, <1>4, <1>5, <1>6, <1>7 DEF HeapAt

(* A hole that is filled by one block is none. *)
LEMMA WallsClosed ==
  ASSUME NEW m, NEW brk, NEW S, NEW lo, NEW h, Walls(m, brk, S, lo, h), lo \in S,
         Size(m, lo) = h
  PROVE  Walls(m, brk, S, 0, 0)
<1>1. 0 \notin S
  BY WallsSay
<1>2. \A c \in S : Extent(m, 0, 0, c) = Extent(m, lo, h, c)
  BY <1>1 DEF Extent
<1> QED
  BY <1>2 DEF Walls

(* The hole becomes an allocated block. *)
LEMMA CloseUsed ==
  ASSUME NEW m, NEW brk, NEW S, NEW lo, NEW h, HeapAt(m, brk, S, lo, h), lo \in S,
         Size(m, lo) = h, Allocated(m, lo), PrevAllocated(m, lo + h)
  PROVE  /\ HeapAt(m, brk, S, 0, 0)
         /\ Used(m, brk, S, 0) = Used(m, brk, S, lo) \cup {lo}
<1>0. /\ Walls(m, brk, S, lo, h) /\ Tags(m, brk, S, lo)
      /\ lo \in S \ {class_listp, brk} /\ 0 \notin S
      /\ \E R : Linked(m, FreeIn(m, brk, S, lo), R)
  BY HoleSays, WallsSay
<1>1. Walls(m, brk, S, 0, 0)
  BY <1>0, WallsClosed
<1>2. Tags(m, brk, S, 0)
  <2> SUFFICES ASSUME NEW c \in S \ {brk}
               PROVE  /\ Allocated(m, c) <=> PrevAllocated(m, NEXT_BLKP(m, c))
                      /\ ~Allocated(m, c) => /\ m[NEXT_BLKP(m, c) - DSIZE] = Size(m, c)
                                             /\ Allocated(m, NEXT_BLKP(m, c))
    BY DEF Tags
  <2>1. CASE c = lo
    BY <2>1 DEF NEXT_BLKP
  <2>2. CASE c # lo
    BY <2>2, <1>0 DEF Tags
  <2> QED
    BY <2>1, <2>2
<1>3. FreeIn(m, brk, S, 0) = FreeIn(m, brk, S, lo)
  BY <1>0 DEF FreeIn
<1>4. Used(m, brk, S, 0) = Used(m, brk, S, lo) \cup {lo}
  BY <1>0 DEF Used
<1> QED
  BY <1>0, <1>1, <1>2, <1>3, <1>4 DEF HeapAt

(* join leaves the tags as they are, too. *)
Joined(m, j, brk, S, lo, h) ==
    /\ j \in Memory /\ j[12] = m[12] /\ SameHeaders(m, j, S)
    /\ \E Q : Linked(j, FreeIn(m, brk, S, lo) \cup {lo}, Q)
    /\ \A c \in FreeIn(m, brk, S, lo) :
          j[NEXT_BLKP(m, c) - DSIZE] = m[NEXT_BLKP(m, c) - DSIZE]
    /\ j[(lo + h) - DSIZE] = m[(lo + h) - DSIZE]
    /\ Spares(m, j, Used(m, brk, S, lo))

(* join does.                                                              *)
LEMMA JoinedSays ==
  ASSUME NEW m, NEW brk, NEW S, NEW lo, NEW h, HeapAt(m, brk, S, lo, h), lo \in S,
         NEW j, j = join(m, lo)
  PROVE  Joined(m, j, brk, S, lo, h)
<1> DEFINE F == FreeIn(m, brk, S, lo)
<1>0. /\ Walls(m, brk, S, lo, h) /\ \E R : Linked(m, F, R)
      /\ lo \in S \ {class_listp, brk} /\ lo \in Nat /\ h \in Nat
  BY HoleSays
<1>1. PICK R : Linked(m, F, R)
  BY <1>0
<1>2. /\ j \in Memory
      /\ \A p \in Addr :
             p \notin Classes /\ (\A c \in F \cup {lo} : p # c /\ p # c + 4) => j[p] = m[p]
  BY <1>0, <1>1, JoinWrites
<1>3. \A c \in F \cup {lo} : c \in S \ {class_listp, brk}
  BY <1>0, FreeIsLater
<1>4. SameHeaders(m, j, S)
  <2>1. ASSUME NEW c \in S PROVE j[c - 4] = m[c - 4]
    <3>1. c - 4 \in Addr
      BY <1>0, BlockWords
    <3>2. c - 4 \notin Classes /\ \A d \in F \cup {lo} : c - 4 # d /\ c - 4 # d + 4
      BY <1>0, <1>3, HeaderNoLink
    <3> QED
      BY <1>2, <3>1, <3>2
  <2> QED
    BY <2>1 DEF SameHeaders, Header, WSIZE
<1>5. j[12] = m[12]
  <2>1. j[16 - 4] = m[16 - 4] /\ 16 - 4 = 12
    BY <1>0, <1>4, WallsSay DEF SameHeaders, Header, WSIZE, class_listp
  <2> QED
    BY <2>1
<1>6. \E Q : Linked(j, F \cup {lo}, Q)
  <2>1. \A c \in F \cup {lo} : Class(join(m, lo), c) = Class(m, c)
    BY <1>3, <1>4, HeadersSay
  <2> HIDE DEF F
  <2> QED
    BY <2>1, <1>0, <1>1, JoinLinked DEF F
<1>7. ASSUME NEW c \in Used(m, brk, S, lo) PROVE Intact(m, j, c)
  <2>1. c \in S \ {class_listp, brk} /\ c \notin F \cup {lo} /\ Extent(m, lo, h, c) = Size(m, c)
    BY DEF Used, FreeIn, Extent
  <2>2. Size(j, c) = Size(m, c)
    BY <1>4, <2>1, HeadersSay
  <2>3. ASSUME NEW p \in Addr, c <= p, p <= c + Size(m, c) - 8 PROVE j[p] = m[p]
    <3>1. p \notin Classes /\ \A d \in S \ {c} : p # d /\ p # d + 4
      BY <1>0, <2>1, <2>3, InsideNoLink
    <3> QED
      BY <3>1, <1>2, <1>3, <2>1
  <2> QED
    BY <2>2, <2>3 DEF Intact, DSIZE
<1>8. ASSUME NEW c \in F \cup {lo}
      PROVE  j[(c + Extent(m, lo, h, c)) - DSIZE] = m[(c + Extent(m, lo, h, c)) - DSIZE]
  <2>1. c \in S \ {class_listp, brk} /\ c \in Nat /\ Extent(m, lo, h, c) \in Nat
    BY <1>0, <1>3, BlockWords, WallsSay
  <2>2. /\ c + Extent(m, lo, h, c) - 8 \in Addr /\ c + Extent(m, lo, h, c) - 8 \notin Classes
        /\ \A d \in S : c + Extent(m, lo, h, c) - 8 # d /\ c + Extent(m, lo, h, c) - 8 # d + 4
    BY <2>1, <1>0, FooterNoLink
  <2>3. (c + Extent(m, lo, h, c)) - DSIZE = c + Extent(m, lo, h, c) - 8
    BY <2>1 DEF DSIZE
  <2> QED
    BY <2>2, <2>3, <1>2, <1>3
<1>9. ASSUME NEW c \in F
      PROVE  j[NEXT_BLKP(m, c) - DSIZE] = m[NEXT_BLKP(m, c) - DSIZE]
  <2>1. NEXT_BLKP(m, c) = c + Extent(m, lo, h, c)
    BY DEF NEXT_BLKP, Extent, FreeIn
  <2> QED
    BY <2>1, <1>8
<1>10. j[(lo + h) - DSIZE] = m[(lo + h) - DSIZE]
  <2>1. Extent(m, lo, h, lo) = h
    BY DEF Extent
  <2> QED
    BY <2>1, <1>8
<1>11. Spares(m, j, Used(m, brk, S, lo))
  BY <1>7 DEF Spares
<1> QED
  BY <1>2, <1>4, <1>5, <1>6, <1>9, <1>10, <1>11 DEF Joined

(* In front of every block but the first there is one. *)
LEMMA Previous ==
  ASSUME NEW m, NEW brk, NEW S, NEW lo, NEW h, Walls(m, brk, S, lo, h),
         NEW c \in S \ {class_listp}
  PROVE  \E p \in S \ {brk} : p + Extent(m, lo, h, p) = c
<1>0. /\ \A b \in S : b \in Nat /\ class_listp <= b /\ b <= brk
      /\ class_listp \in S /\ class_listp < c /\ c \in Nat
  BY WallsSay DEF class_listp
<1> DEFINE D == {d \in S : d < c}
<1>1. D \subseteq Nat /\ D # {} /\ \A d \in D : d <= c
  <2>1. class_listp \in D
    BY <1>0
  <2>2. \A d \in D : d \in Nat /\ d < c
    BY <1>0
  <2> HIDE DEF D
  <2> QED
    BY <2>1, <2>2, <1>0
<1>2. PICK p \in D : \A d \in D : p >= d
  <2> HIDE DEF D
  <2> QED
    BY <1>0, <1>1, MaxNat
<1>3. p \in S \ {brk}
  BY <1>0, <1>2
<1>4. /\ p + Extent(m, lo, h, p) \in S /\ Extent(m, lo, h, p) >= 16
      /\ Extent(m, lo, h, p) \in Nat /\ p \in Nat
      /\ \A d \in S : d <= p \/ p + Extent(m, lo, h, p) <= d
  BY <1>3, WallsSay, BlockWords
<1>5. p + Extent(m, lo, h, p) <= c
  BY <1>0, <1>2, <1>4
<1>6. ~(p + Extent(m, lo, h, p) < c)
  <2> SUFFICES ASSUME p + Extent(m, lo, h, p) < c PROVE FALSE
    OBVIOUS
  <2>1. p + Extent(m, lo, h, p) \in D
    BY <1>4
  <2> HIDE DEF D
  <2> QED
    BY <2>1, <1>2, <1>4
<1> QED
  BY <1>0, <1>3, <1>4, <1>5, <1>6

(* What stands in front of a hole knows whether it is allocated.           *)
LEMMA BeforeHole ==
  ASSUME NEW m, NEW brk, NEW S, NEW lo, NEW h, Walls(m, brk, S, lo, h), Tags(m, brk, S, lo),
         NEW c \in S \ {class_listp}, c # lo + h \/ lo \notin S
  PROVE  \E p \in S \ {brk, lo} : /\ NEXT_BLKP(m, p) = c
                                  /\ Allocated(m, p) <=> PrevAllocated(m, c)
<1>1. PICK p \in S \ {brk} : p + Extent(m, lo, h, p) = c
  BY Previous
<1>2. p # lo
  <2> SUFFICES ASSUME p = lo PROVE FALSE
    OBVIOUS
  <2>1. Extent(m, lo, h, p) = h /\ lo \in S
    BY DEF Extent
  <2> QED
    BY <2>1, <1>1
<1>3. NEXT_BLKP(m, p) = c
  BY <1>1, <1>2, Nexts
<1> QED
  BY <1>1, <1>2, <1>3 DEF Tags

(* The hole becomes a free block. *)
LEMMA CloseFree ==
  ASSUME NEW m, NEW brk, NEW S, NEW lo, NEW h, HeapAt(m, brk, S, lo, h), lo \in S,
         Size(m, lo) = h, ~Allocated(m, lo), m[(lo + h) - DSIZE] = h, PrevAllocated(m, lo),
         Allocated(m, lo + h), ~PrevAllocated(m, lo + h), NEW j, j = join(m, lo)
  PROVE  /\ HeapAt(j, brk, S, 0, 0) /\ SameHeaders(m, j, S)
         /\ Used(j, brk, S, 0) = Used(m, brk, S, lo)
         /\ Spares(m, j, Used(m, brk, S, lo)) /\ lo \in FreeIn(j, brk, S, 0)
<1>0. /\ Walls(m, brk, S, lo, h) /\ Tags(m, brk, S, lo)
      /\ lo \in S \ {class_listp, brk} /\ 0 \notin S /\ lo + h \in S /\ lo + h # lo
  BY HoleSays, WallsSay
<1>1. Joined(m, j, brk, S, lo, h)
  BY JoinedSays
<1>2. /\ j \in Memory /\ j[12] = m[12] /\ SameHeaders(m, j, S)
      /\ \E Q : Linked(j, FreeIn(m, brk, S, lo) \cup {lo}, Q)
      /\ \A c \in FreeIn(m, brk, S, lo) :
            j[NEXT_BLKP(m, c) - DSIZE] = m[NEXT_BLKP(m, c) - DSIZE]
      /\ j[(lo + h) - DSIZE] = m[(lo + h) - DSIZE]
      /\ Spares(m, j, Used(m, brk, S, lo))
  BY <1>1 DEF Joined
<1>3. \A c \in S : /\ Size(j, c) = Size(m, c) /\ NEXT_BLKP(j, c) = NEXT_BLKP(m, c)
                   /\ Allocated(j, c) <=> Allocated(m, c)
                   /\ PrevAllocated(j, c) <=> PrevAllocated(m, c)
  BY <1>2, HeadersSay
<1>4. Walls(j, brk, S, 0, 0)
  <2>1. Walls(j, brk, S, lo, h)
    BY <1>0, <1>2, SameWalls
  <2> QED
    BY <2>1, <1>3, WallsClosed
<1>5. Tags(j, brk, S, 0)
  <2> SUFFICES ASSUME NEW c \in S \ {brk}
               PROVE  /\ Allocated(j, c) <=> PrevAllocated(j, NEXT_BLKP(j, c))
                      /\ ~Allocated(j, c) => /\ j[NEXT_BLKP(j, c) - DSIZE] = Size(j, c)
                                             /\ Allocated(j, NEXT_BLKP(j, c))
    BY DEF Tags
  <2>1. CASE c = lo
    <3>1. NEXT_BLKP(j, c) = lo + h /\ NEXT_BLKP(m, c) = lo + h
      BY <2>1, <1>3 DEF NEXT_BLKP
    <3> QED
      BY <3>1, <2>1, <1>0, <1>2, <1>3
  <2>2. CASE c # lo
    <3>1. NEXT_BLKP(m, c) \in S /\ c \in S \ {brk, lo}
      BY <1>0, <2>2, Nexts
    <3>2. /\ Allocated(m, c) <=> PrevAllocated(m, NEXT_BLKP(m, c))
          /\ ~Allocated(m, c) => /\ m[NEXT_BLKP(m, c) - DSIZE] = Size(m, c)
                                 /\ Allocated(m, NEXT_BLKP(m, c)) \/ NEXT_BLKP(m, c) = lo
      BY <1>0, <3>1 DEF Tags
    <3>3. ~Allocated(m, c) => c \in FreeIn(m, brk, S, lo)
      BY <3>1 DEF FreeIn
    <3>4. ~Allocated(m, c) => j[NEXT_BLKP(m, c) - DSIZE] = m[NEXT_BLKP(m, c) - DSIZE]
      BY <3>3, <1>2
    <3>5. NEXT_BLKP(m, c) = lo => Allocated(m, c)
      BY <3>2
    <3> QED
      BY <3>1, <3>2, <3>4, <3>5, <1>3
  <2> QED
    BY <2>1, <2>2
<1>6. FreeIn(j, brk, S, 0) = FreeIn(m, brk, S, lo) \cup {lo}
  BY <1>0, <1>3 DEF FreeIn
<1>7. Used(j, brk, S, 0) = Used(m, brk, S, lo)
  BY <1>0, <1>3 DEF Used
<1> QED
  BY <1>2, <1>4, <1>5, <1>6, <1>7 DEF HeapAt
-----------------------------------------------------------------------------
(* 4. What is written into a hole, and coalesce.                           *)

(* Around a hole nothing is seen of what is written into it, or into the   *)
(* flag of the block behind it that is about the hole.                     *)
LEMMA HoleWritten ==
  ASSUME NEW m, NEW brk, NEW S, NEW lo, NEW h, HeapAt(m, brk, S, lo, h), lo \in S,
         NEW m2 \in Memory,
         \A p \in Addr : p < lo - 4 \/ p > (lo + h) - 4 => m2[p] = m[p],
         PrevAllocated(m2, lo) <=> PrevAllocated(m, lo),
         Size(m2, lo + h) = Size(m, lo + h), Allocated(m2, lo + h) <=> Allocated(m, lo + h)
  PROVE  /\ HeapAt(m2, brk, S, lo, h)
         /\ Used(m2, brk, S, lo) = Used(m, brk, S, lo)
         /\ Spares(m, m2, Used(m, brk, S, lo))
<1>0. /\ Walls(m, brk, S, lo, h) /\ lo \in Nat /\ h \in Nat /\ lo >= 40
      /\ lo + h \in S /\ lo + h # lo /\ lo + h \in Nat /\ h >= 16
      /\ lo \in S \ {class_listp, brk}
  BY HoleSays
<1>1. \A c \in S : c \in Nat /\ c - 4 \in Addr
  BY <1>0, WallsSay, BlockWords
<1>2. \A c \in S \ {lo} : c < lo \/ lo + h <= c
  <2>1. Extent(m, lo, h, lo) = h
    BY DEF Extent
  <2>2. \A c \in S : c <= lo \/ lo + h <= c
    BY <1>0, <2>1 DEF Walls
  <2> QED
    BY <2>2, <1>0, <1>1
<1>3. \A c \in S \ {lo, lo + h} : Header(m2, c) = Header(m, c)
  <2> SUFFICES ASSUME NEW c \in S \ {lo, lo + h} PROVE m2[c - 4] = m[c - 4]
    BY DEF Header, WSIZE
  <2>1. c - 4 < lo - 4 \/ c - 4 > (lo + h) - 4
    BY <1>0, <1>1, <1>2
  <2> QED
    BY <2>1, <1>1
<1>4. \A c \in S \ {lo} : Size(m2, c) = Size(m, c) /\ (Allocated(m2, c) <=> Allocated(m, c))
  BY <1>3 DEF Size, Allocated
<1>5. \A c \in S : c = lo + h \/ (PrevAllocated(m2, c) <=> PrevAllocated(m, c))
  BY <1>3 DEF PrevAllocated
<1>6. m2[12] = m[12] /\ \A k \in Classes : m2[k] = m[k]
  <2>1. 12 \in Addr /\ Classes \subseteq Addr
    BY <1>0, BlockWords
  <2>2. \A k \in Classes : k \in Nat /\ k <= 32
    BY DEF Classes, class_listp, WSIZE, CLASS_SIZE
  <2> QED
    BY <2>1, <2>2, <1>0
<1>7. \A c \in S \ {brk, lo} :
         /\ c \in Nat /\ Size(m, c) \in Nat /\ Size(m, c) >= 16
         /\ c + Size(m, c) <= lo \/ lo + h <= c
         /\ NEXT_BLKP(m, c) = c + Size(m, c)
         /\ c \in Addr /\ c + 4 \in Addr /\ c + Size(m, c) - 8 \in Addr
  <2> SUFFICES ASSUME NEW c \in S \ {brk, lo}
               PROVE  /\ c \in Nat /\ Size(m, c) \in Nat /\ Size(m, c) >= 16
                      /\ c + Size(m, c) <= lo \/ lo + h <= c
                      /\ NEXT_BLKP(m, c) = c + Size(m, c)
                      /\ c \in Addr /\ c + 4 \in Addr /\ c + Size(m, c) - 8 \in Addr
    OBVIOUS
  <2>1. /\ Size(m, c) \in Nat /\ Size(m, c) >= 16 /\ Extent(m, lo, h, c) = Size(m, c)
        /\ NEXT_BLKP(m, c) = c + Size(m, c)
    BY <1>0, Nexts
  <2>2. \A d \in S : d <= c \/ c + Extent(m, lo, h, c) <= d
    BY <1>0 DEF Walls
  <2>3. c + Size(m, c) <= lo \/ lo + h <= c
    BY <2>1, <2>2, <1>0, <1>1, <1>2
  <2> QED
    BY <2>1, <2>3, <1>0, <1>1, BlockWords
<1>8. ASSUME NEW c \in FreeIn(m, brk, S, lo)
      PROVE  /\ Pred(m2, c) = Pred(m, c) /\ Succ(m2, c) = Succ(m, c)
             /\ m2[NEXT_BLKP(m, c) - DSIZE] = m[NEXT_BLKP(m, c) - DSIZE]
  <2>1. c \in S \ {brk, lo}
    BY DEF FreeIn
  <2>2. /\ c \in Addr /\ c \in Nat /\ c + 4 \in Addr /\ c + Size(m, c) - 8 \in Addr
        /\ Size(m, c) \in Nat /\ Size(m, c) >= 16
        /\ c + Size(m, c) <= lo \/ lo + h <= c
        /\ NEXT_BLKP(m, c) = c + Size(m, c)
    BY <2>1, <1>7
  <2>3. m2[c] = m[c] /\ m2[c + 4] = m[c + 4]
    BY <2>2, <1>0
  <2>4. /\ NEXT_BLKP(m, c) - DSIZE = c + Size(m, c) - 8
        /\ m2[c + Size(m, c) - 8] = m[c + Size(m, c) - 8]
    BY <2>2, <1>0 DEF DSIZE
  <2> QED
    BY <2>3, <2>4 DEF Pred, Succ, WSIZE
<1>9. HeapAt(m2, brk, S, lo, h)
  BY <1>4, <1>5, <1>6, <1>8, HeapSeen
<1>10. Used(m2, brk, S, lo) = Used(m, brk, S, lo)
  BY <1>4 DEF Used
<1>11. ASSUME NEW c \in Used(m, brk, S, lo) PROVE Intact(m, m2, c)
  <2>1. c \in S \ {brk, lo}
    BY DEF Used
  <2>2. \A p \in Addr : c <= p /\ p <= c + Size(m, c) - 8 => m2[p] = m[p]
    BY <2>1, <1>7, <1>0, AddrIs
  <2> QED
    BY <2>1, <2>2, <1>4 DEF Intact, DSIZE
<1> QED
  BY <1>9, <1>10, <1>11 DEF Spares

(* m2 has another header at bp, and is otherwise m.                        *)
Tagged(m, m2, bp, size, flags) ==
    /\ m2 \in Memory /\ Size(m2, bp) = size
    /\ Allocated(m2, bp) <=> flags \in {1, 3}
    /\ PrevAllocated(m2, bp) <=> flags \in {2, 3}
    /\ \A p \in Addr : p # bp - 4 => m2[p] = m[p]

(* What a header that is written says, and what it leaves alone. *)
LEMMA PutHeaderReads ==
  ASSUME NEW m \in Memory, NEW bp \in Nat, bp - 4 \in Addr,
         NEW size \in Nat, size % 8 = 0, NEW flags \in 0 .. 3,
         NEW m2, m2 = PutHeader(m, bp, size, flags)
  PROVE  Tagged(m, m2, bp, size, flags)
<1>1. /\ m2 \in Memory /\ m2[bp - 4] = size + flags
      /\ \A p \in Addr : p # bp - 4 => m2[p] = m[p]
  BY DEF PutHeader, PUT, WSIZE, Memory
<1> QED
  BY <1>1, HeaderReads DEF Tagged, Size, Allocated, PrevAllocated, Header, WSIZE

(* m2 has the two tags of a free block at bp, and is otherwise m.          *)
FreeTagged(m, m2, bp, size, palloc) ==
    /\ m2 \in Memory /\ Size(m2, bp) = size /\ ~Allocated(m2, bp)
    /\ PrevAllocated(m2, bp) <=> palloc = 2
    /\ m2[(bp + size) - DSIZE] = size
    /\ \A p \in Addr : p # bp - 4 /\ p # bp + size - 8 => m2[p] = m[p]

(* PutFree writes those. *)
LEMMA PutFreeReads ==
  ASSUME NEW m \in Memory, NEW bp \in Nat, bp - 4 \in Addr,
         NEW size \in Nat, size % 8 = 0, bp + size - 8 \in Addr, size >= 16,
         NEW palloc \in {0, 2}, NEW m2, m2 = PutFree(m, bp, size, palloc)
  PROVE  FreeTagged(m, m2, bp, size, palloc)
<1> DEFINE q == bp + size - 8
<1>0. PICK t : t = PutHeader(m, bp, size, palloc)
  OBVIOUS
<1>1. /\ t \in Memory /\ Size(t, bp) = size /\ ~Allocated(t, bp)
      /\ PrevAllocated(t, bp) <=> palloc = 2
      /\ \A p \in Addr : p # bp - 4 => t[p] = m[p]
  <2>1. palloc \in 0 .. 3 /\ palloc \notin {1, 3} /\ (palloc \in {2, 3} <=> palloc = 2)
    OBVIOUS
  <2>2. /\ t \in Memory /\ Size(t, bp) = size
        /\ Allocated(t, bp) <=> palloc \in {1, 3}
        /\ PrevAllocated(t, bp) <=> palloc \in {2, 3}
        /\ \A p \in Addr : p # bp - 4 => t[p] = m[p]
    <3>1. /\ t \in Memory /\ t[bp - 4] = size + palloc
          /\ \A p \in Addr : p # bp - 4 => t[p] = m[p]
      BY <1>0 DEF PutHeader, PUT, WSIZE, Memory
    <3> QED
      BY <2>1, <3>1, HeaderReads DEF Size, Allocated, PrevAllocated, Header, WSIZE
  <2> QED
    BY <2>1, <2>2
<1>2. m2 = [t EXCEPT ![q] = size]
  BY <1>0, <1>1 DEF PutFree, PutFooter, PUT, DSIZE
<1>3. q \in Addr /\ q # bp - 4 /\ q = (bp + size) - 8
  OBVIOUS
<1> HIDE DEF q
<1>4. m2 \in Memory /\ m2[q] = size /\ \A p \in Addr : p # q => m2[p] = t[p]
  BY <1>1, <1>2, <1>3 DEF Memory
<1>5. Header(m2, bp) = Header(t, bp)
  BY <1>3, <1>4 DEF Header, WSIZE
<1>6. /\ Size(m2, bp) = size /\ ~Allocated(m2, bp)
      /\ PrevAllocated(m2, bp) <=> palloc = 2
  BY <1>1, <1>5 DEF Size, Allocated, PrevAllocated
<1>7. \A p \in Addr : p # bp - 4 /\ p # q => m2[p] = m[p]
  BY <1>1, <1>4
<1> QED
  BY <1>3, <1>4, <1>6, <1>7 DEF q, DSIZE, FreeTagged

(* A free block has an allocated one in front and one behind.              *)
LEMMA FreeStandsAlone ==
  ASSUME NEW m, NEW brk, NEW S, NEW lo, NEW h, HeapAt(m, brk, S, lo, h),
         NEW b \in FreeIn(m, brk, S, lo)
  PROVE  /\ b # lo + h \/ lo \notin S => PrevAllocated(m, b)
         /\ NEXT_BLKP(m, b) # lo => Allocated(m, NEXT_BLKP(m, b))
<1>0. Walls(m, brk, S, lo, h) /\ Tags(m, brk, S, lo)
  BY DEF HeapAt
<1>1. b \in S \ {class_listp, brk} /\ b # lo /\ ~Allocated(m, b)
  BY <1>0, FreeIsLater DEF FreeIn
<1>2. ASSUME b # lo + h \/ lo \notin S PROVE PrevAllocated(m, b)
  <2>1. PICK p \in S \ {brk, lo} :
           NEXT_BLKP(m, p) = b /\ (Allocated(m, p) <=> PrevAllocated(m, b))
    BY <1>0, <1>1, <1>2, BeforeHole
  <2> QED
    BY <1>0, <1>1, <2>1 DEF Tags
<1>3. NEXT_BLKP(m, b) # lo => Allocated(m, NEXT_BLKP(m, b))
  BY <1>0, <1>1 DEF Tags
<1> QED
  BY <1>2, <1>3

(* In front of a hole there is a block, of which the hole knows.           *)
LEMMA InFrontOfHole ==
  ASSUME NEW m, NEW brk, NEW S, NEW lo, NEW h, HeapAt(m, brk, S, lo, h), lo \in S
  PROVE  \E p \in S \ {brk, lo} :
            NEXT_BLKP(m, p) = lo /\ (Allocated(m, p) <=> PrevAllocated(m, lo))
<1>1. /\ Walls(m, brk, S, lo, h) /\ Tags(m, brk, S, lo)
      /\ lo \in S \ {class_listp} /\ lo # lo + h
  BY HoleSays
<1> QED
  BY <1>1, BeforeHole

(* Where coalesce begins: at the block in front, when that is free.        *)
Began(m, u, brk, S, lo, h, first, g) ==
    \E T \in SUBSET S :
        /\ HeapAt(u, brk, T, first, g) /\ first \in T /\ first + g = lo + h /\ g >= h
        /\ SameHeaders(m, u, S) /\ PrevAllocated(m, first)
        /\ Used(u, brk, T, first) = Used(m, brk, S, lo)
        /\ Spares(m, u, Used(m, brk, S, lo))

(* The part of coalesce that is about the block in front.                  *)
LEMMA CoalesceDown ==
  ASSUME NEW m, NEW brk, NEW S, NEW lo, NEW h, HeapAt(m, brk, S, lo, h), lo \in S,
         NEW first, first = coalesceBefore(m, lo),
         NEW g, g = h + (IF first # lo THEN Size(m, first) ELSE 0),
         NEW u, u = (IF first # lo THEN unjoin(m, first) ELSE m)
  PROVE  Began(m, u, brk, S, lo, h, first, g)
<1>0. /\ Walls(m, brk, S, lo, h) /\ Tags(m, brk, S, lo) /\ lo + h # lo
      /\ lo \in S \ {class_listp, brk} /\ lo \in Nat /\ h \in Nat
  BY HoleSays
<1>1. CASE PrevAllocated(m, lo)
  <2>1. first = lo /\ g = h /\ u = m
    BY <1>0, <1>1 DEF coalesceBefore
  <2>2. SameHeaders(m, u, S) /\ Spares(m, u, Used(m, brk, S, lo))
    BY <2>1 DEF SameHeaders, Spares, Intact
  <2> QED
    BY <2>1, <2>2, <1>0, <1>1 DEF Began
<1>2. CASE ~PrevAllocated(m, lo)
  <2>1. PICK p \in S \ {brk, lo} :
           NEXT_BLKP(m, p) = lo /\ (Allocated(m, p) <=> PrevAllocated(m, lo))
    BY InFrontOfHole
  <2>2. p \in FreeIn(m, brk, S, lo)
    BY <2>1, <1>2 DEF FreeIn
  <2>3. /\ Size(m, p) \in Nat /\ Size(m, p) % 8 = 0 /\ NEXT_BLKP(m, p) = p + Size(m, p)
        /\ p \in Nat /\ p # lo + h /\ Size(m, p) >= 16
    BY <1>0, <2>1, Nexts, WallsSay
  <2>4. m[lo - DSIZE] = Size(m, p)
    BY <2>1, <2>2, <1>0 DEF Tags, FreeIn
  <2>5. first = p
    BY <2>1, <2>3, <2>4, <1>0, <1>2 DEF coalesceBefore, PREV_BLKP, SIZE
  <2>6. g = Size(m, p) + h /\ u = unjoin(m, p) /\ p + g = lo + h
    BY <2>5, <2>1, <2>3, <1>0
  <2>7. /\ HeapAt(u, brk, S \ {lo}, p, Size(m, p) + h) /\ SameHeaders(m, u, S)
        /\ Used(u, brk, S \ {lo}, p) = Used(m, brk, S, lo)
        /\ Spares(m, u, Used(m, brk, S, lo))
    BY <2>1, <2>2, <2>6, <1>0, WidenDown
  <2>8. PrevAllocated(m, p)
    BY <2>2, <2>3, FreeStandsAlone
  <2>9. S \ {lo} \in SUBSET S /\ p \in S \ {lo} /\ g >= h
    BY <2>1, <2>3, <2>6, <1>0
  <2> QED
    BY <2>5, <2>6, <2>7, <2>8, <2>9 DEF Began
<1> QED
  BY <1>1, <1>2

(* Where it ends: behind the block behind, when that is free.              *)
Ended(m, u, brk, S, lo, h, g) ==
    \E T \in SUBSET S :
        /\ HeapAt(u, brk, T, lo, g) /\ lo \in T /\ g >= h
        /\ SameHeaders(m, u, S) /\ Allocated(u, lo + g) /\ ~PrevAllocated(u, lo + g)
        /\ Used(u, brk, T, lo) = Used(m, brk, S, lo)
        /\ Spares(m, u, Used(m, brk, S, lo))

(* And the part that is about the block behind.                            *)
LEMMA CoalesceUp ==
  ASSUME NEW m, NEW brk, NEW S, NEW lo, NEW h, HeapAt(m, brk, S, lo, h), lo \in S,
         NEW n, n = lo + h, ~PrevAllocated(m, n),
         NEW g, g = h + (IF ~Allocated(m, n) THEN Size(m, n) ELSE 0),
         NEW u, u = (IF ~Allocated(m, n) THEN unjoin(m, n) ELSE m)
  PROVE  Ended(m, u, brk, S, lo, h, g)
<1>0. /\ Walls(m, brk, S, lo, h) /\ Tags(m, brk, S, lo) /\ n # lo /\ n \in S
      /\ lo \in S \ {class_listp, brk} /\ lo \in Nat /\ h \in Nat /\ n \in Nat /\ h >= 16
  BY HoleSays
<1>1. CASE Allocated(m, n)
  <2>1. g = h /\ u = m
    BY <1>0, <1>1
  <2>2. SameHeaders(m, u, S) /\ Spares(m, u, Used(m, brk, S, lo))
    BY <2>1 DEF SameHeaders, Spares, Intact
  <2> QED
    BY <2>1, <2>2, <1>0, <1>1 DEF Ended
<1>2. CASE ~Allocated(m, n)
  <2>1. n # brk
    BY <1>0, <1>2 DEF Walls
  <2>2. n \in FreeIn(m, brk, S, lo)
    BY <2>1, <1>0, <1>2 DEF FreeIn
  <2>3. /\ Size(m, n) \in Nat /\ NEXT_BLKP(m, n) = n + Size(m, n) /\ Size(m, n) >= 16
        /\ NEXT_BLKP(m, n) \in S
    BY <2>1, <1>0, Nexts
  <2>4. g = h + Size(m, n) /\ u = unjoin(m, n) /\ lo + g = NEXT_BLKP(m, n) /\ g >= h
    BY <2>3, <1>0, <1>2
  <2>5. /\ HeapAt(u, brk, S \ {n}, lo, h + Size(m, n)) /\ SameHeaders(m, u, S)
        /\ Used(u, brk, S \ {n}, lo) = Used(m, brk, S, lo)
        /\ Spares(m, u, Used(m, brk, S, lo))
    BY <2>2, <2>4, WidenUp
  <2>6. Allocated(m, NEXT_BLKP(m, n)) /\ ~PrevAllocated(m, NEXT_BLKP(m, n))
    <3>1. NEXT_BLKP(m, n) # lo
      BY <2>3, <1>0
    <3> QED
      BY <3>1, <2>1, <2>2, <1>0, <1>2 DEF Tags
  <2>7. Allocated(u, lo + g) /\ ~PrevAllocated(u, lo + g)
    BY <2>3, <2>4, <2>5, <2>6, HeadersSay
  <2>8. S \ {n} \in SUBSET S /\ lo \in S \ {n}
    BY <1>0
  <2> QED
    BY <2>4, <2>5, <2>7, <2>8 DEF Ended
<1> QED
  BY <1>1, <1>2

(* A heap without a hole, in which nothing of the blocks A has changed,    *)
(* and all that is allocated is in them.                                   *)
Heaped(m, j, brk, T, A) ==
    /\ HeapAt(j, brk, T, 0, 0) /\ Used(j, brk, T, 0) = A /\ Spares(m, j, A)

(* A hole that is made one free block. *)
LEMMA Freed ==
  ASSUME NEW m, NEW brk, NEW S, NEW lo, NEW h, HeapAt(m, brk, S, lo, h), lo \in S,
         PrevAllocated(m, lo), Allocated(m, lo + h), ~PrevAllocated(m, lo + h),
         NEW f, f = PutFree(m, lo, h, PALLOC), NEW j, j = join(f, lo)
  PROVE  /\ Heaped(m, j, brk, S, Used(m, brk, S, lo))
         /\ lo \in FreeIn(j, brk, S, 0) /\ Size(j, lo) = h
<1>0. /\ Walls(m, brk, S, lo, h) /\ lo \in Nat /\ h \in Nat /\ h >= 16 /\ h % 8 = 0
      /\ lo + h \in S /\ lo \in S \ {class_listp, brk} /\ lo >= 40 /\ lo + h \in Nat
  BY HoleSays
<1>1. /\ m \in Memory /\ lo - 4 \in Addr /\ lo + h - 8 \in Addr /\ (lo + h) - 4 \in Addr
  <2>1. Extent(m, lo, h, lo) = h
    BY DEF Extent
  <2> QED
    BY <2>1, <1>0, BlockWords, WallsSay
<1>2. /\ f \in Memory /\ Size(f, lo) = h /\ ~Allocated(f, lo) /\ PrevAllocated(f, lo)
      /\ f[(lo + h) - DSIZE] = h
      /\ \A p \in Addr : p # lo - 4 /\ p # lo + h - 8 => f[p] = m[p]
  <2>1. PICK palloc \in {0, 2} : palloc = PALLOC
    BY DEF PALLOC
  <2>2. FreeTagged(m, f, lo, h, palloc)
    BY <1>0, <1>1, <2>1, PutFreeReads
  <2> QED
    BY <2>1, <2>2 DEF PALLOC, FreeTagged
<1>3. Header(f, lo + h) = Header(m, lo + h)
  <2>1. (lo + h) - 4 # lo - 4 /\ (lo + h) - 4 # lo + h - 8
    BY <1>0
  <2> QED
    BY <2>1, <1>1, <1>2 DEF Header, WSIZE
<1>4. /\ Size(f, lo + h) = Size(m, lo + h)
      /\ Allocated(f, lo + h) /\ ~PrevAllocated(f, lo + h)
      /\ Allocated(f, lo + h) <=> Allocated(m, lo + h)
  BY <1>3 DEF Size, Allocated, PrevAllocated
<1>5. \A p \in Addr : p < lo - 4 \/ p > (lo + h) - 4 => f[p] = m[p]
  <2>1. \A p \in Addr : p < lo - 4 \/ p > (lo + h) - 4 => p # lo - 4 /\ p # lo + h - 8
    BY <1>0, AddrIs
  <2> QED
    BY <2>1, <1>2
<1>6. /\ HeapAt(f, brk, S, lo, h) /\ Used(f, brk, S, lo) = Used(m, brk, S, lo)
      /\ Spares(m, f, Used(m, brk, S, lo))
  BY <1>2, <1>4, <1>5, HoleWritten
<1>7. /\ HeapAt(j, brk, S, 0, 0) /\ SameHeaders(f, j, S)
      /\ Used(j, brk, S, 0) = Used(f, brk, S, lo)
      /\ Spares(f, j, Used(f, brk, S, lo)) /\ lo \in FreeIn(j, brk, S, 0)
  BY <1>2, <1>4, <1>6, CloseFree
<1>8. Spares(m, j, Used(m, brk, S, lo))
  BY <1>6, <1>7, SparesTwice
<1>9. Size(j, lo) = h
  BY <1>2, <1>7, HeadersSay
<1> QED
  BY <1>6, <1>7, <1>8, <1>9 DEF Heaped

(* coalesce makes a hole that says its size, and of which the block behind *)
(* has been told, a free block, or part of one.                            *)
Merged(m, r, brk, A, h) ==
    \E T : /\ Heaped(m, r.mem, brk, T, A)
           /\ r.bp \in FreeIn(r.mem, brk, T, 0) /\ Size(r.mem, r.bp) >= h

(* So much for coalesce, which is both.                                    *)
LEMMA Coalesced ==
  ASSUME NEW m, NEW brk, NEW S, NEW lo, NEW h, HeapAt(m, brk, S, lo, h), lo \in S,
         Size(m, lo) = h, ~PrevAllocated(m, lo + h), NEW r, r = coalesce(m, lo)
  PROVE  Merged(m, r, brk, Used(m, brk, S, lo), h)
<1>0. /\ Walls(m, brk, S, lo, h) /\ lo \in Nat /\ h \in Nat /\ lo + h \in S
  BY HoleSays
<1>1. PICK first : first = coalesceBefore(m, lo)
  OBVIOUS
<1>2. PICK m1 : m1 = (IF first # lo THEN unjoin(m, first) ELSE m)
  OBVIOUS
<1>3. PICK g1 : g1 = h + (IF first # lo THEN Size(m, first) ELSE 0)
  OBVIOUS
<1>4. Began(m, m1, brk, S, lo, h, first, g1)
  BY <1>1, <1>2, <1>3, CoalesceDown
<1>5. PICK T \in SUBSET S :
        /\ HeapAt(m1, brk, T, first, g1) /\ first \in T /\ first + g1 = lo + h /\ g1 >= h
        /\ SameHeaders(m, m1, S) /\ PrevAllocated(m, first)
        /\ Used(m1, brk, T, first) = Used(m, brk, S, lo)
        /\ Spares(m, m1, Used(m, brk, S, lo))
  BY <1>4 DEF Began
<1>6. PICK n : n = first + g1
  OBVIOUS
<1>7. /\ Allocated(m1, n) <=> Allocated(m, n)
      /\ PrevAllocated(m1, n) <=> PrevAllocated(m, n)
      /\ Size(m1, n) = Size(m, n) /\ PrevAllocated(m1, first) /\ n = lo + h
  BY <1>0, <1>5, <1>6, HeadersSay
<1>8. PICK m2 : m2 = (IF ~Allocated(m1, n) THEN unjoin(m1, n) ELSE m1)
  OBVIOUS
<1>9. PICK g2 : g2 = g1 + (IF ~Allocated(m1, n) THEN Size(m1, n) ELSE 0)
  OBVIOUS
<1>10. Ended(m1, m2, brk, T, first, g1, g2)
  BY <1>5, <1>6, <1>7, <1>8, <1>9, CoalesceUp
<1>11. PICK V \in SUBSET T :
        /\ HeapAt(m2, brk, V, first, g2) /\ first \in V /\ g2 >= g1
        /\ SameHeaders(m1, m2, T) /\ Allocated(m2, first + g2)
        /\ ~PrevAllocated(m2, first + g2)
        /\ Used(m2, brk, V, first) = Used(m1, brk, T, first)
        /\ Spares(m1, m2, Used(m1, brk, T, first))
  BY <1>10 DEF Ended
<1>12. PrevAllocated(m2, first)
  BY <1>5, <1>7, <1>11, HeadersSay
<1>13. PICK f : f = PutFree(m2, first, g2, PALLOC)
  OBVIOUS
<1>14. PICK j : j = join(f, first)
  OBVIOUS
<1>15. /\ Heaped(m2, j, brk, V, Used(m2, brk, V, first))
       /\ first \in FreeIn(j, brk, V, 0) /\ Size(j, first) = g2
  BY <1>11, <1>12, <1>13, <1>14, Freed
<1>16. r = [mem |-> j, bp |-> first]
  <2>1. NEXT_BLKP(m, lo) = n
    BY <1>7 DEF NEXT_BLKP
  <2>2. m2 = IF ~Allocated(m, n) THEN unjoin(m1, n) ELSE m1
    BY <1>7, <1>8
  <2>3. g2 = Size(m, lo) + (IF first # lo THEN Size(m, first) ELSE 0)
                         + (IF ~Allocated(m, n) THEN Size(m, n) ELSE 0)
    BY <1>3, <1>7, <1>9
  <2> QED
    BY <2>1, <2>2, <2>3, <1>1, <1>2, <1>13, <1>14 DEF coalesce
<1>17. Heaped(m, j, brk, V, Used(m, brk, S, lo))
  BY <1>5, <1>11, <1>15, SparesTwice DEF Heaped
<1>18. g2 >= h
  BY <1>5, <1>11, <1>0, HoleSays
<1> QED
  BY <1>15, <1>16, <1>17, <1>18 DEF Merged
-----------------------------------------------------------------------------
(* 5. mm_free.                                                             *)

(* A size is no negative number, that of the epilogue is 0.                *)
LEMMA SizeNat ==
  ASSUME NEW m, NEW brk, NEW S, NEW lo, NEW h, Walls(m, brk, S, lo, h)
  PROVE  \A c \in S \ {lo} : Size(m, c) \in Nat /\ Size(m, c) % 8 = 0
<1>1. Size(m, brk) = 0
  BY DEF Walls
<1> QED
  BY <1>1, Nexts

(* mm_free, of a hole that says its size and whether the block in front is *)
(* allocated.  Its tags are written, and the next block hears of it.       *)
Told(m, t, brk, S, lo, h) ==
    /\ HeapAt(t, brk, S, lo, h) /\ Size(t, lo) = h /\ ~PrevAllocated(t, lo + h)
    /\ Used(t, brk, S, lo) = Used(m, brk, S, lo) /\ Spares(m, t, Used(m, brk, S, lo))

(* It says its size then, and the next block that it is free.              *)
LEMMA FreeTold ==
  ASSUME NEW m, NEW brk, NEW S, NEW lo, NEW h, HeapAt(m, brk, S, lo, h), lo \in S,
         Size(m, lo) = h, NEW next, next = lo + h,
         NEW t, t = PutHeader(PutFree(m, lo, h, PallocFlag(m, lo)), next, Size(m, next),
                              IF Allocated(m, next) THEN ALLOC ELSE 0)
  PROVE  Told(m, t, brk, S, lo, h)
<1>0. /\ Walls(m, brk, S, lo, h) /\ lo \in Nat /\ h \in Nat /\ h >= 16 /\ h % 8 = 0
      /\ lo + h \in S /\ lo \in S \ {class_listp, brk} /\ lo >= 40 /\ lo + h \in Nat
      /\ lo + h # lo
  BY HoleSays
<1>1. /\ m \in Memory /\ lo - 4 \in Addr /\ lo + h - 8 \in Addr /\ (lo + h) - 4 \in Addr
  <2>1. Extent(m, lo, h, lo) = h
    BY DEF Extent
  <2> QED
    BY <2>1, <1>0, BlockWords, WallsSay
<1>3. Size(m, next) \in Nat /\ Size(m, next) % 8 = 0
  BY <1>0, SizeNat
<1>4. PICK palloc \in {0, 2} : palloc = PallocFlag(m, lo)
  BY DEF PallocFlag, PALLOC
<1>5. PICK f : f = PutFree(m, lo, h, palloc)
  OBVIOUS
<1>6. FreeTagged(m, f, lo, h, palloc)
  BY <1>0, <1>1, <1>5, PutFreeReads
<1>7. f \in Memory
  BY <1>6 DEF FreeTagged
<1>8. PICK flags \in 0 .. 3 : flags = IF Allocated(m, next) THEN ALLOC ELSE 0
  BY DEF ALLOC
<1>9. t = PutHeader(f, next, Size(m, next), flags)
  BY <1>4, <1>5, <1>8
<1>10. Tagged(f, t, next, Size(m, next), flags)
  BY <1>0, <1>1, <1>3, <1>7, <1>9, PutHeaderReads
<1>11. /\ t \in Memory /\ Size(t, lo) = h
       /\ PrevAllocated(t, lo) <=> PrevAllocated(m, lo)
       /\ Size(t, lo + h) = Size(m, lo + h) /\ ~PrevAllocated(t, lo + h)
       /\ Allocated(t, lo + h) <=> Allocated(m, lo + h)
  <2>1. flags \in {0, 1} /\ (flags \in {1, 3} <=> Allocated(m, next)) /\ flags \notin {2, 3}
    BY <1>8 DEF ALLOC
  <2>2. Header(t, lo) = Header(f, lo)
    BY <1>0, <1>1, <1>10 DEF Header, WSIZE, Tagged
  <2>3. Size(t, lo) = h /\ (PrevAllocated(t, lo) <=> palloc = 2)
    BY <2>2, <1>6 DEF Size, PrevAllocated, FreeTagged
  <2>4. palloc = 2 <=> PrevAllocated(m, lo)
    BY <1>4 DEF PallocFlag, PALLOC
  <2>5. /\ t \in Memory /\ Size(t, next) = Size(m, next) /\ ~PrevAllocated(t, next)
        /\ Allocated(t, next) <=> Allocated(m, next)
    BY <2>1, <1>10 DEF Tagged
  <2> QED
    BY <2>3, <2>4, <2>5
<1>12. \A p \in Addr : p < lo - 4 \/ p > (lo + h) - 4 => t[p] = m[p]
  <2> SUFFICES ASSUME NEW p \in Addr, p < lo - 4 \/ p > (lo + h) - 4 PROVE t[p] = m[p]
    OBVIOUS
  <2>1. p # next - 4 /\ p # lo - 4 /\ p # lo + h - 8
    BY <1>0, AddrIs
  <2> QED
    BY <2>1, <1>6, <1>10 DEF Tagged, FreeTagged
<1>13. /\ HeapAt(t, brk, S, lo, h) /\ Used(t, brk, S, lo) = Used(m, brk, S, lo)
       /\ Spares(m, t, Used(m, brk, S, lo))
  BY <1>11, <1>12, HoleWritten
<1> QED
  BY <1>11, <1>13 DEF Told

(* Then it is coalesced. *)
ReleasedTo(m, j, brk, A) == \E T : Heaped(m, j, brk, T, A)

(* It makes the hole a free block.                                         *)
LEMMA FreeHole ==
  ASSUME NEW m, NEW brk, NEW S, NEW lo, NEW h, HeapAt(m, brk, S, lo, h), lo \in S,
         Size(m, lo) = h, NEW j, j = mm_free(m, lo)
  PROVE  ReleasedTo(m, j, brk, Used(m, brk, S, lo))
<1>0. lo + h \in Nat
  BY HoleSays
<1>1. PICK next : next = lo + h
  OBVIOUS
<1>2. PICK t : t = PutHeader(PutFree(m, lo, h, PallocFlag(m, lo)), next, Size(m, next),
                             IF Allocated(m, next) THEN ALLOC ELSE 0)
  OBVIOUS
<1>3. Told(m, t, brk, S, lo, h)
  BY <1>1, <1>2, FreeTold
<1>4. /\ HeapAt(t, brk, S, lo, h) /\ Size(t, lo) = h /\ ~PrevAllocated(t, lo + h)
      /\ Used(t, brk, S, lo) = Used(m, brk, S, lo) /\ Spares(m, t, Used(m, brk, S, lo))
  BY <1>3 DEF Told
<1>5. PICK r : r = coalesce(t, lo)
  OBVIOUS
<1>6. Merged(t, r, brk, Used(t, brk, S, lo), h)
  BY <1>4, <1>5, Coalesced
<1>7. NEXT_BLKP(m, lo) = next
  BY <1>1 DEF NEXT_BLKP
<1>8. j = r.mem
  BY <1>2, <1>5, <1>7 DEF mm_free
<1>9. PICK T : Heaped(t, j, brk, T, Used(t, brk, S, lo))
  BY <1>6, <1>8 DEF Merged
<1>10. Heaped(m, j, brk, T, Used(m, brk, S, lo))
  BY <1>4, <1>9, SparesTwice DEF Heaped
<1> QED
  BY <1>10 DEF ReleasedTo

(* mm_free of an allocated block.                                          *)
LEMMA FreeUsed ==
  ASSUME NEW m, NEW brk, NEW S, HeapAt(m, brk, S, 0, 0), NEW b \in Used(m, brk, S, 0),
         NEW j, j = mm_free(m, b)
  PROVE  ReleasedTo(m, j, brk, Used(m, brk, S, 0) \ {b})
<1>1. /\ HeapAt(m, brk, S, b, Size(m, b))
      /\ Used(m, brk, S, b) = Used(m, brk, S, 0) \ {b} /\ b \in S
  BY OpenUsed DEF Used
<1> QED
  BY <1>1, FreeHole
-----------------------------------------------------------------------------
(* 6. place.                                                               *)

(* The words of a hole and the headers at its ends. *)
LEMMA HoleWords ==
  ASSUME NEW m, NEW brk, NEW S, NEW lo, NEW h, HeapAt(m, brk, S, lo, h), lo \in S
  PROVE  /\ m \in Memory /\ lo - 4 \in Addr /\ lo + h - 8 \in Addr /\ (lo + h) - 4 \in Addr
         /\ MAX_HEAP \in Nat /\ Size(m, lo + h) \in Nat /\ Size(m, lo + h) % 8 = 0
         /\ \A x \in Nat : x % 8 = 0 /\ lo <= x /\ x <= lo + h => x - 4 \in Addr
<1>0. /\ Walls(m, brk, S, lo, h) /\ lo \in Nat /\ h \in Nat /\ lo >= 40
      /\ lo + h \in S /\ lo \in S \ {class_listp, brk} /\ lo + h <= brk /\ brk <= MAX_HEAP
      /\ brk \in Nat /\ lo + h # lo
  BY HoleSays
<1>1. Extent(m, lo, h, lo) = h
  BY DEF Extent
<1>2. MAX_HEAP \in Nat
  BY HeapAssumption
<1>3. \A x \in Nat : x % 8 = 0 /\ lo <= x /\ x <= lo + h => x - 4 \in Addr
  <2> SUFFICES ASSUME NEW x \in Nat, x % 8 = 0, lo <= x, x <= lo + h PROVE x - 4 \in Addr
    OBVIOUS
  <2>1. x - 4 \in Nat /\ (x - 4) % 4 = 0 /\ (x - 4) + 4 <= MAX_HEAP
    BY <1>0, <1>2
  <2> QED
    BY <2>1, IsAddr
<1> QED
  BY <1>0, <1>1, <1>2, <1>3, BlockWords, WallsSay, SizeNat

(* A hole that is cut: its first a bytes become an allocated block.        *)
Cut(m, m2, brk, S, lo, h, a) ==
    /\ HeapAt(m2, brk, S \cup {lo + a}, lo + a, h - a) /\ lo + a \in S \cup {lo + a}
    /\ Used(m2, brk, S \cup {lo + a}, lo + a) = Used(m, brk, S, lo) \cup {lo}
    /\ Spares(m, m2, Used(m, brk, S, lo))

(* Then a smaller hole is left behind that block.                          *)
LEMMA HoleCut ==
  ASSUME NEW m, NEW brk, NEW S, NEW lo, NEW h, HeapAt(m, brk, S, lo, h), lo \in S,
         NEW a \in Nat, a % 8 = 0, a >= 16, h - a >= 16, NEW m2 \in Memory,
         \A p \in Addr : p < lo - 4 \/ p > (lo + h) - 4 => m2[p] = m[p],
         PrevAllocated(m2, lo) <=> PrevAllocated(m, lo),
         Header(m2, lo + h) = Header(m, lo + h),
         Size(m2, lo) = a, Allocated(m2, lo), PrevAllocated(m2, lo + a)
  PROVE  Cut(m, m2, brk, S, lo, h, a)
<1>1. /\ Size(m2, lo + h) = Size(m, lo + h)
      /\ Allocated(m2, lo + h) <=> Allocated(m, lo + h)
  BY DEF Size, Allocated
<1>2. /\ HeapAt(m2, brk, S, lo, h) /\ Used(m2, brk, S, lo) = Used(m, brk, S, lo)
      /\ Spares(m, m2, Used(m, brk, S, lo))
  BY <1>1, HoleWritten
<1>3. PICK x : x = lo + a
  OBVIOUS
<1>4. /\ HeapAt(m2, brk, S \cup {x}, x, h - a)
      /\ Used(m2, brk, S \cup {x}, x) = Used(m2, brk, S, lo) \cup {lo}
  BY <1>2, <1>3, Narrow
<1> QED
  BY <1>2, <1>3, <1>4 DEF Cut

(* A hole is split into an allocated block and a hole.                     *)
Split(m, f, brk, S, lo, h, a) ==
    /\ Cut(m, f, brk, S, lo, h, a) /\ Size(f, lo) = a /\ Size(f, lo + a) = h - a
    /\ PrevAllocated(f, lo + h) <=> PrevAllocated(m, lo + h)
    /\ \A p \in Addr : p # lo - 4 /\ p # lo + a - 4 /\ p # lo + h - 8 => f[p] = m[p]

(* The hole that is left says its size.                                    *)
LEMMA HoleSplit ==
  ASSUME NEW m, NEW brk, NEW S, NEW lo, NEW h, HeapAt(m, brk, S, lo, h), lo \in S,
         NEW a \in Nat, a % 8 = 0, a >= 16, h - a >= 16,
         NEW flags \in {1, 3}, flags = 3 <=> PrevAllocated(m, lo),
         NEW f, f = PutFree(PutHeader(m, lo, a, flags), lo + a, h - a, PALLOC)
  PROVE  Split(m, f, brk, S, lo, h, a)
<1>0. /\ lo \in Nat /\ h \in Nat /\ h >= 16 /\ h % 8 = 0 /\ lo >= 40 /\ lo % 8 = 0
      /\ lo + h \in Nat
  BY HoleSays
<1>1. /\ m \in Memory /\ lo - 4 \in Addr /\ lo + h - 8 \in Addr /\ (lo + h) - 4 \in Addr
      /\ (lo + a) - 4 \in Addr
  BY <1>0, HoleWords
<1>2. PICK c : c = PutHeader(m, lo, a, flags)
  OBVIOUS
<1>3. Tagged(m, c, lo, a, flags)
  BY <1>0, <1>1, <1>2, PutHeaderReads
<1>4. PICK x \in Nat : x = lo + a
  BY <1>0
<1>5. PICK rest \in Nat : rest = h - a
  BY <1>0
<1>6. PICK palloc \in {0, 2} : palloc = PALLOC
  BY DEF PALLOC
<1>7. FreeTagged(c, f, x, rest, palloc)
  <2>1. rest % 8 = 0 /\ rest >= 16 /\ x + rest - 8 = lo + h - 8
    BY <1>0, <1>4, <1>5
  <2>2. x + rest - 8 \in Addr /\ x - 4 \in Addr /\ c \in Memory
    BY <2>1, <1>1, <1>3, <1>4 DEF Tagged
  <2>3. f = PutFree(c, x, rest, palloc)
    BY <1>2, <1>4, <1>5, <1>6
  <2> QED
    BY <2>1, <2>2, <2>3, PutFreeReads
<1>8. \A p \in Addr : p # lo - 4 /\ p # x - 4 /\ p # x + rest - 8 => f[p] = m[p]
  BY <1>3, <1>7 DEF Tagged, FreeTagged
<1>9. x - 4 # lo - 4 /\ x + rest - 8 # lo - 4 /\ x + rest - 8 = lo + h - 8
       /\ (lo + h) - 4 # lo - 4 /\ (lo + h) - 4 # x - 4 /\ (lo + h) - 4 # x + rest - 8
       /\ x + rest = lo + h
  BY <1>0, <1>4, <1>5
<1>10. Header(f, lo) = Header(c, lo) /\ Header(f, lo + h) = Header(m, lo + h)
  BY <1>1, <1>7, <1>8, <1>9 DEF Header, WSIZE, FreeTagged
<1>11. /\ f \in Memory /\ Size(f, lo) = a /\ Allocated(f, lo)
       /\ PrevAllocated(f, lo) <=> PrevAllocated(m, lo)
       /\ PrevAllocated(f, x) /\ Size(f, x) = rest
       /\ PrevAllocated(f, lo + h) <=> PrevAllocated(m, lo + h)
  <2>1. (flags \in {2, 3} <=> PrevAllocated(m, lo)) /\ palloc = 2
    BY <1>6 DEF PALLOC
  <2>2. Size(c, lo) = a /\ Allocated(c, lo) /\ (PrevAllocated(c, lo) <=> PrevAllocated(m, lo))
    BY <2>1, <1>3 DEF Tagged
  <2>3. Size(f, lo) = a /\ Allocated(f, lo) /\ (PrevAllocated(f, lo) <=> PrevAllocated(m, lo))
    BY <2>2, <1>10 DEF Size, Allocated, PrevAllocated
  <2>4. PrevAllocated(f, lo + h) <=> PrevAllocated(m, lo + h)
    BY <1>10 DEF PrevAllocated
  <2> QED
    BY <2>1, <2>3, <2>4, <1>7 DEF FreeTagged
<1>12. \A p \in Addr : p < lo - 4 \/ p > (lo + h) - 4 => f[p] = m[p]
  <2> SUFFICES ASSUME NEW p \in Addr, p < lo - 4 \/ p > (lo + h) - 4 PROVE f[p] = m[p]
    OBVIOUS
  <2>1. p # lo - 4 /\ p # x - 4 /\ p # x + rest - 8
    BY <1>0, <1>4, <1>5, AddrIs
  <2> QED
    BY <2>1, <1>8
<1>13. Cut(m, f, brk, S, lo, h, a)
  BY <1>4, <1>10, <1>11, <1>12, HoleCut
<1>14. \A p \in Addr : p # lo - 4 /\ p # lo + a - 4 /\ p # lo + h - 8 => f[p] = m[p]
  <2>1. lo + a - 4 = x - 4 /\ lo + h - 8 = x + rest - 8
    BY <1>0, <1>4, <1>5
  <2> QED
    BY <2>1, <1>8
<1> QED
  BY <1>4, <1>5, <1>11, <1>13, <1>14 DEF Split

(* place: the block bp is allocated, and nothing that was is lost. *)
PlacedAt(m, j, brk, A, bp, a) ==
    \E T : /\ HeapAt(j, brk, T, 0, 0) /\ Used(j, brk, T, 0) = A \cup {bp} /\ Spares(m, j, A)
           /\ bp \notin A /\ Size(j, bp) >= a

(* place, in a free block of which enough is left.                         *)
LEMMA PlaceSplits ==
  ASSUME NEW m, NEW brk, NEW S, NEW lo, NEW h, HeapAt(m, brk, S, lo, h), lo \in S,
         PrevAllocated(m, lo), ~PrevAllocated(m, lo + h),
         NEW a \in Nat, a % 8 = 0, a >= 16, h - a >= 16,
         NEW j, j = coalesce(PutFree(PutHeader(m, lo, a, ALLOC + PALLOC),
                                     lo + a, h - a, PALLOC), lo + a).mem
  PROVE  PlacedAt(m, j, brk, Used(m, brk, S, lo), lo, a)
<1>0. lo \in Nat /\ h \in Nat /\ lo + h \in Nat
  BY HoleSays
<1>1. PICK flags : flags = ALLOC + PALLOC
  OBVIOUS
<1>2. flags \in {1, 3} /\ (flags = 3 <=> PrevAllocated(m, lo))
  BY <1>1 DEF ALLOC, PALLOC
<1>3. PICK x : x = lo + a
  OBVIOUS
<1>4. PICK rest : rest = h - a
  OBVIOUS
<1>5. PICK f : f = PutFree(PutHeader(m, lo, a, flags), lo + a, h - a, PALLOC)
  OBVIOUS
<1>6. Split(m, f, brk, S, lo, h, a)
  BY <1>2, <1>5, HoleSplit
<1>7. /\ Cut(m, f, brk, S, lo, h, a) /\ Size(f, lo) = a /\ Size(f, x) = rest
      /\ ~PrevAllocated(f, lo + h)
  BY <1>3, <1>4, <1>6 DEF Split
<1>8. PICK T : T = S \cup {x}
  OBVIOUS
<1>9. /\ HeapAt(f, brk, T, x, rest) /\ x \in T /\ x + rest = lo + h
      /\ Used(f, brk, T, x) = Used(m, brk, S, lo) \cup {lo}
      /\ Spares(m, f, Used(m, brk, S, lo))
  <2>1. x + rest = lo + h
    BY <1>0, <1>3, <1>4
  <2> QED
    BY <2>1, <1>3, <1>4, <1>7, <1>8 DEF Cut
<1>10. PICK r : r = coalesce(f, x)
  OBVIOUS
<1>11. Merged(f, r, brk, Used(f, brk, T, x), rest)
  BY <1>7, <1>9, <1>10, Coalesced
<1>12. j = r.mem
  BY <1>1, <1>3, <1>5, <1>10
<1>13. PICK V : Heaped(f, j, brk, V, Used(f, brk, T, x))
  BY <1>11, <1>12 DEF Merged
<1>14. /\ HeapAt(j, brk, V, 0, 0) /\ Used(j, brk, V, 0) = Used(m, brk, S, lo) \cup {lo}
       /\ Spares(f, j, Used(m, brk, S, lo) \cup {lo})
  BY <1>9, <1>13 DEF Heaped
<1>15. Spares(f, j, Used(m, brk, S, lo)) /\ Size(j, lo) = a
  BY <1>7, <1>14 DEF Spares, Intact
<1>16. Spares(m, j, Used(m, brk, S, lo))
  BY <1>9, <1>15, SparesTwice
<1>17. lo \notin Used(m, brk, S, lo) /\ Size(j, lo) >= a
  BY <1>15 DEF Used
<1> QED
  BY <1>14, <1>16, <1>17 DEF PlacedAt

(* A hole that becomes one allocated block.                                *)
LEMMA HoleFilled ==
  ASSUME NEW m, NEW brk, NEW S, NEW lo, NEW h, HeapAt(m, brk, S, lo, h), lo \in S,
         NEW m2 \in Memory,
         \A p \in Addr : p < lo - 4 \/ p > (lo + h) - 4 => m2[p] = m[p],
         PrevAllocated(m2, lo) <=> PrevAllocated(m, lo),
         Size(m2, lo + h) = Size(m, lo + h), Allocated(m2, lo + h) <=> Allocated(m, lo + h),
         Size(m2, lo) = h, Allocated(m2, lo), PrevAllocated(m2, lo + h)
  PROVE  /\ HeapAt(m2, brk, S, 0, 0)
         /\ Used(m2, brk, S, 0) = Used(m, brk, S, lo) \cup {lo}
         /\ Spares(m, m2, Used(m, brk, S, lo))
<1>1. /\ HeapAt(m2, brk, S, lo, h) /\ Used(m2, brk, S, lo) = Used(m, brk, S, lo)
      /\ Spares(m, m2, Used(m, brk, S, lo))
  BY HoleWritten
<1>2. /\ HeapAt(m2, brk, S, 0, 0)
      /\ Used(m2, brk, S, 0) = Used(m2, brk, S, lo) \cup {lo}
  BY <1>1, CloseUsed
<1> QED
  BY <1>1, <1>2

(* place, in a free block of which too little is left.                     *)
LEMMA PlaceWhole ==
  ASSUME NEW m, NEW brk, NEW S, NEW lo, NEW h, HeapAt(m, brk, S, lo, h), lo \in S,
         PrevAllocated(m, lo), Allocated(m, lo + h), NEW a, h >= a,
         NEW j, j = PutHeader(PutHeader(m, lo, h, ALLOC + PALLOC),
                              lo + h, Size(m, lo + h), ALLOC + PALLOC)
  PROVE  PlacedAt(m, j, brk, Used(m, brk, S, lo), lo, a)
<1>0. /\ lo \in Nat /\ h \in Nat /\ h >= 16 /\ h % 8 = 0 /\ lo >= 40 /\ lo % 8 = 0
      /\ lo + h \in Nat
  BY HoleSays
<1>1. /\ m \in Memory /\ lo - 4 \in Addr /\ (lo + h) - 4 \in Addr
      /\ Size(m, lo + h) \in Nat /\ Size(m, lo + h) % 8 = 0
  BY <1>0, HoleWords
<1>2. PICK flags \in 0 .. 3 : flags = ALLOC + PALLOC
  BY DEF ALLOC, PALLOC
<1>3. PICK c : c = PutHeader(m, lo, h, flags)
  OBVIOUS
<1>4. Tagged(m, c, lo, h, flags)
  BY <1>0, <1>1, <1>3, PutHeaderReads
<1>5. PICK n \in Nat : n = lo + h
  BY <1>0
<1>6. PICK s \in Nat : s = Size(m, n)
  BY <1>1, <1>5
<1>7. j = PutHeader(c, n, s, flags)
  BY <1>2, <1>3, <1>5, <1>6
<1>8. Tagged(c, j, n, s, flags)
  <2>1. c \in Memory /\ n - 4 \in Addr /\ s % 8 = 0
    BY <1>1, <1>4, <1>5, <1>6 DEF Tagged
  <2> QED
    BY <2>1, <1>7, PutHeaderReads
<1>9. flags \in {1, 3} /\ flags \in {2, 3}
  BY <1>2 DEF ALLOC, PALLOC
<1>10. Header(j, lo) = Header(c, lo)
  <2>1. lo - 4 # n - 4
    BY <1>0, <1>5
  <2> QED
    BY <2>1, <1>1, <1>8 DEF Header, WSIZE, Tagged
<1>11. /\ j \in Memory /\ Size(j, lo) = h /\ Allocated(j, lo) /\ PrevAllocated(j, lo)
       /\ Size(j, n) = Size(m, n) /\ Allocated(j, n) /\ PrevAllocated(j, n)
  <2>1. Size(c, lo) = h /\ Allocated(c, lo) /\ PrevAllocated(c, lo)
    BY <1>4, <1>9 DEF Tagged
  <2>2. Size(j, lo) = h /\ Allocated(j, lo) /\ PrevAllocated(j, lo)
    BY <2>1, <1>10 DEF Size, Allocated, PrevAllocated
  <2> QED
    BY <2>2, <1>6, <1>8, <1>9 DEF Tagged
<1>12. \A p \in Addr : p < lo - 4 \/ p > (lo + h) - 4 => j[p] = m[p]
  <2> SUFFICES ASSUME NEW p \in Addr, p < lo - 4 \/ p > (lo + h) - 4 PROVE j[p] = m[p]
    OBVIOUS
  <2>1. p # lo - 4 /\ p # n - 4
    BY <1>0, <1>5, AddrIs
  <2> QED
    BY <2>1, <1>4, <1>8 DEF Tagged
<1>13. /\ HeapAt(j, brk, S, 0, 0)
       /\ Used(j, brk, S, 0) = Used(m, brk, S, lo) \cup {lo}
       /\ Spares(m, j, Used(m, brk, S, lo))
  BY <1>5, <1>11, <1>12, HoleFilled
<1>14. lo \notin Used(m, brk, S, lo) /\ Size(j, lo) >= a
  BY <1>11 DEF Used
<1> QED
  BY <1>13, <1>14 DEF PlacedAt

(* place, in a free block that is large enough.                            *)
LEMMA Places ==
  ASSUME NEW m, NEW brk, NEW S, HeapAt(m, brk, S, 0, 0), NEW b \in FreeIn(m, brk, S, 0),
         NEW a \in Nat, a % 8 = 0, a >= 16, Size(m, b) >= a,
         NEW j, j = place(m, b, a)
  PROVE  PlacedAt(m, j, brk, Used(m, brk, S, 0), b, a)
<1>0. /\ Walls(m, brk, S, 0, 0) /\ Tags(m, brk, S, 0) /\ 0 \notin S
  BY WallsSay DEF HeapAt
<1>1. b \in S \ {brk, 0} /\ b \in S /\ ~Allocated(m, b)
  BY <1>0, FreeIsLater DEF FreeIn
<1>2. /\ Size(m, b) \in Nat /\ NEXT_BLKP(m, b) = b + Size(m, b) /\ NEXT_BLKP(m, b) \in S
      /\ NEXT_BLKP(m, b) # 0
  BY <1>0, <1>1, Nexts
<1>3. PICK u : u = unjoin(m, b)
  OBVIOUS
<1>4. /\ HeapAt(u, brk, S, b, Size(m, b)) /\ SameHeaders(m, u, S)
      /\ Used(u, brk, S, b) = Used(m, brk, S, 0)
      /\ Spares(m, u, Used(m, brk, S, 0))
  BY <1>3, OpenFree
<1>5. PICK h : h = Size(m, b)
  OBVIOUS
<1>6. /\ PrevAllocated(m, b) /\ Allocated(m, b + h) /\ ~PrevAllocated(m, b + h)
      /\ b + h \in S
  BY <1>0, <1>1, <1>2, <1>5, FreeStandsAlone DEF Tags
<1>7. /\ PrevAllocated(u, b) /\ Allocated(u, b + h) /\ ~PrevAllocated(u, b + h)
      /\ Size(u, b + h) = Size(m, b + h)
  BY <1>1, <1>4, <1>6, HeadersSay
<1>8. HeapAt(u, brk, S, b, h)
  BY <1>4, <1>5
<1>9. PlacedAt(u, j, brk, Used(u, brk, S, b), b, a)
  <2>1. CASE h - a >= 16
    <3>1. j = coalesce(PutFree(PutHeader(u, b, a, ALLOC + PALLOC),
                               b + a, h - a, PALLOC), b + a).mem
      BY <2>1, <1>3, <1>5 DEF place, MINBLOCK
    <3> QED
      BY <3>1, <2>1, <1>1, <1>7, <1>8, PlaceSplits
  <2>2. CASE ~(h - a >= 16)
    <3>1. j = PutHeader(PutHeader(u, b, h, ALLOC + PALLOC),
                        b + h, Size(u, b + h), ALLOC + PALLOC)
      BY <2>2, <1>2, <1>3, <1>5, <1>7 DEF place, MINBLOCK
    <3>2. h >= a
      BY <1>5
    <3> QED
      BY <3>1, <3>2, <1>1, <1>7, <1>8, PlaceWhole
  <2> QED
    BY <2>1, <2>2
<1>10. PICK T : /\ HeapAt(j, brk, T, 0, 0) /\ Used(j, brk, T, 0) = Used(u, brk, S, b) \cup {b}
                /\ Spares(u, j, Used(u, brk, S, b)) /\ b \notin Used(u, brk, S, b)
                /\ Size(j, b) >= a
  BY <1>9 DEF PlacedAt
<1>11. Spares(m, j, Used(m, brk, S, 0))
  BY <1>4, <1>10, SparesTwice
<1> QED
  BY <1>4, <1>10, <1>11 DEF PlacedAt
-----------------------------------------------------------------------------
(* 7. extend_heap.                                                         *)

(* Behind the end of the heap a hole is opened, and the end moved on.      *)
Grown(m, m2, brk, S, a) ==
    /\ HeapAt(m2, brk + a, S \cup {brk + a}, brk, a) /\ brk \in S \cup {brk + a}
    /\ Used(m2, brk + a, S \cup {brk + a}, brk) = Used(m, brk, S, 0)
    /\ Spares(m, m2, Used(m, brk, S, 0))

(* The new end is walled as the old one was.                               *)
LEMMA HeapGrown ==
  ASSUME NEW m, NEW brk, NEW S, HeapAt(m, brk, S, 0, 0),
         NEW a \in Nat, a % 8 = 0, a >= 16, brk + a <= MAX_HEAP, NEW m2 \in Memory,
         \A p \in Addr : p < brk - 4 => m2[p] = m[p],
         PrevAllocated(m2, brk) <=> PrevAllocated(m, brk),
         Size(m2, brk + a) = 0, Allocated(m2, brk + a)
  PROVE  Grown(m, m2, brk, S, a)
<1>0. Walls(m, brk, S, 0, 0) /\ Tags(m, brk, S, 0)
  BY DEF HeapAt
<1>1. /\ brk \in Nat /\ brk >= 40 /\ brk \in S /\ class_listp \in S /\ brk % 8 = 0
      /\ class_listp # brk /\ 0 \notin S
      /\ \A c \in S : c \in Nat /\ class_listp <= c /\ c <= brk /\ c % 8 = 0 /\ c - 4 \in Addr
      /\ 12 \in Addr /\ Classes \subseteq Addr
  BY <1>0, WallsSay, FirstBlock, BlockWords
<1>2. PICK n \in Nat : n = brk + a
  BY <1>1
<1>3. n # brk /\ n > brk /\ n % 8 = 0 /\ n \notin S /\ brk + a = n
  <2>1. n # brk /\ n > brk /\ n % 8 = 0
    BY <1>1, <1>2
  <2> QED
    BY <2>1, <1>1, <1>2
<1> DEFINE T == S \cup {n}
<1>4. \A c \in S \ {brk} :
         /\ c < brk /\ Header(m2, c) = Header(m, c)
         /\ Size(m, c) \in Nat /\ Size(m, c) >= 16 /\ NEXT_BLKP(m, c) = c + Size(m, c)
         /\ c + Size(m, c) \in S /\ c + Size(m, c) <= brk
         /\ c \in Addr /\ c + 4 \in Addr /\ c + Size(m, c) - 8 \in Addr
  <2> SUFFICES ASSUME NEW c \in S \ {brk}
               PROVE  /\ c < brk /\ Header(m2, c) = Header(m, c)
                      /\ Size(m, c) \in Nat /\ Size(m, c) >= 16
                      /\ NEXT_BLKP(m, c) = c + Size(m, c)
                      /\ c + Size(m, c) \in S /\ c + Size(m, c) <= brk
                      /\ c \in Addr /\ c + 4 \in Addr /\ c + Size(m, c) - 8 \in Addr
    OBVIOUS
  <2>1. c < brk /\ c # 0
    BY <1>1
  <2>2. c - 4 < brk - 4
    BY <2>1, <1>1
  <2>3. m2[c - 4] = m[c - 4]
    BY <2>2, <1>1
  <2>4. Extent(m, 0, 0, c) = Size(m, c)
    BY <2>1 DEF Extent
  <2> QED
    BY <2>1, <2>3, <2>4, <1>0, <1>1, Nexts, BlockWords DEF Header, WSIZE
<1>5. \A c \in S \ {brk} : /\ Size(m2, c) = Size(m, c) /\ NEXT_BLKP(m2, c) = NEXT_BLKP(m, c)
                           /\ Allocated(m2, c) <=> Allocated(m, c)
  BY <1>4 DEF Size, NEXT_BLKP, Allocated
<1>6. \A c \in S : PrevAllocated(m2, c) <=> PrevAllocated(m, c)
  BY <1>4 DEF PrevAllocated
<1>7. m2[12] = 27 /\ \A k \in Classes : m2[k] = m[k]
  <2>1. m[12] = 27
    BY <1>0 DEF Walls
  <2>2. \A k \in Classes : k \in Nat /\ k <= 32
    BY DEF Classes, class_listp, WSIZE, CLASS_SIZE
  <2>3. \A k \in Classes : k < brk - 4
    BY <2>2, <1>1
  <2> QED
    BY <2>1, <2>3, <1>1
<1>8. Walls(m2, n, T, brk, a)
  <2>1. \A c \in S \ {brk} : c <= brk /\ Extent(m2, brk, a, c) = Size(m, c)
    <3>1. \A c \in S \ {brk} : c # brk /\ c < brk /\ c \in Nat /\ Size(m2, c) = Size(m, c)
      BY <1>1, <1>4, <1>5
    <3> QED
      BY <3>1, <1>1 DEF Extent
  <2>2. Extent(m2, brk, a, brk) = a
    BY DEF Extent
  <2>3. \A c \in T \ {n} : c \in S
    OBVIOUS
  <2>4. ASSUME NEW c \in T \ {n}
        PROVE  /\ Extent(m2, brk, a, c) >= MINBLOCK /\ c + Extent(m2, brk, a, c) \in T
               /\ \A d \in T : d <= c \/ c + Extent(m2, brk, a, c) <= d
    <3>1. CASE c = brk
      <4>1. \A d \in T : d <= c \/ c + a <= d
        BY <3>1, <1>1, <1>3
      <4>2. a >= MINBLOCK /\ c + a \in T
        BY <3>1, <1>3 DEF MINBLOCK
      <4> QED
        BY <3>1, <2>2, <4>1, <4>2
    <3>2. CASE c # brk
      <4>1. c \in S \ {brk} /\ Extent(m2, brk, a, c) = Size(m, c) /\ Extent(m, 0, 0, c) = Size(m, c)
        BY <3>2, <2>1, <2>3, <1>1 DEF Extent
      <4>2. \A d \in S : d <= c \/ c + Size(m, c) <= d
        BY <4>1, <1>0 DEF Walls
      <4>3. c + Size(m, c) <= n
        BY <4>1, <1>1, <1>3, <1>4
      <4>4. Size(m, c) >= MINBLOCK /\ c + Size(m, c) \in T
        BY <4>1, <1>4 DEF MINBLOCK
      <4> QED
        BY <4>1, <4>2, <4>3, <4>4
    <3> QED
      BY <3>1, <3>2
  <2>5. /\ T \subseteq Nat /\ n <= MAX_HEAP /\ class_listp \in T /\ n \in T
        /\ brk \in (T \ {class_listp, n}) \cup {0} /\ a \in Nat /\ (brk = 0 => a = 0)
        /\ Size(m2, n) = 0 /\ Allocated(m2, n)
    BY <1>1, <1>2, <1>3
  <2>6. \A c \in T : class_listp <= c /\ c <= n /\ c % 8 = 0
    BY <1>1, <1>3 DEF class_listp
  <2> HIDE DEF T
  <2> QED
    BY <2>4, <2>5, <2>6, <1>7 DEF Walls
<1>9. T \ {n, brk} = S \ {brk} /\ \A c \in S : c # 0
  BY <1>1, <1>3
<1>10. FreeIn(m2, n, T, brk) = FreeIn(m, brk, S, 0)
  BY <1>5, <1>9 DEF FreeIn
<1>11. Used(m2, n, T, brk) = Used(m, brk, S, 0)
  <2>1. \A c : c \in T \ {class_listp, n, brk} <=> c \in S \ {class_listp, brk, 0}
    BY <1>9
  <2>2. \A c \in S \ {class_listp, brk, 0} : Allocated(m2, c) <=> Allocated(m, c)
    BY <1>5
  <2> HIDE DEF T
  <2> QED
    BY <2>1, <2>2 DEF Used
<1>12. \A c \in S \ {brk} : m2[NEXT_BLKP(m, c) - DSIZE] = m[NEXT_BLKP(m, c) - DSIZE]
  <2> SUFFICES ASSUME NEW c \in S \ {brk}
               PROVE  m2[NEXT_BLKP(m, c) - DSIZE] = m[NEXT_BLKP(m, c) - DSIZE]
    OBVIOUS
  <2>1. c + Size(m, c) - 8 < brk - 4 /\ NEXT_BLKP(m, c) - DSIZE = c + Size(m, c) - 8
    <3>1. /\ c \in Nat /\ Size(m, c) \in Nat /\ c + Size(m, c) <= brk
          /\ NEXT_BLKP(m, c) = c + Size(m, c)
      BY <1>1, <1>4
    <3> QED
      BY <3>1, <1>1 DEF DSIZE
  <2>2. c + Size(m, c) - 8 \in Addr
    BY <1>4
  <2> QED
    BY <2>1, <2>2
<1>13. Tags(m2, n, T, brk)
  <2> SUFFICES ASSUME NEW c \in S \ {brk}
               PROVE  /\ Allocated(m2, c) <=> PrevAllocated(m2, NEXT_BLKP(m2, c))
                      /\ ~Allocated(m2, c) =>
                            /\ m2[NEXT_BLKP(m2, c) - DSIZE] = Size(m2, c)
                            /\ Allocated(m2, NEXT_BLKP(m2, c)) \/ NEXT_BLKP(m2, c) = brk
    BY <1>9 DEF Tags
  <2>1. NEXT_BLKP(m2, c) = NEXT_BLKP(m, c) /\ NEXT_BLKP(m, c) \in S
    BY <1>4, <1>5
  <2>2. NEXT_BLKP(m, c) # 0 /\ c \in S \ {brk, 0}
    BY <2>1, <1>9
  <2> QED
    BY <2>1, <2>2, <1>0, <1>5, <1>6, <1>12 DEF Tags
<1>14. PICK R : Linked(m, FreeIn(m, brk, S, 0), R)
  BY DEF HeapAt
<1>15. Linked(m2, FreeIn(m, brk, S, 0), R)
  <2>1. \A c \in FreeIn(m, brk, S, 0) : c \in S \ {brk}
    BY DEF FreeIn
  <2>2. \A c \in FreeIn(m, brk, S, 0) : Size(m2, c) = Size(m, c) /\ Size(m, c) \in Int
    BY <2>1, <1>4, <1>5
  <2>3. ASSUME NEW c \in FreeIn(m, brk, S, 0)
        PROVE  Pred(m2, c) = Pred(m, c) /\ Succ(m2, c) = Succ(m, c)
    <3>1. c \in Nat /\ c + 4 < brk - 4 /\ c < brk - 4
      <4>1. c \in Nat /\ Size(m, c) \in Nat /\ Size(m, c) >= 16 /\ c + Size(m, c) <= brk
        BY <2>1, <1>1, <1>4
      <4> QED
        BY <4>1, <1>1
    <3> QED
      BY <3>1, <2>1, <1>4 DEF Pred, Succ, WSIZE
  <2> QED
    BY <2>2, <2>3, <1>7, <1>14, LinksSeen
<1>16. HeapAt(m2, n, T, brk, a)
  BY <1>8, <1>10, <1>13, <1>15 DEF HeapAt
<1>17. ASSUME NEW c \in Used(m, brk, S, 0) PROVE Intact(m, m2, c)
  <2>1. c \in S \ {brk}
    BY DEF Used
  <2>2. ASSUME NEW p \in Addr, c <= p, p <= c + Size(m, c) - 8 PROVE m2[p] = m[p]
    <3>1. p < brk - 4
      BY <2>1, <2>2, <1>1, <1>4, AddrIs
    <3> QED
      BY <3>1
  <2> QED
    BY <2>1, <2>2, <1>5 DEF Intact, DSIZE
<1>18. Spares(m, m2, Used(m, brk, S, 0))
  BY <1>17 DEF Spares
<1> QED
  BY <1>1, <1>2, <1>11, <1>16, <1>18 DEF Grown

(* A size that does not wrap around.                                       *)
Fitting(size) == size \in Nat /\ size + 11 < 2 ^ SizeBits

(* ADJUST of such a size makes room for it and a header.                   *)
LEMMA AdjustIs ==
  ASSUME NEW size, Fitting(size)
  PROVE  /\ ADJUST(size) \in Nat /\ ADJUST(size) % 8 = 0 /\ ADJUST(size) >= 16
         /\ ADJUST(size) >= size + 4 /\ ADJUST(size) < 2 ^ SizeBits
<1>1. PICK w : w = 2 ^ SizeBits
  OBVIOUS
<1>2. w \in Nat /\ size \in Nat /\ size + 11 < w /\ 40 < w
  BY <1>1, HeapAssumption DEF Fitting
<1>3. CASE size <= 12
  BY <1>1, <1>2, <1>3 DEF ADJUST, WSIZE, MINBLOCK
<1>4. CASE ~(size <= 12)
  <2>1. (size + 4) % w = size + 4 /\ (size + 11) % w = size + 11
    BY <1>2
  <2>2. size + 4 + 7 = size + 11
    BY <1>2
  <2>3. ADJUST(size) = ((size + 11) \div 8) * 8
    BY <1>1, <1>2, <1>4, <2>1, <2>2 DEF ADJUST, ALIGN, WSIZE
  <2> QED
    BY <1>1, <1>2, <1>4, <2>3
<1> QED
  BY <1>3, <1>4

(* ALIGN leaves alone what is aligned.                                     *)
LEMMA AlignIs ==
  ASSUME NEW a \in Nat, a % 8 = 0, a < 2 ^ SizeBits
  PROVE  ALIGN(a) = a
<1>1. PICK w : w = 2 ^ SizeBits
  OBVIOUS
<1>2. w \in Nat /\ w % 8 = 0 /\ a < w
  BY <1>1, HeapAssumption
<1>3. a + 7 < w
  BY <1>2
<1>4. (a + 7) % w = a + 7
  BY <1>2, <1>3
<1>5. ALIGN(a) = ((a + 7) \div 8) * 8
  BY <1>1, <1>4 DEF ALIGN
<1> QED
  BY <1>5

(* Memory grows by a hole, at the end of the heap.                         *)
Chunk(m, t, brk, S, a) ==
    Grown(m, t, brk, S, a) /\ Size(t, brk) = a /\ ~PrevAllocated(t, brk + a)

(* It says its size, and the end of the heap that it is free.              *)
LEMMA ChunkAdded ==
  ASSUME NEW m, NEW brk, NEW S, HeapAt(m, brk, S, 0, 0),
         NEW a \in Nat, a % 8 = 0, a >= 16, brk + a <= MAX_HEAP,
         NEW t, t = PutHeader(PutFree(m, brk, a, PallocFlag(m, brk)), brk + a, 0, ALLOC)
  PROVE  Chunk(m, t, brk, S, a)
<1>0. /\ m \in Memory /\ brk \in Nat /\ brk >= 40 /\ brk % 8 = 0 /\ brk - 4 \in Addr
      /\ MAX_HEAP \in Nat
  BY WallsSay, FirstBlock, BlockWords, HeapAssumption DEF HeapAt
<1>1. PICK n \in Nat : n = brk + a
  BY <1>0
<1>2. n - 4 \in Addr /\ brk + a - 8 \in Addr /\ n <= MAX_HEAP /\ n > brk
  <2>1. n % 8 = 0 /\ n <= MAX_HEAP /\ n > brk /\ brk + a - 8 = n - 8
    BY <1>1, <1>0
  <2>2. /\ n - 4 \in Nat /\ (n - 4) % 4 = 0 /\ (n - 4) + 4 <= MAX_HEAP
        /\ n - 8 \in Nat /\ (n - 8) % 4 = 0 /\ (n - 8) + 4 <= MAX_HEAP
    BY <2>1, <1>0
  <2> QED
    BY <2>1, <2>2, IsAddr
<1>3. PICK palloc \in {0, 2} : palloc = PallocFlag(m, brk)
  BY DEF PallocFlag, PALLOC
<1>4. PICK f : f = PutFree(m, brk, a, palloc)
  OBVIOUS
<1>5. FreeTagged(m, f, brk, a, palloc)
  BY <1>0, <1>2, <1>4, PutFreeReads
<1>6. PICK flags \in 0 .. 3 : flags = ALLOC
  BY DEF ALLOC
<1>7. t = PutHeader(f, n, 0, flags)
  BY <1>1, <1>3, <1>4, <1>6
<1>8. Tagged(f, t, n, 0, flags)
  <2>1. f \in Memory
    BY <1>5 DEF FreeTagged
  <2> QED
    BY <2>1, <1>2, <1>7, PutHeaderReads
<1>9. flags \in {1, 3} /\ flags \notin {2, 3}
  BY <1>6 DEF ALLOC
<1>10. /\ t \in Memory /\ Size(t, n) = 0 /\ Allocated(t, n) /\ ~PrevAllocated(t, n)
  BY <1>8, <1>9 DEF Tagged
<1>11. Header(t, brk) = Header(f, brk)
  <2>1. brk - 4 # n - 4
    BY <1>2, <1>0
  <2> QED
    BY <2>1, <1>8, <1>0 DEF Tagged, Header, WSIZE
<1>12. Size(t, brk) = a /\ (PrevAllocated(t, brk) <=> PrevAllocated(m, brk))
  <2>1. Size(f, brk) = a /\ (PrevAllocated(f, brk) <=> palloc = 2)
    BY <1>5 DEF FreeTagged
  <2>2. palloc = 2 <=> PrevAllocated(m, brk)
    BY <1>3 DEF PallocFlag, PALLOC
  <2> QED
    BY <2>1, <2>2, <1>11 DEF Size, PrevAllocated
<1>13. ASSUME NEW p \in Addr, p < brk - 4 PROVE t[p] = m[p]
  <2>1. p # brk - 4 /\ p # brk + a - 8 /\ p # n - 4
    BY <1>13, <1>0, <1>1, AddrIs
  <2> QED
    BY <2>1, <1>5, <1>8 DEF Tagged, FreeTagged
<1>14. Grown(m, t, brk, S, a)
  BY <1>0, <1>1, <1>2, <1>10, <1>12, <1>13, HeapGrown
<1> QED
  BY <1>1, <1>10, <1>12, <1>14 DEF Chunk

(* extend_heap fails for want of memory only.                              *)
GrownTo(m, r, brk, A, a) ==
    \/ r = Result(m, brk, NULL) /\ brk + a > MAX_HEAP
    \/ r.brk = brk + a /\ Merged(m, r, brk + a, A, a)

(* extend_heap makes the hole a free block, and coalesces it.              *)
LEMMA Extends ==
  ASSUME NEW m, NEW brk, NEW S, HeapAt(m, brk, S, 0, 0),
         NEW a \in Nat, a % 8 = 0, a >= 16, a < 2 ^ SizeBits,
         NEW r, r = extend_heap(m, brk, a)
  PROVE  GrownTo(m, r, brk, Used(m, brk, S, 0), a)
<1>1. ALIGN(a) = a
  BY AlignIs
<1>2. CASE brk + a > MAX_HEAP
  <2>1. r = Result(m, brk, NULL)
    BY <1>1, <1>2 DEF extend_heap
  <2> QED
    BY <2>1, <1>2 DEF GrownTo
<1>3. CASE ~(brk + a > MAX_HEAP)
  <2>1. PICK n : n = brk + a
    OBVIOUS
  <2>2. PICK t : t = PutHeader(PutFree(m, brk, a, PallocFlag(m, brk)), brk + a, 0, ALLOC)
    OBVIOUS
  <2>3. brk + a <= MAX_HEAP
    <3>1. brk \in Nat /\ MAX_HEAP \in Nat
      BY WallsSay, HeapAssumption DEF HeapAt
    <3> QED
      BY <3>1, <1>3
  <2>4. Chunk(m, t, brk, S, a)
    BY <2>2, <2>3, ChunkAdded
  <2>5. PICK T : T = S \cup {n}
    OBVIOUS
  <2>6. /\ HeapAt(t, n, T, brk, a) /\ brk \in T /\ Used(t, n, T, brk) = Used(m, brk, S, 0)
        /\ Spares(m, t, Used(m, brk, S, 0)) /\ Size(t, brk) = a /\ ~PrevAllocated(t, brk + a)
    BY <2>1, <2>4, <2>5 DEF Grown, Chunk
  <2>7. PICK c : c = coalesce(t, brk)
    OBVIOUS
  <2>8. Merged(t, c, n, Used(t, n, T, brk), a)
    BY <2>6, <2>7, Coalesced
  <2>9. r = [mem |-> c.mem, brk |-> n, bp |-> c.bp]
    BY <1>1, <1>3, <2>1, <2>2, <2>7 DEF extend_heap, Extended, Result
  <2>10. r.mem = c.mem /\ r.bp = c.bp /\ r.brk = n
    BY <2>9
  <2>11. PICK V : /\ Heaped(t, c.mem, n, V, Used(t, n, T, brk))
                  /\ c.bp \in FreeIn(c.mem, n, V, 0) /\ Size(c.mem, c.bp) >= a
    BY <2>8 DEF Merged
  <2>12. Heaped(m, r.mem, n, V, Used(m, brk, S, 0))
    BY <2>6, <2>10, <2>11, SparesTwice DEF Heaped
  <2>13. Merged(m, r, n, Used(m, brk, S, 0), a)
    BY <2>10, <2>11, <2>12 DEF Merged
  <2> QED
    BY <2>1, <2>10, <2>13 DEF GrownTo
<1> QED
  BY <1>2, <1>3
-----------------------------------------------------------------------------
(* 8. The walk along a list finds every free block once.                   *)

(* A walk of N steps from a.                                               *)
Walked(V, a, step, N) ==
    \E W \in [0 .. N -> V] : W[0] = a /\ \A n \in 1 .. N : W[n] = step[W[n - 1]]

(* It exists wherever every step leads somewhere.                          *)
LEMMA WalkExists ==
  ASSUME NEW V, NEW a \in V, NEW step \in [V -> V], NEW N \in Nat
  PROVE  Walked(V, a, step, N)
<1> DEFINE Goes(n) ==
             \E W \in [0 .. n -> V] : W[0] = a /\ \A i \in 1 .. n : W[i] = step[W[i - 1]]
           T == {n \in 0 .. N : ~Goes(n)}
<1>1. SUFFICES ASSUME T # {} PROVE FALSE
  BY DEF Walked
<1>2. PICK n \in T : \A k \in T : n <= k
  <2>1. T \subseteq Nat
    OBVIOUS
  <2> HIDE DEF T
  <2> QED
    BY <1>1, <2>1, LeastNat
<1>3. n # 0
  <2>1. Goes(0)
    <3> DEFINE W == [i \in 0 .. 0 |-> a]
    <3>1. W \in [0 .. 0 -> V] /\ W[0] = a /\ \A i \in 1 .. 0 : W[i] = step[W[i - 1]]
      OBVIOUS
    <3> QED
      BY <3>1
  <2> QED
    BY <2>1, <1>2
<1>4. n \in Nat /\ n - 1 \in Nat /\ n - 1 \in 0 .. N /\ ~Goes(n)
  BY <1>2, <1>3
<1>5. Goes(n - 1)
  <2>1. n - 1 \notin T
    <3>1. ~(n <= n - 1)
      BY <1>4
    <3> HIDE DEF T
    <3> QED
      BY <3>1, <1>2
  <2> QED
    BY <2>1, <1>4
<1>6. PICK W \in [0 .. n - 1 -> V] :
         W[0] = a /\ \A i \in 1 .. n - 1 : W[i] = step[W[i - 1]]
  BY <1>5
<1> DEFINE X == [i \in 0 .. n |-> IF i = n THEN step[W[n - 1]] ELSE W[i]]
<1>7. X \in [0 .. n -> V]
  <2>1. W[n - 1] \in V
    BY <1>4, <1>6
  <2>2. step[W[n - 1]] \in V
    BY <2>1
  <2>3. \A i \in 0 .. n : i # n => W[i] \in V
    BY <1>4, <1>6
  <2> QED
    BY <2>2, <2>3
<1>8. X[0] = a
  BY <1>3, <1>4, <1>6
<1>9. ASSUME NEW i \in 1 .. n PROVE X[i] = step[X[i - 1]]
  BY <1>4, <1>6
<1>10. Goes(n)
  BY <1>7, <1>8, <1>9
<1> QED
  BY <1>4, <1>10

(* The steps along a list. *)
Hops(m, F) == [b \in F \cup {NULL} |-> IF b = NULL THEN NULL ELSE Succ(m, b)]

(* L follows the list of a class, in which only blocks of F are.           *)
FollowsList(m, F, class, L) ==
    /\ L \in [0 .. MAX_HEAP \div MINBLOCK -> F \cup {NULL}]
    /\ L[0] = m[class]
    /\ \A n \in 1 .. MAX_HEAP \div MINBLOCK :
          L[n] = IF L[n - 1] = NULL THEN NULL ELSE Succ(m, L[n - 1])

(* That is what Listed does.                                               *)
LEMMA ListedIs ==
  ASSUME NEW m, NEW F, NEW R, Linked(m, F, R), F \subseteq Nat \ {0},
         NEW class \in Classes, NEW L, L = Listed(m, class)
  PROVE  FollowsList(m, F, class, L)
<1> DEFINE N == MAX_HEAP \div MINBLOCK
           V == F \cup {NULL}
           step == Hops(m, F)
<1>1. N \in Nat
  BY HeapAssumption DEF MINBLOCK
<1>2. m[class] \in V /\ step \in [V -> V]
  BY DEF Linked, Hops
<1>3. \A b \in V : step[b] = IF b = NULL THEN NULL ELSE Succ(m, b)
  BY DEF Hops
<1> HIDE DEF N, V, step
<1>4. PICK W \in [0 .. N -> V] : W[0] = m[class] /\ \A n \in 1 .. N : W[n] = step[W[n - 1]]
  <2>1. Walked(V, m[class], step, N)
    BY <1>1, <1>2, WalkExists
  <2> QED
    BY <2>1 DEF Walked
<1>5. W = [n \in 0 .. N |-> IF n = 0 THEN m[class]
                            ELSE IF W[n - 1] = NULL THEN NULL ELSE Succ(m, W[n - 1])]
  <2>1. ASSUME NEW n \in 0 .. N
        PROVE  W[n] = IF n = 0 THEN m[class]
                      ELSE IF W[n - 1] = NULL THEN NULL ELSE Succ(m, W[n - 1])
    <3>1. CASE n = 0
      BY <3>1, <1>4
    <3>2. CASE n # 0
      <4>1. n \in 1 .. N /\ n - 1 \in 0 .. N
        BY <3>2, <1>1
      <4> QED
        BY <3>2, <4>1, <1>3, <1>4
    <3> QED
      BY <3>1, <3>2
  <2> QED
    BY <2>1
<1>6. L = [n \in 0 .. N |-> IF n = 0 THEN m[class]
                            ELSE IF L[n - 1] = NULL THEN NULL ELSE Succ(m, L[n - 1])]
  BY <1>5 DEF Listed, N
<1>7. \A n \in 0 .. N : L[n] = IF n = 0 THEN m[class]
                               ELSE IF L[n - 1] = NULL THEN NULL ELSE Succ(m, L[n - 1])
  BY <1>6
<1>8. \A n \in 0 .. N : L[n] \in V
  <2> DEFINE T == {n \in 0 .. N : L[n] \notin V}
  <2>1. SUFFICES ASSUME T # {} PROVE FALSE
    OBVIOUS
  <2>2. PICK n \in T : \A k \in T : n <= k
    <3>1. T \subseteq Nat
      OBVIOUS
    <3> HIDE DEF T
    <3> QED
      BY <2>1, <3>1, LeastNat
  <2>3. n # 0 /\ n \in 0 .. N
    BY <2>2, <1>2, <1>7
  <2>4. n - 1 \in 0 .. N /\ ~(n <= n - 1)
    BY <2>3, <1>1
  <2>5. L[n - 1] \in V
    BY <2>2, <2>4
  <2>6. L[n] = step[L[n - 1]]
    BY <2>3, <2>5, <1>3, <1>7
  <2> QED
    BY <2>2, <2>5, <2>6, <1>2
<1>9. L \in [0 .. N -> V]
  BY <1>6, <1>8
<1>10. L[0] = m[class]
  BY <1>1, <1>7
<1>11. ASSUME NEW n \in 1 .. N
       PROVE  L[n] = IF L[n - 1] = NULL THEN NULL ELSE Succ(m, L[n - 1])
  BY <1>1, <1>7
<1> QED
  BY <1>9, <1>10, <1>11 DEF N, V, FollowsList

Last16 == MAX_HEAP \div MINBLOCK

(* A block on the list is free, of its class, and linked to the one before.*)
OnTheList(m, F, R, class, L, n) ==
    /\ L[n] \in F /\ Class(m, L[n]) = class
    /\ Pred(m, L[n]) = IF n = 0 THEN NULL ELSE L[n - 1]
    /\ n # 0 => /\ n - 1 \in 0 .. Last16 /\ L[n - 1] # NULL
                /\ L[n - 1] \in F /\ R[L[n - 1]] < R[L[n]]

(* So is every block that Listed finds.                                    *)
LEMMA AlongList ==
  ASSUME NEW m, NEW F, NEW R, Linked(m, F, R), F \subseteq Nat \ {0},
         NEW class \in Classes, NEW L, L = Listed(m, class)
  PROVE  \A n \in 0 .. Last16 : L[n] # NULL => OnTheList(m, F, R, class, L, n)
<1>0. Last16 \in Nat
  BY HeapAssumption DEF Last16, MINBLOCK
<1>1. /\ L \in [0 .. Last16 -> F \cup {NULL}]
      /\ L[0] = m[class]
      /\ \A n \in 1 .. Last16 :
            L[n] = IF L[n - 1] = NULL THEN NULL ELSE Succ(m, L[n - 1])
  <2>1. FollowsList(m, F, class, L)
    BY ListedIs
  <2> QED
    BY <2>1 DEF FollowsList, Last16
<1> DEFINE T == {n \in 0 .. Last16 : L[n] # NULL /\ ~OnTheList(m, F, R, class, L, n)}
<1>2. SUFFICES ASSUME T # {} PROVE FALSE
  OBVIOUS
<1>3. PICK n \in T : \A k \in T : n <= k
  <2>1. T \subseteq Nat
    OBVIOUS
  <2> HIDE DEF T
  <2> QED
    BY <1>2, <2>1, LeastNat
<1>4. n \in 0 .. Last16 /\ L[n] # NULL /\ ~OnTheList(m, F, R, class, L, n)
  BY <1>3
<1>5. L[n] \in F
  BY <1>1, <1>4
<1>6. CASE n = 0
  <2>1. L[n] = m[class] /\ m[class] # NULL
    BY <1>1, <1>4, <1>6
  <2>2. Class(m, L[n]) = class /\ Pred(m, L[n]) = NULL
    BY <2>1 DEF Linked
  <2> QED
    BY <2>2, <1>4, <1>5, <1>6 DEF OnTheList
<1>7. CASE n # 0
  <2>1. PICK p \in 0 .. Last16 : p = n - 1
    BY <1>0, <1>4, <1>7
  <2>2. n \in 1 .. Last16 /\ p < n
    BY <2>1, <1>0, <1>4, <1>7
  <2>3. L[p] # NULL /\ L[n] = Succ(m, L[p]) /\ L[p] \in F
    BY <2>1, <2>2, <1>1, <1>4
  <2>4. p \notin T
    <3>1. ~(n <= p)
      BY <2>1, <2>2
    <3> HIDE DEF T
    <3> QED
      BY <3>1, <1>3
  <2>5. Class(m, L[p]) = class
    BY <2>3, <2>4 DEF OnTheList
  <2>6. Class(m, L[n]) = class /\ Pred(m, L[n]) = L[p]
    BY <2>3, <2>5, <1>4 DEF Linked
  <2>7. R[L[p]] < R[L[n]]
    BY <2>3, <2>6, <1>5 DEF Linked
  <2> QED
    BY <2>1, <2>3, <2>6, <2>7, <1>4, <1>5, <1>7 DEF OnTheList
<1> QED
  BY <1>6, <1>7

(* No block is on a list twice.                                            *)
LEMMA ListedOnce ==
  ASSUME NEW m, NEW F, NEW R, Linked(m, F, R), F \subseteq Nat \ {0},
         NEW class \in Classes, NEW L, L = Listed(m, class),
         NEW i \in 0 .. Last16, NEW j \in 0 .. Last16, i < j, L[j] # NULL
  PROVE  L[i] # NULL /\ L[i] # L[j]
<1>0. Last16 \in Nat /\ R \in [F -> Nat]
  BY HeapAssumption DEF Last16, MINBLOCK, Linked
<1> DEFINE Before(k) == L[i] # NULL /\ L[i] \in F /\ R[L[i]] < R[L[k]]
           T == {k \in i + 1 .. Last16 : L[k] # NULL /\ ~Before(k)}
<1>1. T = {}
  <2> SUFFICES ASSUME T # {} PROVE FALSE
    OBVIOUS
  <2>1. PICK n \in T : \A k \in T : n <= k
    <3>1. T \subseteq Nat
      OBVIOUS
    <3> HIDE DEF T
    <3> QED
      BY <3>1, LeastNat
  <2>2. n \in i + 1 .. Last16 /\ n \in 0 .. Last16 /\ L[n] # NULL /\ ~Before(n) /\ n # 0
    BY <2>1
  <2>3. OnTheList(m, F, R, class, L, n)
    BY <2>2, AlongList
  <2>4. PICK p \in 0 .. Last16 : p = n - 1
    BY <2>2, <1>0
  <2>5. /\ L[p] # NULL /\ L[p] \in F /\ R[L[p]] < R[L[n]] /\ L[n] \in F
    BY <2>2, <2>3, <2>4 DEF OnTheList
  <2>6. p # i
    BY <2>2, <2>5
  <2>7. p \in i + 1 .. Last16 /\ ~(n <= p)
    BY <2>2, <2>4, <2>6, <1>0
  <2>8. p \notin T
    <3> HIDE DEF T
    <3> QED
      BY <2>1, <2>7
  <2>9. Before(p)
    BY <2>5, <2>7, <2>8
  <2>10. R[L[i]] \in Nat /\ R[L[p]] \in Nat /\ R[L[n]] \in Nat
    BY <2>5, <2>9, <1>0
  <2>11. R[L[i]] < R[L[n]]
    BY <2>5, <2>9, <2>10
  <2> QED
    BY <2>2, <2>9, <2>11
<1>2. j \in i + 1 .. Last16
  BY <1>0
<1>3. Before(j)
  BY <1>1, <1>2
<1>4. OnTheList(m, F, R, class, L, j)
  BY AlongList
<1>5. L[i] \in F /\ L[j] \in F /\ R[L[i]] < R[L[j]] /\ L[i] # NULL
  BY <1>3, <1>4 DEF OnTheList
<1>6. R[L[i]] \in Nat /\ R[L[j]] \in Nat
  BY <1>0, <1>5
<1>7. R[L[i]] # R[L[j]]
  BY <1>5, <1>6
<1> QED
  BY <1>5, <1>7

(* Free blocks are at least 16 bytes apart.                                *)
LEMMA SixteenApart ==
  ASSUME NEW m, NEW brk, NEW S, Walls(m, brk, S, 0, 0)
  PROVE  /\ FreeIn(m, brk, S, 0) \subseteq Nat \ {0}
         /\ \A b \in FreeIn(m, brk, S, 0) : b \div 16 \in 0 .. Last16 - 1
         /\ \A b, c \in FreeIn(m, brk, S, 0) : b # c => b \div 16 # c \div 16
<1> DEFINE F == FreeIn(m, brk, S, 0)
<1>0. MAX_HEAP \in Nat /\ brk \in Nat /\ brk <= MAX_HEAP
  BY HeapAssumption, WallsSay
<1>1. \A b \in F : /\ b \in S /\ b # brk /\ b # 0 /\ b \in Nat /\ b >= 16
                   /\ Size(m, b) \in Nat /\ Size(m, b) >= 16 /\ b + Size(m, b) <= brk
  <2>1. \A b \in F : b \in S /\ b # brk /\ b # 0 /\ b \in S \ {brk, 0}
    BY DEF FreeIn
  <2> QED
    BY <2>1, Nexts, WallsSay DEF class_listp
<1>2. \A b \in F : \A c \in F : c <= b \/ b + Size(m, b) <= c
  <2>1. \A b \in F : Extent(m, 0, 0, b) = Size(m, b) /\ b \in S \ {brk}
    BY <1>1 DEF Extent
  <2> QED
    BY <2>1, <1>1 DEF Walls
<1> HIDE DEF F
<1>3. F \subseteq Nat \ {0}
  BY <1>1
<1>4. ASSUME NEW b \in F PROVE b \div 16 \in 0 .. Last16 - 1
  BY <1>0, <1>1 DEF Last16, MINBLOCK
<1>5. ASSUME NEW b \in F, NEW c \in F, b # c PROVE b \div 16 # c \div 16
  <2>1. b + 16 <= c \/ c + 16 <= b
    BY <1>1, <1>2, <1>5
  <2> QED
    BY <2>1, <1>1
<1> QED
  BY <1>3, <1>4, <1>5 DEF F

(* Every free block is on the list of its class.                           *)
LEMMA AllListed ==
  ASSUME NEW m, NEW brk, NEW S, Walls(m, brk, S, 0, 0),
         NEW F, F = FreeIn(m, brk, S, 0), NEW R, Linked(m, F, R),
         NEW class \in Classes, NEW L, L = Listed(m, class),
         NEW b \in F, Class(m, b) = class
  PROVE  \E n \in 0 .. Last16 : L[n] = b
<1>0. /\ Last16 \in Nat /\ R \in [F -> Nat] /\ F \subseteq Nat \ {0}
      /\ \A c \in F : c \div 16 \in 0 .. Last16 - 1
      /\ \A c, d \in F : c # d => c \div 16 # d \div 16
  BY SixteenApart, HeapAssumption DEF Last16, MINBLOCK, Linked
<1>1. /\ L \in [0 .. Last16 -> F \cup {NULL}]
      /\ L[0] = m[class]
      /\ \A n \in 1 .. Last16 :
            L[n] = IF L[n - 1] = NULL THEN NULL ELSE Succ(m, L[n - 1])
  <2>1. FollowsList(m, F, class, L)
    BY <1>0, ListedIs
  <2> QED
    BY <2>1 DEF FollowsList, Last16
<1> DEFINE Missed == {c \in F : Class(m, c) = class /\ \A n \in 0 .. Last16 : L[n] # c}
           T == {R[c] : c \in Missed}
<1>2. SUFFICES ASSUME b \in Missed PROVE FALSE
  OBVIOUS
<1>3. PICK c \in Missed : \A d \in Missed : R[c] <= R[d]
  <2>1. T \subseteq Nat /\ T # {}
    BY <1>0, <1>2
  <2>2. PICK r \in T : \A s \in T : r <= s
    <3> HIDE DEF T
    <3> QED
      BY <2>1, LeastNat
  <2> QED
    BY <2>2
<1>4. c \in F /\ Class(m, c) = class /\ \A n \in 0 .. Last16 : L[n] # c
  BY <1>3
<1>5. Pred(m, c) # NULL
  <2> SUFFICES ASSUME Pred(m, c) = NULL PROVE FALSE
    OBVIOUS
  <2>1. m[class] = c
    BY <1>4 DEF Linked
  <2> QED
    BY <2>1, <1>0, <1>1, <1>4
<1>6. PICK p \in F : /\ p = Pred(m, c) /\ Class(m, p) = class
                     /\ Succ(m, p) = c /\ R[p] < R[c]
  BY <1>4, <1>5 DEF Linked
<1>7. p \notin Missed
  <2>1. R[p] \in Nat /\ R[c] \in Nat /\ ~(R[c] <= R[p])
    BY <1>0, <1>4, <1>6
  <2> HIDE DEF Missed
  <2> QED
    BY <2>1, <1>3
<1>8. PICK i \in 0 .. Last16 : L[i] = p
  BY <1>6, <1>7
<1>9. p # NULL
  BY <1>0 DEF NULL
<1>10. i = Last16
  <2> SUFFICES ASSUME i # Last16 PROVE FALSE
    OBVIOUS
  <2>1. PICK n \in 1 .. Last16 : n = i + 1
    BY <1>0
  <2>2. n \in 0 .. Last16 /\ n - 1 = i
    BY <2>1
  <2>3. L[n] = c
    BY <2>1, <2>2, <1>1, <1>6, <1>8, <1>9
  <2> QED
    BY <2>2, <2>3, <1>4
<1>11. \A k \in 0 .. Last16 : L[k] # NULL
  <2> SUFFICES ASSUME NEW k \in 0 .. Last16, k # i PROVE L[k] # NULL
    BY <1>8, <1>9
  <2>1. k < i /\ i \in 0 .. Last16 /\ L[i] # NULL
    BY <1>0, <1>8, <1>9, <1>10
  <2> QED
    BY <2>1, <1>0, ListedOnce
<1>12. \A j \in 0 .. Last16 : \A k \in 0 .. Last16 : j < k => L[j] # L[k]
  BY <1>0, <1>11, ListedOnce
<1> DEFINE f == [k \in 0 .. Last16 |-> L[k] \div 16]
           D == 0 .. Last16
           E == 0 .. Last16 - 1
<1>13. \A k \in D : L[k] \in F
  BY <1>1, <1>11
<1>14. \A k \in D : f[k] = L[k] \div 16 /\ f[k] \in E
  BY <1>0, <1>13
<1>15. ASSUME NEW j \in D, NEW k \in D, j # k PROVE f[j] # f[k]
  <2>1. L[j] # L[k]
    <3>1. j < k \/ k < j
      BY <1>0, <1>15
    <3> QED
      BY <3>1, <1>12
  <2> QED
    BY <2>1, <1>0, <1>13, <1>14
<1>16. f \in Injection(D, E)
  <2>1. f \in [D -> E]
    BY <1>14
  <2> HIDE DEF f, D, E
  <2> QED
    BY <2>1, <1>15 DEF Injection, IsInjective
<1>17. IsFiniteSet(E) /\ Cardinality(E) = Last16 /\ Cardinality(D) = Last16 + 1
  <2>1. 0 \in Int /\ Last16 \in Int /\ Last16 - 1 \in Int
    BY <1>0
  <2>2. IsFiniteSet(E) /\ Cardinality(E) = IF 0 > Last16 - 1 THEN 0 ELSE (Last16 - 1) - 0 + 1
    BY <2>1, FS_Interval
  <2>3. Cardinality(D) = IF 0 > Last16 THEN 0 ELSE Last16 - 0 + 1
    BY <2>1, FS_Interval
  <2> HIDE DEF D, E
  <2> QED
    BY <2>1, <2>2, <2>3, <1>0
<1>18. Cardinality(D) <= Cardinality(E)
  <2> HIDE DEF f, D, E
  <2> QED
    BY <1>16, <1>17, FS_Injection
<1> HIDE DEF f, D, E
<1> QED
  BY <1>0, <1>17, <1>18
-----------------------------------------------------------------------------
(* 9. find_fit and mm_malloc.                                              *)

(* b is a smallest free block of a class that fits, or NULL.               *)
FoundFit(m, F, class, a, b) ==
    \/ b = NULL /\ \A c \in F : Class(m, c) = class => ~(Size(m, c) >= a)
    \/ /\ b \in F /\ Class(m, b) = class /\ Size(m, b) >= a
       /\ \A c \in F : Class(m, c) = class /\ Size(m, c) >= a => Size(m, b) <= Size(m, c)

(* find_fit finds it.                                                      *)
LEMMA FindFits ==
  ASSUME NEW m, NEW brk, NEW S, Walls(m, brk, S, 0, 0),
         NEW F, F = FreeIn(m, brk, S, 0), NEW R, Linked(m, F, R),
         NEW class \in Classes, NEW a \in Nat, NEW b, b = find_fit(m, class, a)
  PROVE  FoundFit(m, F, class, a, b)
<1>1. PICK L : L = Listed(m, class)
  OBVIOUS
<1>2. F \subseteq Nat \ {0} /\ \A c \in F : Size(m, c) \in Nat
  <2>1. \A c \in F : c \in S \ {brk, 0}
    BY DEF FreeIn
  <2> QED
    BY <2>1, SixteenApart, Nexts
<1>3. /\ L \in [0 .. Last16 -> F \cup {NULL}] /\ DOMAIN L = 0 .. Last16
  <2>1. FollowsList(m, F, class, L)
    BY <1>1, <1>2, ListedIs
  <2> QED
    BY <2>1 DEF FollowsList, Last16
<1>4. \A n \in 0 .. Last16 : L[n] # NULL => L[n] \in F /\ Class(m, L[n]) = class
  BY <1>1, <1>2, AlongList DEF OnTheList
<1>5. \A c \in F : Class(m, c) = class => \E n \in 0 .. Last16 : L[n] = c
  BY <1>1, AllListed
<1>6. \A c \in F : c # NULL
  BY <1>2 DEF NULL
<1> DEFINE Fit == {n \in DOMAIN L : L[n] # NULL /\ Size(m, L[n]) >= a}
           Best == {n \in Fit : \A k \in Fit : Size(m, L[n]) <= Size(m, L[k])}
<1>7. b = IF Fit = {} THEN NULL ELSE L[Min(Best)]
  BY <1>1 DEF find_fit
<1>8. ASSUME NEW c \in F, Class(m, c) = class, Size(m, c) >= a PROVE \E n \in Fit : L[n] = c
  BY <1>3, <1>5, <1>6, <1>8
<1>9. CASE Fit = {}
  <2>1. b = NULL /\ \A c \in F : Class(m, c) = class => ~(Size(m, c) >= a)
    BY <1>7, <1>8, <1>9
  <2> QED
    BY <2>1 DEF FoundFit
<1>10. CASE Fit # {}
  <2>1. \A n \in Fit : /\ L[n] \in F /\ Class(m, L[n]) = class /\ Size(m, L[n]) \in Nat
                       /\ Size(m, L[n]) >= a /\ n \in Nat
    BY <1>2, <1>3, <1>4
  <2>2. Best # {}
    <3> DEFINE T == {Size(m, L[n]) : n \in Fit}
    <3>1. T \subseteq Nat /\ T # {}
      BY <2>1, <1>10
    <3>2. PICK s \in T : \A t \in T : s <= t
      <4> HIDE DEF T
      <4> QED
        BY <3>1, LeastNat
    <3>3. PICK n \in Fit : s = Size(m, L[n])
      BY <3>2
    <3>4. \A k \in Fit : Size(m, L[n]) <= Size(m, L[k])
      BY <3>2, <3>3
    <3> QED
      BY <3>3, <3>4
  <2>3. Best \subseteq Nat
    BY <2>1
  <2>4. Min(Best) \in Best
    <3> HIDE DEF Best
    <3> QED
      BY <2>2, <2>3, MinNat
  <2>5. PICK n \in Fit : b = L[n] /\ \A k \in Fit : Size(m, L[n]) <= Size(m, L[k])
    BY <2>4, <1>7, <1>10
  <2>6. ASSUME NEW c \in F, Class(m, c) = class, Size(m, c) >= a
        PROVE  Size(m, b) <= Size(m, c)
    <3>1. PICK k \in Fit : L[k] = c
      BY <2>6, <1>8
    <3> QED
      BY <3>1, <2>5
  <2>7. b \in F /\ Class(m, b) = class /\ Size(m, b) >= a
    BY <2>1, <2>5
  <2> QED
    BY <2>6, <2>7 DEF FoundFit
<1> QED
  BY <1>9, <1>10

(* The larger the size, the later its class.                               *)
LEMMA ClassGrows ==
  ASSUME NEW s \in Int, NEW t \in Int, s <= t
  PROVE  match_heap(s) <= match_heap(t)
BY DEF match_heap, MINBLOCK, class_listp, WSIZE

(* What mm_malloc gives: a smallest free block that fits, in place, or a   *)
(* block at the end of the heap when none does.                            *)
Growth16(a) == IF a > CHUNKSIZE THEN a ELSE CHUNKSIZE
Malloced(m, r, brk, S, size) ==
    LET F == FreeIn(m, brk, S, 0)
        a == ADJUST(size)
    IN  \/ /\ r.bp = NULL /\ r.mem = m /\ r.brk = brk
           /\ size # 0 => /\ brk + Growth16(a) > MAX_HEAP
                          /\ \A c \in F : ~(Size(m, c) >= a)
        \/ /\ size # 0 /\ r.bp # NULL /\ r.brk \in Nat
           /\ PlacedAt(m, r.mem, r.brk, Used(m, brk, S, 0), r.bp, a)
           /\ \/ /\ r.brk = brk /\ r.bp \in F /\ Size(m, r.bp) >= a
                 /\ \A c \in F : Size(m, c) >= a => Size(m, r.bp) <= Size(m, c)
              \/ r.brk > brk /\ \A c \in F : ~(Size(m, c) >= a)

(* mm_malloc, in a heap without a hole.                                    *)
LEMMA Mallocs ==
  ASSUME NEW m, NEW brk, NEW S, HeapAt(m, brk, S, 0, 0), NEW size, Fitting(size),
         NEW r, r = mm_malloc(m, brk, size)
  PROVE  Malloced(m, r, brk, S, size)
<1>0. Walls(m, brk, S, 0, 0) /\ brk \in Nat
  BY BlockWords DEF HeapAt
<1>1. PICK F : F = FreeIn(m, brk, S, 0)
  OBVIOUS
<1>2. PICK R : Linked(m, F, R)
  BY <1>1 DEF HeapAt
<1>3. PICK a : a = ADJUST(size)
  OBVIOUS
<1>4. a \in Nat /\ a % 8 = 0 /\ a >= 16 /\ a < 2 ^ SizeBits
  BY <1>3, AdjustIs
<1>5. F \subseteq Nat \ {0} /\ \A c \in F : Size(m, c) \in Nat /\ Class(m, c) \in Classes
  <2>1. \A c \in F : c \in S \ {brk, 0}
    BY <1>1 DEF FreeIn
  <2> QED
    BY <2>1, <1>0, <1>1, SixteenApart, Nexts, HasClass DEF Class
<1>6. \A class \in Classes : FoundFit(m, F, class, a, find_fit(m, class, a))
  BY <1>0, <1>1, <1>2, <1>4, FindFits
<1> DEFINE Usable == {class \in Classes : /\ class >= match_heap(a)
                                          /\ find_fit(m, class, a) # NULL}
<1>7. Classes \subseteq Nat
  BY DEF Classes, class_listp, WSIZE, CLASS_SIZE
<1>8. ASSUME NEW c \in F, Size(m, c) >= a PROVE Class(m, c) \in Usable
  <2>1. match_heap(a) <= Class(m, c) /\ Class(m, c) \in Classes
    BY <1>4, <1>5, <1>8, ClassGrows DEF Class
  <2>2. FoundFit(m, F, Class(m, c), a, find_fit(m, Class(m, c), a))
    BY <2>1, <1>6
  <2>3. find_fit(m, Class(m, c), a) # NULL
    BY <2>2, <1>5, <1>8 DEF FoundFit, NULL
  <2>4. match_heap(a) \in Nat /\ Class(m, c) \in Nat
    <3>1. match_heap(a) \in Classes
      BY <1>4, HasClass
    <3> QED
      BY <2>1, <3>1, <1>7
  <2> QED
    BY <2>1, <2>3, <2>4
<1>9. CASE size = 0
  <2>1. r = Result(m, brk, NULL)
    BY <1>9 DEF mm_malloc
  <2> QED
    BY <2>1, <1>9 DEF Malloced, Result
<1>10. CASE size # 0 /\ Usable # {}
  <2>1. PICK k : k = Min(Usable)
    OBVIOUS
  <2>2. k \in Usable /\ \A l \in Usable : k <= l
    <3>1. Usable \subseteq Nat
      BY <1>7
    <3> HIDE DEF Usable
    <3> QED
      BY <3>1, <2>1, <1>10, MinNat
  <2>3. PICK b : b = find_fit(m, k, a)
    OBVIOUS
  <2>4. /\ b \in F /\ Class(m, b) = k /\ Size(m, b) >= a /\ b # NULL
        /\ \A c \in F : Class(m, c) = k /\ Size(m, c) >= a => Size(m, b) <= Size(m, c)
    BY <2>2, <2>3, <1>6 DEF FoundFit
  <2>5. ASSUME NEW c \in F, Size(m, c) >= a PROVE Size(m, b) <= Size(m, c)
    <3>1. k <= Class(m, c)
      BY <2>2, <2>5, <1>8
    <3>2. CASE Class(m, c) = k
      BY <3>2, <2>4, <2>5
    <3>3. CASE Class(m, c) # k
      <4>1. Class(m, c) \in Nat /\ k \in Nat
        BY <2>4, <1>5, <1>7
      <4>2. ~(Class(m, c) <= Class(m, b))
        BY <4>1, <3>1, <3>3, <2>4
      <4>3. ~(Size(m, c) <= Size(m, b))
        BY <4>2, <2>4, <1>5, ClassGrows DEF Class
      <4> QED
        BY <4>3, <2>4, <1>5
    <3> QED
      BY <3>2, <3>3
  <2>6. r = Result(place(m, b, a), brk, b)
    <3>1. r = PlacedIn(Result(m, brk, b), a)
      BY <2>1, <2>3, <1>3, <1>10 DEF mm_malloc
    <3> QED
      BY <3>1, <2>4 DEF PlacedIn, Result
  <2>7. r.mem = place(m, b, a) /\ r.brk = brk /\ r.bp = b
    BY <2>6 DEF Result
  <2>8. PlacedAt(m, r.mem, brk, Used(m, brk, S, 0), b, a)
    BY <2>4, <2>7, <1>1, <1>4, Places
  <2> QED
    BY <2>4, <2>5, <2>7, <2>8, <1>0, <1>1, <1>3, <1>10 DEF Malloced
<1>11. CASE size # 0 /\ Usable = {}
  <2>1. \A c \in F : ~(Size(m, c) >= a)
    BY <1>8, <1>11
  <2>2. PICK g : g = Growth16(a)
    OBVIOUS
  <2>3. g \in Nat /\ g % 8 = 0 /\ g >= 16 /\ g < 2 ^ SizeBits /\ g >= a
    BY <2>2, <1>4, HeapAssumption DEF Growth16
  <2>4. PICK x : x = extend_heap(m, brk, g)
    OBVIOUS
  <2>5. GrownTo(m, x, brk, Used(m, brk, S, 0), g)
    BY <2>3, <2>4, Extends
  <2>6. r = PlacedIn(x, a)
    BY <2>2, <2>4, <1>3, <1>11 DEF mm_malloc, Growth16
  <2>7. CASE x = Result(m, brk, NULL) /\ brk + g > MAX_HEAP
    <3>1. r = Result(m, brk, NULL)
      BY <2>6, <2>7 DEF PlacedIn, Result
    <3> QED
      BY <3>1, <2>1, <2>2, <2>7, <1>1, <1>3 DEF Malloced, Result
  <2>8. CASE x.brk = brk + g /\ Merged(m, x, brk + g, Used(m, brk, S, 0), g)
    <3>1. PICK n \in Nat : n = brk + g
      BY <1>0, <2>3
    <3>2. PICK T : /\ Heaped(m, x.mem, n, T, Used(m, brk, S, 0))
                   /\ x.bp \in FreeIn(x.mem, n, T, 0) /\ Size(x.mem, x.bp) >= g
      BY <3>1, <2>8 DEF Merged
    <3>3. /\ HeapAt(x.mem, n, T, 0, 0) /\ Used(x.mem, n, T, 0) = Used(m, brk, S, 0)
          /\ Spares(m, x.mem, Used(m, brk, S, 0))
      BY <3>2 DEF Heaped
    <3>4. Walls(x.mem, n, T, 0, 0)
      BY <3>3 DEF HeapAt
    <3>5. x.bp # NULL /\ x.bp \in T \ {n, 0}
      BY <3>2, <3>4, SixteenApart DEF NULL, FreeIn
    <3>6. Size(x.mem, x.bp) >= a
      BY <3>2, <3>4, <3>5, <2>3, <1>4, Nexts
    <3>7. r = Result(place(x.mem, x.bp, a), n, x.bp)
      BY <3>1, <3>5, <2>6, <2>8 DEF PlacedIn
    <3>8. r.mem = place(x.mem, x.bp, a) /\ r.brk = n /\ r.bp = x.bp
      BY <3>7 DEF Result
    <3>9. PlacedAt(x.mem, r.mem, n, Used(x.mem, n, T, 0), r.bp, a)
      BY <3>2, <3>3, <3>6, <3>8, <1>4, Places
    <3>10. PlacedAt(m, r.mem, n, Used(m, brk, S, 0), r.bp, a)
      BY <3>3, <3>9, SparesTwice DEF PlacedAt
    <3>11. n > brk
      BY <3>1, <2>3, <1>0
    <3> QED
      BY <3>5, <3>8, <3>10, <3>11, <2>1, <1>1, <1>3, <1>11 DEF Malloced
  <2> QED
    BY <2>5, <2>7, <2>8 DEF GrownTo
<1> QED
  BY <1>9, <1>10, <1>11
-----------------------------------------------------------------------------
(* 10. mm_realloc: in place, into the block in front, or elsewhere.        *)

(* Of what is written into an allocated block the heap sees nothing.       *)
Unseen(m, m2, brk, S, b) ==
    /\ HeapAt(m2, brk, S, 0, 0) /\ Used(m2, brk, S, 0) = Used(m, brk, S, 0)
    /\ Spares(m, m2, Used(m, brk, S, 0) \ {b}) /\ SameHeaders(m, m2, S)
    /\ FreeIn(m2, brk, S, 0) = FreeIn(m, brk, S, 0)

(* It is the same heap, with the same blocks and the same lists.           *)
LEMMA PayloadWritten ==
  ASSUME NEW m, NEW brk, NEW S, HeapAt(m, brk, S, 0, 0), NEW b \in Used(m, brk, S, 0),
         NEW m2 \in Memory, \A p \in Addr : p < b \/ p > b + Size(m, b) - 8 => m2[p] = m[p]
  PROVE  Unseen(m, m2, brk, S, b)
<1>0. Walls(m, brk, S, 0, 0)
  BY DEF HeapAt
<1>1. b \in S \ {brk, 0} /\ b \in S \ {class_listp, brk} /\ b \in Nat /\ Allocated(m, b) /\ b >= 40
  BY <1>0, WallsSay, FirstBlock DEF Used
<1>2. PICK s : s = Size(m, b)
  OBVIOUS
<1>3. s \in Nat /\ s >= 16 /\ NEXT_BLKP(m, b) = b + s /\ Extent(m, 0, 0, b) = s
  BY <1>0, <1>1, <1>2, Nexts
<1>4. \A p \in Addr : p < b \/ p > b + s - 8 => m2[p] = m[p]
  BY <1>2
<1>5. \A c \in S : c \in Nat /\ c - 4 \in Addr /\ (c <= b \/ b + s <= c) /\ c # 0
  <2>1. \A c \in S : c <= b \/ b + Extent(m, 0, 0, b) <= c
    BY <1>0, <1>1 DEF Walls
  <2> QED
    BY <2>1, <1>0, <1>3, WallsSay, BlockWords
<1>6. SameHeaders(m, m2, S)
  <2>1. ASSUME NEW c \in S PROVE m2[c - 4] = m[c - 4]
    <3>1. c - 4 < b \/ c - 4 > b + s - 8
      BY <1>1, <1>3, <1>5
    <3> QED
      BY <3>1, <1>4, <1>5
  <2> QED
    BY <2>1 DEF SameHeaders, Header, WSIZE
<1>7. \A c \in S : /\ Size(m2, c) = Size(m, c)
                   /\ Allocated(m2, c) <=> Allocated(m, c)
                   /\ PrevAllocated(m2, c) <=> PrevAllocated(m, c)
  BY <1>6, HeadersSay
<1>8. m2[12] = m[12] /\ \A k \in Classes : m2[k] = m[k]
  <2>1. 12 \in Addr /\ Classes \subseteq Addr
    BY <1>0, BlockWords
  <2>2. \A k \in Classes : k \in Nat /\ k <= 32
    BY DEF Classes, class_listp, WSIZE, CLASS_SIZE
  <2>3. 12 < b /\ \A k \in Classes : k < b
    BY <2>2, <1>1
  <2> QED
    BY <2>1, <2>3, <1>4
<1>9. ASSUME NEW c \in S \ {brk, 0}, c # b
      PROVE  /\ c \in Nat /\ Size(m, c) \in Nat /\ Size(m, c) >= 16
             /\ NEXT_BLKP(m, c) = c + Size(m, c)
             /\ c \in Addr /\ c + 4 \in Addr /\ c + Size(m, c) - 8 \in Addr
             /\ c + Size(m, c) <= b \/ (b + s < c + Size(m, c) /\ b + s <= c)
  <2>1. /\ Size(m, c) \in Nat /\ Size(m, c) >= 16 /\ Extent(m, 0, 0, c) = Size(m, c)
        /\ NEXT_BLKP(m, c) = c + Size(m, c) /\ NEXT_BLKP(m, c) \in S
    BY <1>0, <1>9, Nexts
  <2>2. c \in Addr /\ c + 4 \in Addr /\ c + Size(m, c) - 8 \in Addr
    BY <2>1, <1>0, <1>9, BlockWords
  <2>3. \A d \in S : d <= c \/ c + Extent(m, 0, 0, c) <= d
    BY <1>0, <1>9 DEF Walls
  <2>4. c < b \/ b + s <= c
    BY <1>1, <1>5, <1>9
  <2>5. c < b => c + Size(m, c) <= b
    BY <2>1, <2>3, <1>1, <1>5, <1>9
  <2>6. c + Size(m, c) <= b \/ (b + s < c + Size(m, c) /\ b + s <= c)
    <3>1. c \in Nat
      BY <1>5, <1>9
    <3>2. PICK t \in Nat : t = Size(m, c)
      BY <2>1
    <3>3. t >= 16 /\ b \in Nat /\ s \in Nat /\ (c < b \/ b + s <= c) /\ (c < b => c + t <= b)
      BY <3>2, <2>1, <2>4, <2>5, <1>1, <1>3
    <3>4. b + s <= c => b + s < c + t
      BY <3>1, <3>3
    <3> QED
      BY <3>2, <3>3, <3>4
  <2> QED
    BY <2>1, <2>2, <2>6, <1>5, <1>9
<1>10. ASSUME NEW c \in FreeIn(m, brk, S, 0)
       PROVE  /\ Pred(m2, c) = Pred(m, c) /\ Succ(m2, c) = Succ(m, c)
              /\ m2[NEXT_BLKP(m, c) - DSIZE] = m[NEXT_BLKP(m, c) - DSIZE]
  <2>1. c \in S \ {brk, 0} /\ c # b
    BY <1>1 DEF FreeIn
  <2>2. /\ c \in Nat /\ Size(m, c) \in Nat /\ Size(m, c) >= 16
        /\ NEXT_BLKP(m, c) = c + Size(m, c)
        /\ c \in Addr /\ c + 4 \in Addr /\ c + Size(m, c) - 8 \in Addr
        /\ c + Size(m, c) <= b \/ (b + s < c + Size(m, c) /\ b + s <= c)
    BY <2>1, <1>9
  <2>3. m2[c] = m[c] /\ m2[c + 4] = m[c + 4]
    BY <2>2, <1>1, <1>3, <1>4
  <2>4. /\ NEXT_BLKP(m, c) - DSIZE = c + Size(m, c) - 8
        /\ c + Size(m, c) - 8 < b \/ c + Size(m, c) - 8 > b + s - 8
    BY <2>2, <1>1, <1>3 DEF DSIZE
  <2>5. m2[c + Size(m, c) - 8] = m[c + Size(m, c) - 8]
    BY <2>2, <2>4, <1>4
  <2> QED
    BY <2>3, <2>4, <2>5 DEF Pred, Succ, WSIZE
<1>11. HeapAt(m2, brk, S, 0, 0)
  BY <1>7, <1>8, <1>10, HeapSeen
<1>12. /\ Used(m2, brk, S, 0) = Used(m, brk, S, 0)
       /\ FreeIn(m2, brk, S, 0) = FreeIn(m, brk, S, 0)
  BY <1>7 DEF Used, FreeIn
<1>13. ASSUME NEW c \in Used(m, brk, S, 0) \ {b} PROVE Intact(m, m2, c)
  <2>1. c \in S \ {brk, 0} /\ c # b /\ c \in S
    BY <1>13, <1>5 DEF Used
  <2>2. /\ c \in Nat /\ Size(m, c) \in Nat
        /\ c + Size(m, c) <= b \/ (b + s < c + Size(m, c) /\ b + s <= c)
    BY <2>1, <1>9
  <2>3. ASSUME NEW p \in Addr, c <= p, p <= c + Size(m, c) - 8 PROVE m2[p] = m[p]
    <3>1. p < b \/ p > b + s - 8
      BY <2>2, <2>3, <1>1, <1>3, AddrIs
    <3> QED
      BY <3>1, <1>4
  <2> QED
    BY <2>1, <2>3, <1>7 DEF Intact, DSIZE
<1> QED
  BY <1>6, <1>11, <1>12, <1>13 DEF Unseen, Spares

(* mm_realloc to bp: of the block ptr, what fits into a bytes is kept.     *)
Kept(m, j, ptr, bp, a) ==
    \A k \in Nat : 4 * k <= Size(m, ptr) - 8 /\ 4 * k <= a - 8
                       => j[bp + 4 * k] = m[ptr + 4 * k]
MovedAt(m, j, brk, A, ptr, bp, a) ==
    \E T : /\ HeapAt(j, brk, T, 0, 0) /\ Used(j, brk, T, 0) = (A \ {ptr}) \cup {bp}
           /\ Spares(m, j, A \ {ptr}) /\ bp \notin A \ {ptr} /\ Size(j, bp) >= a
           /\ Kept(m, j, ptr, bp, a)

(* The words of an allocated block. *)
LEMMA UsedWords ==
  ASSUME NEW m, NEW brk, NEW S, HeapAt(m, brk, S, 0, 0), NEW b \in Used(m, brk, S, 0)
  PROVE  /\ b \in Nat /\ b >= 40 /\ b % 8 = 0 /\ b \in S /\ b # 0
         /\ Size(m, b) \in Nat /\ Size(m, b) >= 16 /\ Size(m, b) % 8 = 0
         /\ b + Size(m, b) <= MAX_HEAP /\ NEXT_BLKP(m, b) = b + Size(m, b)
         /\ \A k \in Nat : 4 * k <= Size(m, b) - 4 => b + 4 * k \in Addr
<1>0. Walls(m, brk, S, 0, 0) /\ brk \in Nat /\ brk <= MAX_HEAP /\ MAX_HEAP \in Nat
  BY WallsSay, HeapAssumption, BlockWords DEF HeapAt
<1>1. b \in S \ {brk, 0} /\ b \in Nat /\ b >= 40 /\ b % 8 = 0
  BY <1>0, WallsSay, FirstBlock DEF Used
<1>2. PICK s : s = Size(m, b)
  OBVIOUS
<1>3. s \in Nat /\ s >= 16 /\ s % 8 = 0 /\ NEXT_BLKP(m, b) = b + s /\ b + s <= brk
  BY <1>0, <1>1, <1>2, Nexts
<1>4. ASSUME NEW k \in Nat, 4 * k <= s - 4 PROVE b + 4 * k \in Addr
  <2>1. PICK p \in Nat : p = b + 4 * k
    BY <1>1
  <2>2. p % 4 = 0 /\ p + 4 <= MAX_HEAP
    BY <2>1, <1>0, <1>1, <1>3, <1>4
  <2> QED
    BY <2>1, <2>2, IsAddr
<1> QED
  BY <1>0, <1>1, <1>2, <1>3, <1>4

(* Shrunk: in place. *)
LEMMA Shrinks ==
  ASSUME NEW m, NEW brk, NEW S, HeapAt(m, brk, S, 0, 0), NEW b \in Used(m, brk, S, 0),
         NEW a \in Nat, a % 8 = 0, a >= 16, a <= Size(m, b),
         NEW j, j = Shrunk(m, b, a)
  PROVE  MovedAt(m, j, brk, Used(m, brk, S, 0), b, b, a)
<1>0. /\ b \in Nat /\ b >= 40 /\ b % 8 = 0 /\ b \in S
      /\ \A k \in Nat : 4 * k <= Size(m, b) - 4 => b + 4 * k \in Addr
  BY UsedWords
<1>1. PICK h : h = Size(m, b)
  OBVIOUS
<1>2. h \in Nat /\ h >= 16 /\ h % 8 = 0 /\ a <= h
  BY <1>1, UsedWords
<1>3. PICK A : A = Used(m, brk, S, 0)
  OBVIOUS
<1>4. A = (A \ {b}) \cup {b} /\ b \notin A \ {b}
  BY <1>3
<1>5. CASE ~(h - a >= 16)
  <2>1. j = m
    BY <1>1, <1>5 DEF Shrunk, MINBLOCK
  <2>2. Spares(m, j, A \ {b}) /\ Kept(m, j, b, b, a) /\ Size(j, b) >= a
    BY <2>1, <1>1, <1>2 DEF Spares, Intact, Kept
  <2> QED
    BY <2>1, <2>2, <1>3, <1>4 DEF MovedAt
<1>6. CASE h - a >= 16
  <2>1. /\ HeapAt(m, brk, S, b, h) /\ Used(m, brk, S, b) = A \ {b}
    BY <1>1, <1>3, OpenUsed
  <2>2. PICK flags : flags = ALLOC + PallocFlag(m, b)
    OBVIOUS
  <2>3. flags \in {1, 3} /\ (flags = 3 <=> PrevAllocated(m, b))
    BY <2>2 DEF ALLOC, PALLOC, PallocFlag
  <2>4. PICK x : x = b + a
    OBVIOUS
  <2>5. PICK rest : rest = h - a
    OBVIOUS
  <2>6. PICK f : f = PutFree(PutHeader(m, b, a, flags), b + a, h - a, PALLOC)
    OBVIOUS
  <2>7. Split(m, f, brk, S, b, h, a)
    BY <2>1, <2>3, <2>6, <1>0, <1>6, HoleSplit
  <2>8. /\ Cut(m, f, brk, S, b, h, a) /\ Size(f, b) = a /\ Size(f, x) = rest
        /\ \A p \in Addr : p # b - 4 /\ p # b + a - 4 /\ p # b + h - 8 => f[p] = m[p]
    <3>1. /\ Cut(m, f, brk, S, b, h, a) /\ Size(f, b) = a /\ Size(f, b + a) = h - a
          /\ \A p \in Addr : p # b - 4 /\ p # b + a - 4 /\ p # b + h - 8 => f[p] = m[p]
      BY <2>7 DEF Split
    <3> QED
      BY <3>1, <2>4, <2>5
  <2>9. PICK T : T = S \cup {x}
    OBVIOUS
  <2>10. /\ HeapAt(f, brk, T, x, rest) /\ x \in T
         /\ Used(f, brk, T, x) = (A \ {b}) \cup {b} /\ Spares(m, f, A \ {b})
    BY <2>1, <2>4, <2>5, <2>8, <2>9 DEF Cut
  <2>11. j = mm_free(f, x)
    BY <1>1, <1>6, <2>2, <2>4, <2>6 DEF Shrunk, MINBLOCK
  <2>12. ReleasedTo(f, j, brk, Used(f, brk, T, x))
    BY <2>8, <2>10, <2>11, FreeHole
  <2>13. PICK V : /\ HeapAt(j, brk, V, 0, 0) /\ Used(j, brk, V, 0) = (A \ {b}) \cup {b}
                  /\ Spares(f, j, (A \ {b}) \cup {b})
    BY <2>10, <2>12 DEF ReleasedTo, Heaped
  <2>14. Intact(f, j, b) /\ Spares(f, j, A \ {b})
    BY <2>13 DEF Spares
  <2>15. Spares(m, j, A \ {b})
    BY <2>10, <2>14, SparesTwice
  <2>16. Size(j, b) = a /\ \A p \in Addr : b <= p /\ p <= b + a - 8 => j[p] = f[p]
    BY <2>8, <2>14 DEF Intact, DSIZE
  <2>17. ASSUME NEW k \in Nat, 4 * k <= h - 8, 4 * k <= a - 8
         PROVE  j[b + 4 * k] = m[b + 4 * k]
    <3>1. PICK p \in Nat : p = b + 4 * k
      BY <1>0
    <3>2. p \in Addr
      BY <3>1, <1>0, <1>1, <1>2, <2>17
    <3>3. b <= p /\ p <= b + a - 8 /\ p # b - 4 /\ p # b + a - 4 /\ p # b + h - 8
      BY <3>1, <1>0, <1>2, <1>6, <2>17
    <3> QED
      BY <3>1, <3>2, <3>3, <2>8, <2>16
  <2>18. Kept(m, j, b, b, a)
    BY <2>17, <1>1 DEF Kept
  <2>19. Size(j, b) >= a
    BY <2>16
  <2> QED
    BY <2>13, <2>15, <2>18, <2>19, <1>3, <1>4 DEF MovedAt
<1> QED
  BY <1>5, <1>6

(* A free block in front is found through its footer.                      *)
LEMMA FreeInFront ==
  ASSUME NEW m, NEW brk, NEW S, HeapAt(m, brk, S, 0, 0),
         NEW c \in S \ {class_listp}, ~PrevAllocated(m, c), NEW p, p = PREV_BLKP(m, c)
  PROVE  p \in FreeIn(m, brk, S, 0) /\ NEXT_BLKP(m, p) = c
<1>0. Walls(m, brk, S, 0, 0) /\ Tags(m, brk, S, 0) /\ 0 \notin S
  BY WallsSay DEF HeapAt
<1>1. c # 0 /\ 0 + 0 = 0 /\ c \in Nat /\ c # 0 + 0
  BY <1>0, WallsSay
<1>2. PICK q \in S \ {brk, 0} : NEXT_BLKP(m, q) = c /\ (Allocated(m, q) <=> PrevAllocated(m, c))
  <2>1. PICK q \in S \ {brk} : q + Extent(m, 0, 0, q) = c
    BY <1>0, Previous
  <2>2. q \in S \ {brk, 0}
    BY <2>1, <1>0
  <2>3. NEXT_BLKP(m, q) = c
    BY <2>1, <2>2, <1>0, Nexts
  <2> QED
    BY <2>2, <2>3, <1>0, <1>1 DEF Tags
<1>3. q \in FreeIn(m, brk, S, 0)
  BY <1>2 DEF FreeIn
<1>4. /\ Size(m, q) \in Nat /\ Size(m, q) % 8 = 0 /\ NEXT_BLKP(m, q) = q + Size(m, q)
      /\ q \in Nat
  BY <1>0, <1>2, Nexts, WallsSay
<1>5. m[c - DSIZE] = Size(m, q)
  BY <1>0, <1>2, <1>3 DEF Tags, FreeIn
<1>6. p = q
  BY <1>1, <1>2, <1>4, <1>5 DEF PREV_BLKP, SIZE
<1> QED
  BY <1>2, <1>3, <1>6

(* What Move writes.                                                       *)
Moved(m, m2, to, from, n) ==
    /\ m2 \in Memory
    /\ \A p \in Addr : p < to \/ p > to + n - 4 => m2[p] = m[p]
    /\ \A k \in Nat : 4 * k <= n - 4 /\ to + 4 * k \in Addr => m2[to + 4 * k] = m[from + 4 * k]

(* Move goes upwards, and reads no word that it has written.               *)
LEMMA Moves ==
  ASSUME NEW m \in Memory, NEW to \in Nat, NEW from \in Nat, NEW n \in Nat,
         to % 8 = 0, from % 8 = 0, n % 8 = 0, from + n <= MAX_HEAP,
         NEW m2, m2 = Move(m, to, from, n)
  PROVE  Moved(m, m2, to, from, n)
<1>0. DOMAIN m = Addr /\ MAX_HEAP \in Nat
  BY HeapAssumption DEF Memory
<1>1. m2 = [p \in Addr |-> IF p \in to .. to + n - 1 THEN m[from + (p - to)] ELSE m[p]]
  BY <1>0 DEF Move
<1>2. ASSUME NEW p \in Addr, p \in to .. to + n - 1
      PROVE  from + (p - to) \in Addr /\ p <= to + n - 4
  <2>1. p \in Nat /\ p % 4 = 0 /\ to <= p /\ p <= to + n - 1
    BY <1>2, AddrIs
  <2>2. p - to \in Nat /\ (p - to) % 4 = 0 /\ p - to <= n - 4 /\ p <= to + n - 4
    BY <2>1
  <2>3. PICK d \in Nat : d = p - to
    BY <2>2
  <2>4. from + d \in Nat /\ (from + d) % 4 = 0 /\ from + d + 4 <= MAX_HEAP
    BY <1>0, <2>2, <2>3
  <2>5. from + d \in Addr
    BY <2>4, IsAddr
  <2> QED
    BY <2>2, <2>3, <2>5
<1>3. m2 \in Memory
  <2>1. \A p \in Addr : m[p] \in Int
    BY DEF Memory
  <2> QED
    BY <1>1, <1>2, <2>1 DEF Memory
<1>4. ASSUME NEW p \in Addr, p < to \/ p > to + n - 4 PROVE m2[p] = m[p]
  <2>1. p \in Nat /\ p \notin to .. to + n - 1
    BY <1>2, <1>4, AddrIs
  <2> QED
    BY <2>1, <1>1
<1>5. ASSUME NEW k \in Nat, 4 * k <= n - 4, to + 4 * k \in Addr
      PROVE  m2[to + 4 * k] = m[from + 4 * k]
  <2>1. PICK p \in Addr : p = to + 4 * k
    BY <1>5
  <2>2. p \in to .. to + n - 1 /\ from + (p - to) = from + 4 * k
    BY <2>1, <1>5
  <2> QED
    BY <2>1, <2>2, <1>1
<1> QED
  BY <1>3, <1>4, <1>5 DEF Moved

(* The free block in front and an allocated block become one hole.         *)
Opened(m, u, brk, S, p, b) ==
    /\ HeapAt(u, brk, S \ {b}, p, Size(m, p) + Size(m, b)) /\ p \in S \ {b}
    /\ Used(u, brk, S \ {b}, p) = Used(m, brk, S, 0) \ {b}
    /\ SameHeaders(m, u, S) /\ Spares(m, u, Used(m, brk, S, 0))

(* unjoin takes the free block off its list before.                        *)
LEMMA OpenBoth ==
  ASSUME NEW m, NEW brk, NEW S, HeapAt(m, brk, S, 0, 0), NEW b \in Used(m, brk, S, 0),
         NEW p \in FreeIn(m, brk, S, 0), NEXT_BLKP(m, p) = b, NEW u, u = unjoin(m, p)
  PROVE  Opened(m, u, brk, S, p, b)
<1>0. /\ Walls(m, brk, S, 0, 0) /\ p \in S \ {brk, 0} /\ p \in S /\ p \in Nat
      /\ b \in S /\ Size(m, p) \in Nat
      /\ p + Size(m, p) = b /\ p # b
  <2>1. Walls(m, brk, S, 0, 0)
    BY DEF HeapAt
  <2>2. p \in S \ {brk, 0} /\ p \in Nat /\ ~Allocated(m, p) /\ b \in S /\ Allocated(m, b)
    BY <2>1, SixteenApart DEF FreeIn, Used
  <2> QED
    BY <2>1, <2>2, Nexts
<1>1. PICK h : h = Size(m, p)
  OBVIOUS
<1>2. /\ HeapAt(u, brk, S, p, Size(m, p)) /\ SameHeaders(m, u, S)
      /\ Used(u, brk, S, p) = Used(m, brk, S, 0)
      /\ Spares(m, u, Used(m, brk, S, 0))
  BY OpenFree
<1>3. HeapAt(u, brk, S, p, h) /\ b = p + h /\ b \in Used(u, brk, S, p)
  BY <1>0, <1>1, <1>2
<1>4. /\ HeapAt(u, brk, S \ {b}, p, h + Size(u, b))
      /\ Used(u, brk, S \ {b}, p) = Used(u, brk, S, p) \ {b}
  BY <1>0, <1>3, WidenUsed
<1>5. Size(u, b) = Size(m, b)
  BY <1>0, <1>2, HeadersSay
<1> QED
  BY <1>0, <1>1, <1>2, <1>4, <1>5 DEF Opened

(* The move itself: words are written inside the hole only.                *)
Carried(m, u, w, p, b) ==
    /\ w \in Memory
    /\ \A q \in Addr : q < p \/ q > p + Size(m, b) - 4 => w[q] = u[q]
    /\ \A k \in Nat : 4 * k <= Size(m, b) - 8 => w[p + 4 * k] = m[b + 4 * k]

(* No tag of another block is written.                                     *)
LEMMA Carries ==
  ASSUME NEW m, NEW brk, NEW S, HeapAt(m, brk, S, 0, 0), NEW b \in Used(m, brk, S, 0),
         NEW p \in FreeIn(m, brk, S, 0), NEXT_BLKP(m, p) = b, NEW u, Opened(m, u, brk, S, p, b),
         NEW w, w = Move(u, p, b, Size(m, b))
  PROVE  Carried(m, u, w, p, b)
<1>0. /\ b \in Nat /\ b >= 40 /\ b % 8 = 0 /\ Size(m, b) \in Nat /\ Size(m, b) % 8 = 0
      /\ Size(m, b) >= 16 /\ b + Size(m, b) <= MAX_HEAP /\ MAX_HEAP \in Nat
      /\ \A k \in Nat : 4 * k <= Size(m, b) - 4 => b + 4 * k \in Addr
  BY UsedWords, HeapAssumption
<1>1. PICK s : s = Size(m, b)
  OBVIOUS
<1>2. Walls(m, brk, S, 0, 0) /\ p \in S \ {brk, 0}
  BY DEF HeapAt, FreeIn
<1>3. p \in Nat /\ p % 8 = 0 /\ p + Size(m, p) = b /\ Size(m, p) \in Nat /\ Size(m, p) >= 16
  BY <1>2, Nexts, WallsSay
<1>4. u \in Memory /\ Spares(m, u, Used(m, brk, S, 0))
  BY HoleWords DEF Opened
<1>5. Moved(u, w, p, b, s)
  BY <1>0, <1>1, <1>3, <1>4, Moves
<1>6. ASSUME NEW k \in Nat, 4 * k <= s - 8 PROVE w[p + 4 * k] = m[b + 4 * k]
  <2>1. PICK q \in Nat : q = p + 4 * k
    BY <1>3
  <2>2. q % 4 = 0 /\ q + 4 <= MAX_HEAP
    BY <2>1, <1>0, <1>1, <1>3, <1>6
  <2>3. q \in Addr
    BY <2>2, IsAddr
  <2>4. w[p + 4 * k] = u[b + 4 * k]
    BY <2>1, <2>3, <1>0, <1>1, <1>5, <1>6 DEF Moved
  <2>5. PICK r \in Addr : r = b + 4 * k
    BY <1>0, <1>1, <1>6
  <2>6. b <= r /\ r <= b + s - 8
    BY <2>5, <1>0, <1>1, <1>6
  <2>7. u[r] = m[r]
    BY <2>6, <1>1, <1>4 DEF Spares, Intact, DSIZE
  <2> QED
    BY <2>4, <2>5, <2>7
<1> QED
  BY <1>1, <1>5, <1>6 DEF Moved, Carried

(* What was moved down into a hole is tagged, and the rest is a hole.      *)
Lowered(u, w, f, brk, S, p, h, a) ==
    /\ Cut(u, f, brk, S, p, h, a) /\ Size(f, p) = a /\ Size(f, p + a) = h - a
    /\ \A q \in Addr : q # p - 4 /\ q # (p + a) - 4 => f[q] = w[q]

(* No tag of another block is written.                                     *)
LEMMA HoleLowered ==
  ASSUME NEW u, NEW brk, NEW S, NEW p, NEW h, HeapAt(u, brk, S, p, h), p \in S,
         PrevAllocated(u, p), NEW s \in Nat, NEW a \in Nat, a % 8 = 0, a >= 16, s < a,
         h - a >= 16, NEW w \in Memory, \A q \in Addr : q < p \/ q > p + s - 4 => w[q] = u[q],
         NEW flags, flags = ALLOC + PALLOC,
         NEW f, f = PutHeader(PutHeader(w, p, a, flags), p + a, h - a, PALLOC)
  PROVE  Lowered(u, w, f, brk, S, p, h, a)
<1>0. p \in Nat /\ p % 8 = 0 /\ h \in Nat /\ h % 8 = 0 /\ p + h \in Nat
  BY HoleSays
<1>1. p - 4 \in Addr /\ (p + h) - 4 \in Addr /\ (p + a) - 4 \in Addr
  <2>1. \A x \in Nat : x % 8 = 0 /\ p <= x /\ x <= p + h => x - 4 \in Addr
    BY HoleWords
  <2>2. /\ p + a \in Nat /\ (p + a) % 8 = 0 /\ p <= p + a /\ p + a <= p + h
        /\ (p + h) % 8 = 0 /\ p <= p + h /\ p <= p
    BY <1>0
  <2> QED
    BY <2>1, <2>2, <1>0
<1>2. flags \in 0 .. 3 /\ flags \in {1, 3} /\ flags \in {2, 3}
  BY DEF ALLOC, PALLOC
<1>3. PICK c : c = PutHeader(w, p, a, flags)
  OBVIOUS
<1>4. Tagged(w, c, p, a, flags)
  BY <1>0, <1>1, <1>2, <1>3, PutHeaderReads
<1>5. PICK x \in Nat : x = p + a
  BY <1>0
<1>6. PICK rest \in Nat : rest = h - a
  BY <1>0
<1>7. PICK palloc \in 0 .. 3 : palloc = PALLOC
  BY DEF PALLOC
<1>8. f = PutHeader(c, x, rest, palloc)
  BY <1>3, <1>5, <1>6, <1>7
<1>9. Tagged(c, f, x, rest, palloc)
  <2>1. c \in Memory /\ rest % 8 = 0 /\ x - 4 \in Addr
    BY <1>0, <1>1, <1>4, <1>5, <1>6 DEF Tagged
  <2> QED
    BY <2>1, <1>8, PutHeaderReads
<1>10. \A q \in Addr : q # p - 4 /\ q # x - 4 => f[q] = w[q]
  BY <1>4, <1>9 DEF Tagged
<1>11. \A q \in Addr : q < p - 4 \/ q > (p + h) - 4 => f[q] = u[q]
  <2> SUFFICES ASSUME NEW q \in Addr, q < p - 4 \/ q > (p + h) - 4 PROVE f[q] = u[q]
    OBVIOUS
  <2>1. q # p - 4 /\ q # x - 4 /\ (q < p \/ q > p + s - 4)
    BY <1>0, <1>5, AddrIs
  <2> QED
    BY <2>1, <1>10
<1>12. Header(f, p + h) = Header(u, p + h) /\ Header(f, p) = Header(c, p)
  <2>1. /\ (p + h) - 4 # p - 4 /\ (p + h) - 4 # x - 4 /\ (p + h) - 4 > p + s - 4
        /\ p - 4 # x - 4
    BY <1>0, <1>5
  <2> QED
    BY <2>1, <1>1, <1>9, <1>10 DEF Header, WSIZE, Tagged
<1>13. /\ f \in Memory /\ Size(f, p) = a /\ Allocated(f, p) /\ PrevAllocated(f, p)
       /\ PrevAllocated(f, x) /\ Size(f, x) = rest
  <2>1. Size(c, p) = a /\ Allocated(c, p) /\ PrevAllocated(c, p)
    BY <1>2, <1>4 DEF Tagged
  <2>2. Size(f, p) = a /\ Allocated(f, p) /\ PrevAllocated(f, p)
    BY <2>1, <1>12 DEF Size, Allocated, PrevAllocated
  <2>3. palloc \in {2, 3}
    BY <1>7 DEF PALLOC
  <2> QED
    BY <2>2, <2>3, <1>9 DEF Tagged
<1>14. Cut(u, f, brk, S, p, h, a)
  BY <1>5, <1>11, <1>12, <1>13, HoleCut
<1>15. Size(f, p + a) = h - a
  BY <1>5, <1>6, <1>13
<1>16. \A q \in Addr : q # p - 4 /\ q # (p + a) - 4 => f[q] = w[q]
  BY <1>5, <1>10
<1> QED
  BY <1>13, <1>14, <1>15, <1>16 DEF Lowered

(* MovedDown: the block and the free one before become one, or two.        *)
LEMMA MovesDown ==
  ASSUME NEW m, NEW brk, NEW S, HeapAt(m, brk, S, 0, 0), NEW b \in Used(m, brk, S, 0),
         NEW a \in Nat, a % 8 = 0, a >= 16, a > Size(m, b), UsesPrevious(m, b, a),
         NEW j, j = MovedDown(m, b, a), NEW p, p = PREV_BLKP(m, b)
  PROVE  MovedAt(m, j, brk, Used(m, brk, S, 0), b, p, a) /\ p # NULL
<1>0. /\ b \in Nat /\ b >= 40 /\ b % 8 = 0 /\ b \in S /\ b # 0
      /\ Size(m, b) \in Nat /\ Size(m, b) >= 16 /\ Size(m, b) % 8 = 0
      /\ NEXT_BLKP(m, b) = b + Size(m, b)
  BY UsedWords
<1>1. p \in FreeIn(m, brk, S, 0) /\ NEXT_BLKP(m, p) = b
  <2>1. b \in S \ {class_listp} /\ ~PrevAllocated(m, b)
    BY DEF Used, UsesPrevious
  <2> QED
    BY <2>1, FreeInFront
<1>2. Walls(m, brk, S, 0, 0) /\ Tags(m, brk, S, 0) /\ p \in S \ {brk, 0} /\ p \in S
  BY <1>1 DEF HeapAt, FreeIn
<1>3. /\ p \in Nat /\ p % 8 = 0 /\ p + Size(m, p) = b /\ Size(m, p) \in Nat
      /\ Size(m, p) >= 16 /\ Size(m, p) % 8 = 0
  BY <1>1, <1>2, Nexts, WallsSay
<1>4. PICK u : u = unjoin(m, p)
  OBVIOUS
<1>5. Opened(m, u, brk, S, p, b)
  BY <1>1, <1>4, OpenBoth
<1>6. PICK s \in Nat : s = Size(m, b)
  BY <1>0
<1>7. PICK h \in Nat : h = Size(m, p) + s
  BY <1>3
<1>8. h >= 32 /\ h % 8 = 0 /\ a <= h /\ s < a /\ s >= 16 /\ s % 8 = 0 /\ p + h = b + s
  BY <1>0, <1>3, <1>6, <1>7 DEF UsesPrevious
<1>9. PICK T : T = S \ {b}
  OBVIOUS
<1>10. PICK A : A = Used(m, brk, S, 0)
  OBVIOUS
<1>11. /\ HeapAt(u, brk, T, p, h) /\ p \in T /\ Used(u, brk, T, p) = A \ {b}
       /\ SameHeaders(m, u, S) /\ Spares(m, u, A)
  BY <1>5, <1>6, <1>7, <1>9, <1>10 DEF Opened
<1>12. PICK w : w = Move(u, p, b, s)
  OBVIOUS
<1>13. Carried(m, u, w, p, b)
  BY <1>1, <1>5, <1>6, <1>12, Carries
<1>14. /\ w \in Memory /\ \A q \in Addr : q < p \/ q > p + s - 4 => w[q] = u[q]
       /\ \A k \in Nat : 4 * k <= s - 8 => w[p + 4 * k] = m[b + 4 * k]
  BY <1>6, <1>13 DEF Carried
<1>15. /\ PrevAllocated(u, p) /\ p \notin A \ {b} /\ p # NULL
       /\ Size(u, p + h) = Size(m, p + h) /\ PrevAllocated(u, p + h)
  <2>1. PrevAllocated(m, p)
    <3>1. 0 \notin S
      BY <1>2, WallsSay
    <3> QED
      BY <3>1, <1>1, FreeStandsAlone
  <2>2. b + s \in S /\ PrevAllocated(m, b + s)
    <3>1. b \in S \ {brk, 0} /\ Allocated(m, b)
      BY <1>0 DEF Used
    <3> QED
      BY <3>1, <1>0, <1>2, <1>6, Nexts DEF Tags
  <2>3. p \notin A
    BY <1>1, <1>10 DEF Used, FreeIn
  <2> QED
    BY <2>1, <2>2, <2>3, <1>2, <1>8, <1>11, HeadersSay DEF NULL
<1>16. /\ p - 4 \in Addr /\ (p + h) - 4 \in Addr /\ (p + a) - 4 \in Addr
  <2>1. \A x \in Nat : x % 8 = 0 /\ p <= x /\ x <= p + h => x - 4 \in Addr
    BY <1>11, HoleWords
  <2>2. /\ p + a \in Nat /\ (p + a) % 8 = 0 /\ p <= p + a /\ p + a <= p + h
        /\ p + h \in Nat /\ (p + h) % 8 = 0 /\ p <= p + h /\ p <= p
    BY <1>3, <1>8
  <2> QED
    BY <2>1, <2>2, <1>3
<1>17. PICK flags \in 0 .. 3 : flags = ALLOC + PALLOC
  BY DEF ALLOC, PALLOC
<1>18. flags \in {1, 3} /\ flags \in {2, 3}
  BY <1>17 DEF ALLOC, PALLOC
<1>19. CASE h - a >= 16
  <2>1. PICK x : x = p + a
    OBVIOUS
  <2>2. PICK rest : rest = h - a
    OBVIOUS
  <2>3. PICK f : f = PutHeader(PutHeader(w, p, a, flags), p + a, h - a, PALLOC)
    OBVIOUS
  <2>4. Lowered(u, w, f, brk, T, p, h, a)
    BY <2>3, <1>8, <1>11, <1>14, <1>15, <1>17, <1>19, HoleLowered
  <2>5. /\ Cut(u, f, brk, T, p, h, a) /\ Size(f, p) = a /\ Size(f, x) = rest
        /\ \A q \in Addr : q # p - 4 /\ q # x - 4 => f[q] = w[q]
    BY <2>1, <2>2, <2>4 DEF Lowered
  <2>6. PICK V : V = T \cup {x}
    OBVIOUS
  <2>7. /\ HeapAt(f, brk, V, x, rest) /\ x \in V
         /\ Used(f, brk, V, x) = (A \ {b}) \cup {p} /\ Spares(u, f, A \ {b})
    BY <2>1, <2>2, <2>5, <2>6, <1>11 DEF Cut
  <2>8. j = mm_free(f, x)
    <3>1. Size(m, b) + Size(m, p) = h
      BY <1>3, <1>6, <1>7
    <3> QED
      BY <3>1, <2>1, <2>3, <1>4, <1>6, <1>12, <1>17, <1>19
         DEF MovedDown, MINBLOCK
  <2>9. ReleasedTo(f, j, brk, Used(f, brk, V, x))
    BY <2>5, <2>7, <2>8, FreeHole
  <2>10. PICK W : /\ HeapAt(j, brk, W, 0, 0) /\ Used(j, brk, W, 0) = (A \ {b}) \cup {p}
                  /\ Spares(f, j, (A \ {b}) \cup {p})
    BY <2>7, <2>9 DEF ReleasedTo, Heaped
  <2>11. Intact(f, j, p) /\ Spares(f, j, A \ {b}) /\ Spares(m, u, A \ {b})
    BY <2>10, <1>11 DEF Spares
  <2>12. Spares(m, j, A \ {b})
    <3>1. Spares(m, f, A \ {b})
      BY <2>7, <2>11, SparesTwice
    <3> QED
      BY <3>1, <2>11, SparesTwice
  <2>13. Size(j, p) = a /\ \A q \in Addr : p <= q /\ q <= p + a - 8 => j[q] = f[q]
    BY <2>5, <2>11 DEF Intact, DSIZE
  <2>14. ASSUME NEW k \in Nat, 4 * k <= s - 8, 4 * k <= a - 8
         PROVE  j[p + 4 * k] = m[b + 4 * k]
    <3>1. PICK q \in Nat : q = p + 4 * k
      BY <1>3
    <3>2. q % 4 = 0 /\ q + 4 <= p + h - 4
      BY <3>1, <2>14, <1>3, <1>8
    <3>3. q \in Addr
      <4>1. (p + h) - 4 \in Nat /\ (p + h) - 4 + 4 <= MAX_HEAP /\ MAX_HEAP \in Nat
        BY <1>16, <1>3, AddrIs, HeapAssumption
      <4>2. q + 4 <= MAX_HEAP
        BY <4>1, <3>2, <1>3
      <4> QED
        BY <4>2, <3>2, IsAddr
    <3>4. p <= q /\ q <= p + a - 8 /\ q # p - 4 /\ q # x - 4
      BY <3>1, <2>1, <2>14, <1>3
    <3> QED
      BY <3>1, <3>3, <3>4, <2>5, <2>13, <2>14, <1>14
  <2>15. Kept(m, j, b, p, a)
    BY <2>14, <1>6 DEF Kept
  <2>16. Size(j, p) >= a
    BY <2>13
  <2>17. MovedAt(m, j, brk, A, b, p, a)
    BY <2>10, <2>12, <2>15, <2>16, <1>15 DEF MovedAt
  <2> QED
    BY <2>17, <1>10, <1>15
<1>20. CASE ~(h - a >= 16)
  <2>1. j = PutHeader(w, p, h, flags)
    <3>1. Size(m, b) + Size(m, p) = h
      BY <1>3, <1>6, <1>7
    <3> QED
      BY <3>1, <1>4, <1>6, <1>12, <1>17, <1>20 DEF MovedDown, MINBLOCK
  <2>2. Tagged(w, j, p, h, flags)
    BY <2>1, <1>3, <1>8, <1>14, <1>16, PutHeaderReads
  <2>3. j \in Memory /\ Size(j, p) = h /\ Allocated(j, p) /\ PrevAllocated(j, p)
    BY <2>2, <1>18 DEF Tagged
  <2>4. \A q \in Addr : q < p - 4 \/ q > (p + h) - 4 => j[q] = u[q]
    <3> SUFFICES ASSUME NEW q \in Addr, q < p - 4 \/ q > (p + h) - 4 PROVE j[q] = u[q]
      OBVIOUS
    <3>1. q # p - 4 /\ (q < p \/ q > p + s - 4)
      BY <1>3, <1>8, AddrIs
    <3> QED
      BY <3>1, <2>2, <1>14 DEF Tagged
  <2>5. Header(j, p + h) = Header(u, p + h)
    <3>1. (p + h) - 4 # p - 4 /\ (p + h) - 4 > p + s - 4
      BY <1>3, <1>8
    <3> QED
      BY <3>1, <2>2, <1>14, <1>16 DEF Header, WSIZE, Tagged
  <2>6. /\ Size(j, p + h) = Size(u, p + h) /\ PrevAllocated(j, p + h)
        /\ Allocated(j, p + h) <=> Allocated(u, p + h)
    BY <2>5, <1>15 DEF Size, PrevAllocated, Allocated
  <2>7. /\ HeapAt(j, brk, T, 0, 0) /\ Used(j, brk, T, 0) = (A \ {b}) \cup {p}
        /\ Spares(u, j, A \ {b})
    <3>1. PrevAllocated(j, p) <=> PrevAllocated(u, p)
      BY <2>3, <1>15
    <3>2. HeapAt(u, brk, T, p, h) /\ p \in T
      BY <1>11
    <3>3. /\ HeapAt(j, brk, T, 0, 0) /\ Used(j, brk, T, 0) = Used(u, brk, T, p) \cup {p}
          /\ Spares(u, j, Used(u, brk, T, p))
      BY <3>1, <3>2, <2>3, <2>4, <2>6, HoleFilled
    <3> QED
      BY <3>3, <1>11
  <2>8. Spares(m, j, A \ {b})
    <3>1. Spares(m, u, A \ {b})
      BY <1>11 DEF Spares
    <3> QED
      BY <3>1, <2>7, SparesTwice
  <2>9. ASSUME NEW k \in Nat, 4 * k <= s - 8, 4 * k <= a - 8
        PROVE  j[p + 4 * k] = m[b + 4 * k]
    <3>1. PICK q \in Nat : q = p + 4 * k
      BY <1>3
    <3>2. q % 4 = 0 /\ q + 4 <= p + h - 4 /\ q # p - 4
      BY <3>1, <2>9, <1>3, <1>8
    <3>3. q \in Addr
      <4>1. (p + h) - 4 \in Nat /\ (p + h) - 4 + 4 <= MAX_HEAP /\ MAX_HEAP \in Nat
        BY <1>16, <1>3, AddrIs, HeapAssumption
      <4>2. q + 4 <= MAX_HEAP
        BY <4>1, <3>2, <1>3
      <4> QED
        BY <4>2, <3>2, IsAddr
    <3> QED
      BY <3>1, <3>2, <3>3, <2>2, <2>9, <1>14 DEF Tagged
  <2>10. Kept(m, j, b, p, a)
    BY <2>9, <1>6 DEF Kept
  <2>11. Size(j, p) >= a
    BY <2>3, <1>8
  <2>12. MovedAt(m, j, brk, A, b, p, a)
    BY <2>7, <2>8, <2>10, <2>11, <1>15 DEF MovedAt
  <2> QED
    BY <2>12, <1>10, <1>15
<1> QED
  BY <1>19, <1>20

(* What mm_realloc gives.                                                  *)
Realloced(m, r, brk, S, b, size) ==
    LET a == ADJUST(size)
    IN  \/ /\ r.bp = NULL /\ r.mem = m /\ r.brk = brk /\ brk + Growth16(a) > MAX_HEAP
           /\ \A c \in FreeIn(m, brk, S, 0) : ~(Size(m, c) >= a)
        \/ /\ r.bp # NULL /\ r.brk \in Nat /\ r.brk >= brk
           /\ MovedAt(m, r.mem, r.brk, Used(m, brk, S, 0), b, r.bp, a)

(* MovedTo: to a block of mm_malloc's.                                     *)
LEMMA MovesTo ==
  ASSUME NEW m, NEW brk, NEW S, HeapAt(m, brk, S, 0, 0), NEW b \in Used(m, brk, S, 0),
         NEW a \in Nat, a % 8 = 0, a > Size(m, b), NEW n, NEW end, NEW bp,
         PlacedAt(m, n, end, Used(m, brk, S, 0), bp, a),
         NEW j, j = mm_free(Move(n, bp, b, Size(m, b)), b)
  PROVE  MovedAt(m, j, end, Used(m, brk, S, 0), b, bp, a) /\ bp # NULL
<1>0. /\ b \in Nat /\ b % 8 = 0 /\ Size(m, b) \in Nat /\ Size(m, b) >= 16
      /\ Size(m, b) % 8 = 0 /\ b + Size(m, b) <= MAX_HEAP
      /\ \A k \in Nat : 4 * k <= Size(m, b) - 4 => b + 4 * k \in Addr
  BY UsedWords
<1>1. PICK s \in Nat : s = Size(m, b)
  BY <1>0
<1>2. PICK A : A = Used(m, brk, S, 0)
  OBVIOUS
<1>3. PICK T : /\ HeapAt(n, end, T, 0, 0) /\ Used(n, end, T, 0) = A \cup {bp}
               /\ Spares(m, n, A) /\ bp \notin A /\ Size(n, bp) >= a
  BY <1>2 DEF PlacedAt
<1>4. /\ bp \in Nat /\ bp % 8 = 0 /\ bp # 0 /\ Size(n, bp) \in Nat
      /\ \A k \in Nat : 4 * k <= Size(n, bp) - 4 => bp + 4 * k \in Addr
      /\ bp \in Used(n, end, T, 0)
  <2>1. bp \in Used(n, end, T, 0)
    BY <1>3
  <2> QED
    BY <2>1, <1>3, UsedWords
<1>5. n \in Memory /\ b \in A /\ b # bp
  BY <1>2, <1>3, WallsSay DEF HeapAt
<1>6. PICK w : w = Move(n, bp, b, s)
  OBVIOUS
<1>7. Moved(n, w, bp, b, s)
  BY <1>0, <1>1, <1>4, <1>5, <1>6, Moves
<1>8. PICK t \in Nat : t = Size(n, bp)
  BY <1>4
<1>9. t >= s + 8
  BY <1>0, <1>1, <1>3, <1>8
<1>10. w \in Memory /\ \A q \in Addr : q < bp \/ q > bp + t - 8 => w[q] = n[q]
  <2>1. \A q \in Addr : q < bp \/ q > bp + t - 8 => q < bp \/ q > bp + s - 4
    BY <1>4, <1>9, AddrIs
  <2> QED
    BY <2>1, <1>7 DEF Moved
<1>11. Unseen(n, w, end, T, bp)
  BY <1>3, <1>4, <1>8, <1>10, PayloadWritten
<1>12. /\ HeapAt(w, end, T, 0, 0) /\ Used(w, end, T, 0) = A \cup {bp}
       /\ Spares(n, w, (A \cup {bp}) \ {bp}) /\ SameHeaders(n, w, T)
  BY <1>3, <1>11 DEF Unseen
<1>13. ReleasedTo(w, j, end, (A \cup {bp}) \ {b})
  <2>1. b \in Used(w, end, T, 0) /\ j = mm_free(w, b)
    BY <1>1, <1>5, <1>6, <1>12
  <2> QED
    BY <2>1, <1>12, FreeUsed
<1>14. (A \cup {bp}) \ {b} = (A \ {b}) \cup {bp} /\ (A \cup {bp}) \ {bp} = A
  BY <1>3, <1>5
<1>15. PICK V : /\ HeapAt(j, end, V, 0, 0) /\ Used(j, end, V, 0) = (A \ {b}) \cup {bp}
                /\ Spares(w, j, (A \ {b}) \cup {bp})
  BY <1>13, <1>14 DEF ReleasedTo, Heaped
<1>16. /\ Intact(w, j, bp) /\ Spares(w, j, A \ {b}) /\ Spares(n, w, A \ {b})
       /\ Spares(m, n, A \ {b}) /\ Intact(m, n, b)
  BY <1>3, <1>5, <1>12, <1>14, <1>15 DEF Spares
<1>17. Spares(m, j, A \ {b})
  <2>1. Spares(m, w, A \ {b})
    BY <1>16, SparesTwice
  <2> QED
    BY <2>1, <1>16, SparesTwice
<1>18. Size(w, bp) = t
  <2>1. bp \in T
    BY <1>4, UsedWords DEF Used
  <2> QED
    BY <2>1, <1>8, <1>12, HeadersSay
<1>19. Size(j, bp) = t /\ \A q \in Addr : bp <= q /\ q <= bp + t - 8 => j[q] = w[q]
  BY <1>16, <1>18 DEF Intact, DSIZE
<1>20. ASSUME NEW k \in Nat, 4 * k <= s - 8 PROVE j[bp + 4 * k] = m[b + 4 * k]
  <2>1. PICK q \in Addr : q = bp + 4 * k
    BY <1>4, <1>8, <1>9, <1>20
  <2>2. bp <= q /\ q <= bp + t - 8
    BY <2>1, <1>4, <1>9, <1>20
  <2>3. 4 * k <= s - 4
    BY <1>20
  <2>4. w[q] = n[b + 4 * k]
    BY <2>1, <2>3, <1>7 DEF Moved
  <2>5. PICK r \in Addr : r = b + 4 * k
    BY <2>3, <1>0, <1>1
  <2>6. b <= r /\ r <= b + s - 8
    BY <2>5, <1>0, <1>20
  <2>7. n[r] = m[r]
    BY <2>6, <1>1, <1>16 DEF Intact, DSIZE
  <2> QED
    BY <2>1, <2>2, <2>4, <2>5, <2>7, <1>19
<1>21. Kept(m, j, b, bp, a)
  BY <1>1, <1>20 DEF Kept
<1>22. Size(j, bp) >= a
  BY <1>3, <1>8, <1>19
<1>23. bp \notin A \ {b}
  BY <1>3
<1> QED
  BY <1>2, <1>4, <1>15, <1>17, <1>21, <1>22, <1>23 DEF MovedAt, NULL

(* mm_realloc. *)
LEMMA Reallocs ==
  ASSUME NEW m, NEW brk, NEW S, HeapAt(m, brk, S, 0, 0), NEW b \in Used(m, brk, S, 0),
         NEW size, Fitting(size), size # 0, NEW r, r = mm_realloc(m, brk, b, size)
  PROVE  Realloced(m, r, brk, S, b, size)
<1>0. brk \in Nat /\ Size(m, b) \in Nat /\ b # 0
  BY BlockWords, UsedWords DEF HeapAt
<1>1. PICK a : a = ADJUST(size)
  OBVIOUS
<1>2. a \in Nat /\ a % 8 = 0 /\ a >= 16
  BY <1>1, AdjustIs
<1>3. CASE a <= Size(m, b)
  <2>1. PICK j : j = Shrunk(m, b, a)
    OBVIOUS
  <2>2. r.mem = j /\ r.brk = brk /\ r.bp = b
    BY <2>1, <1>1, <1>3 DEF mm_realloc, Result
  <2>3. MovedAt(m, j, brk, Used(m, brk, S, 0), b, b, a)
    BY <2>1, <1>2, <1>3, Shrinks
  <2> QED
    BY <2>2, <2>3, <1>0, <1>1 DEF Realloced, NULL
<1>4. CASE a > Size(m, b) /\ UsesPrevious(m, b, a)
  <2>1. PICK j : j = MovedDown(m, b, a)
    OBVIOUS
  <2>2. PICK p : p = PREV_BLKP(m, b)
    OBVIOUS
  <2>3. r.mem = j /\ r.brk = brk /\ r.bp = p
    <3>1. ~(a <= Size(m, b))
      BY <1>0, <1>2, <1>4
    <3> QED
      BY <3>1, <2>1, <2>2, <1>1, <1>4 DEF mm_realloc, Result
  <2>4. MovedAt(m, j, brk, Used(m, brk, S, 0), b, p, a) /\ p # NULL
    BY <2>1, <2>2, <1>2, <1>4, MovesDown
  <2>5. brk >= brk
    BY <1>0
  <2> QED
    BY <2>3, <2>4, <2>5, <1>0, <1>1 DEF Realloced
<1>5. CASE a > Size(m, b) /\ ~UsesPrevious(m, b, a)
  <2>1. PICK new : new = mm_malloc(m, brk, size)
    OBVIOUS
  <2>2. r = MovedTo(new, b, Size(m, b))
    <3>1. ~(a <= Size(m, b))
      BY <1>0, <1>2, <1>5
    <3> QED
      BY <3>1, <2>1, <1>1, <1>5 DEF mm_realloc
  <2>3. Malloced(m, new, brk, S, size)
    BY <2>1, Mallocs
  <2>4. CASE new.bp = NULL
    <3>1. r = new
      BY <2>2, <2>4 DEF MovedTo
    <3> QED
      BY <3>1, <2>3, <2>4, <1>1 DEF Realloced, Malloced
  <2>5. CASE new.bp # NULL
    <3>1. PlacedAt(m, new.mem, new.brk, Used(m, brk, S, 0), new.bp, a) /\ new.brk \in Nat
      BY <2>3, <2>5, <1>1 DEF Malloced
    <3>2. new.brk >= brk
      BY <2>3, <2>5, <1>0 DEF Malloced
    <3>3. PICK j : j = mm_free(Move(new.mem, new.bp, b, Size(m, b)), b)
      OBVIOUS
    <3>4. r.mem = j /\ r.brk = new.brk /\ r.bp = new.bp
      BY <3>3, <2>2, <2>5 DEF MovedTo, Result
    <3>5. MovedAt(m, j, new.brk, Used(m, brk, S, 0), b, new.bp, a) /\ new.bp # NULL
      BY <3>1, <3>3, <1>2, <1>5, MovesTo
    <3> QED
      BY <3>1, <3>2, <3>4, <3>5, <1>1 DEF Realloced
  <2> QED
    BY <2>4, <2>5
<1> QED
  BY <1>0, <1>2, <1>3, <1>4, <1>5
-----------------------------------------------------------------------------
(* 11. The walk over the heap finds every block once.                      *)

(* The walk over the blocks of a heap.                                     *)
Along(m, brk, S) == [b \in S |-> IF b >= brk \/ Size(m, b) < MINBLOCK THEN b
                                 ELSE NEXT_BLKP(m, b)]
WalksHeap(m, brk, S, W) ==
    /\ W \in [0 .. Last16 -> S] /\ W[0] = class_listp
    /\ \A n \in 1 .. Last16 : W[n] = IF W[n - 1] = brk THEN brk ELSE NEXT_BLKP(m, W[n - 1])
    /\ Heap(m, brk) = {W[n] : n \in 0 .. Last16}

(* That is what Heap does.                                                 *)
LEMMA HeapWalks ==
  ASSUME NEW m, NEW brk, NEW S, Walls(m, brk, S, 0, 0)
  PROVE  \E W : WalksHeap(m, brk, S, W)
<1> DEFINE N == MAX_HEAP \div MINBLOCK
           step == Along(m, brk, S)
<1>1. N \in Nat
  BY HeapAssumption DEF MINBLOCK
<1>2. /\ brk \in S /\ class_listp \in S /\ brk \in Nat
      /\ \A b \in S : b \in Nat /\ b <= brk
      /\ \A b \in S \ {brk} : NEXT_BLKP(m, b) \in S /\ Size(m, b) >= MINBLOCK
  <2>1. \A b \in S \ {brk} : Extent(m, 0, 0, b) = Size(m, b)
    BY WallsSay DEF Extent
  <2> QED
    BY <2>1, WallsSay DEF NEXT_BLKP, MINBLOCK
<1>3. \A b \in S : step[b] = IF b = brk THEN brk ELSE NEXT_BLKP(m, b)
  <2> SUFFICES ASSUME NEW b \in S PROVE step[b] = IF b = brk THEN brk ELSE NEXT_BLKP(m, b)
    OBVIOUS
  <2>1. step[b] = IF b >= brk \/ Size(m, b) < MINBLOCK THEN b ELSE NEXT_BLKP(m, b)
    BY DEF Along
  <2>2. CASE b = brk
    BY <2>1, <2>2, <1>2
  <2>3. CASE b # brk
    <3>1. Size(m, b) \in Int
      BY BlockWords
    <3>2. ~(b >= brk) /\ ~(Size(m, b) < MINBLOCK)
      BY <3>1, <2>3, <1>2 DEF MINBLOCK
    <3> QED
      BY <3>2, <2>1, <2>3
  <2> QED
    BY <2>2, <2>3
<1>4. step \in [S -> S]
  <2>1. \A b \in S : step[b] \in S
    BY <1>2, <1>3
  <2> QED
    BY <2>1 DEF Along
<1>5. \A b \in S : step[b] = IF b >= brk \/ Size(m, b) < MINBLOCK THEN b ELSE NEXT_BLKP(m, b)
  BY DEF Along
<1> HIDE DEF N, step
<1>6. PICK W \in [0 .. N -> S] : W[0] = class_listp /\ \A n \in 1 .. N : W[n] = step[W[n - 1]]
  <2>1. Walked(S, class_listp, step, N)
    BY <1>1, <1>2, <1>4, WalkExists
  <2> QED
    BY <2>1 DEF Walked
<1> DEFINE Goes(X, n) == IF n = 0 THEN class_listp
                         ELSE IF X[n - 1] >= brk \/ Size(m, X[n - 1]) < MINBLOCK THEN X[n - 1]
                         ELSE NEXT_BLKP(m, X[n - 1])
           Nth == CHOOSE X : X = [n \in 0 .. N |-> Goes(X, n)]
<1>7. W = [n \in 0 .. N |-> Goes(W, n)]
  <2>1. ASSUME NEW n \in 0 .. N PROVE W[n] = Goes(W, n)
    <3>1. CASE n = 0
      BY <3>1, <1>6
    <3>2. CASE n # 0
      <4>1. n \in 1 .. N /\ n - 1 \in 0 .. N
        BY <3>2, <1>1
      <4>2. W[n] = step[W[n - 1]] /\ W[n - 1] \in S
        BY <4>1, <1>6
      <4> QED
        BY <3>2, <4>2, <1>5
    <3> QED
      BY <3>1, <3>2
  <2> HIDE DEF Goes
  <2> QED
    BY <2>1, <1>6
<1>8. Nth = [n \in 0 .. N |-> Goes(Nth, n)]
  <2> HIDE DEF Goes
  <2> QED
    BY <1>7
<1>9. Heap(m, brk) = {Nth[n] : n \in 0 .. N}
  <2>1. Heap(m, brk) = {Nth[n] : n \in DOMAIN Nth}
    BY DEF Heap, N
  <2>2. DOMAIN Nth = 0 .. N
    <3> HIDE DEF Nth, Goes
    <3> QED
      BY <1>8
  <2> QED
    BY <2>1, <2>2
<1>10. \A n \in 0 .. N : Nth[n] = Goes(Nth, n)
  <2> HIDE DEF Nth, Goes
  <2> QED
    BY <1>8
<1> HIDE DEF Nth
<1>11. \A n \in 0 .. N : Nth[n] = W[n]
  <2> DEFINE T == {n \in 0 .. N : Nth[n] # W[n]}
  <2> SUFFICES ASSUME T # {} PROVE FALSE
    OBVIOUS
  <2>1. PICK n \in T : \A k \in T : n <= k
    <3>1. T \subseteq Nat
      OBVIOUS
    <3> HIDE DEF T
    <3> QED
      BY <3>1, LeastNat
  <2>2. n \in 0 .. N /\ Nth[n] # W[n]
    BY <2>1
  <2>3. CASE n = 0
    BY <2>2, <2>3, <1>6, <1>10
  <2>4. CASE n # 0
    <3>1. n - 1 \in 0 .. N /\ ~(n <= n - 1)
      BY <2>2, <2>4, <1>1
    <3>2. Nth[n - 1] = W[n - 1]
      BY <2>1, <3>1
    <3>3. Nth[n] = Goes(Nth, n) /\ W[n] = Goes(W, n)
      <4> HIDE DEF Goes
      <4> QED
        BY <2>2, <1>7, <1>10
    <3>4. Goes(Nth, n) = Goes(W, n)
      BY <3>2
    <3> QED
      BY <2>2, <3>3, <3>4
  <2> QED
    BY <2>3, <2>4
<1>12. Heap(m, brk) = {W[n] : n \in 0 .. N}
  BY <1>9, <1>11
<1>13. \A n \in 1 .. N : W[n] = IF W[n - 1] = brk THEN brk ELSE NEXT_BLKP(m, W[n - 1])
  <2>1. \A n \in 1 .. N : W[n - 1] \in S
    BY <1>1, <1>6
  <2> QED
    BY <2>1, <1>3, <1>6
<1>14. W[0] = class_listp
  BY <1>6
<1> HIDE DEF Goes
<1>15. N = Last16
  BY DEF N, Last16
<1>16. WalksHeap(m, brk, S, W)
  BY <1>12, <1>13, <1>14, <1>15 DEF WalksHeap
<1> QED
  BY <1>16

(* It gets over at least 16 bytes at a step, and so to the end.            *)
LEMMA WalkEnds ==
  ASSUME NEW m, NEW brk, NEW S, Walls(m, brk, S, 0, 0), NEW W, WalksHeap(m, brk, S, W)
  PROVE  W[Last16] = brk
<1>0. Last16 \in Nat /\ MAX_HEAP \in Nat
  BY HeapAssumption DEF Last16, MINBLOCK
<1>1. /\ W \in [0 .. Last16 -> S] /\ W[0] = 16
      /\ \A n \in 1 .. Last16 : W[n] = IF W[n - 1] = brk THEN brk ELSE NEXT_BLKP(m, W[n - 1])
  BY DEF WalksHeap, class_listp
<1>2. /\ brk \in Nat /\ brk <= MAX_HEAP /\ \A b \in S : b \in Nat /\ b <= brk
      /\ \A b \in S \ {brk} : NEXT_BLKP(m, b) \in Nat /\ NEXT_BLKP(m, b) >= b + 16
  <2>1. \A b \in S \ {brk} : Extent(m, 0, 0, b) = Size(m, b) /\ Size(m, b) \in Int
    BY WallsSay, BlockWords DEF Extent
  <2>2. \A b \in S \ {brk} : b \in Nat /\ Size(m, b) >= 16
    BY <2>1, WallsSay
  <2> QED
    BY <2>1, <2>2, WallsSay DEF NEXT_BLKP
<1> DEFINE T == {n \in 0 .. Last16 : W[n] # brk /\ ~(W[n] >= 16 + 16 * n)}
<1>3. T = {}
  <2> SUFFICES ASSUME T # {} PROVE FALSE
    OBVIOUS
  <2>1. PICK n \in T : \A k \in T : n <= k
    <3>1. T \subseteq Nat
      OBVIOUS
    <3> HIDE DEF T
    <3> QED
      BY <3>1, LeastNat
  <2>2. n \in 1 .. Last16 /\ W[n] # brk /\ ~(W[n] >= 16 + 16 * n)
    BY <2>1, <1>1
  <2>3. PICK p \in 0 .. Last16 : p = n - 1
    BY <2>2, <1>0
  <2>4. W[p] # brk /\ W[n] = NEXT_BLKP(m, W[p]) /\ W[p] \in S
    BY <2>2, <2>3, <1>1
  <2>5. W[p] >= 16 + 16 * p
    <3>1. p \notin T
      <4>1. ~(n <= p)
        BY <2>2, <2>3, <1>0
      <4> HIDE DEF T
      <4> QED
        BY <4>1, <2>1
    <3> QED
      BY <3>1, <2>4
  <2>6. W[p] \in Nat /\ W[n] \in Nat /\ W[n] >= W[p] + 16
    BY <2>4, <1>2
  <2> QED
    BY <2>2, <2>3, <2>5, <2>6
<1>4. Last16 \in 0 .. Last16 /\ W[Last16] \in S
  BY <1>0, <1>1
<1>5. 16 + 16 * Last16 > MAX_HEAP
  BY <1>0 DEF Last16, MINBLOCK
<1>6. W[Last16] \in Nat /\ W[Last16] <= MAX_HEAP
  BY <1>0, <1>2, <1>4
<1> QED
  BY <1>0, <1>3, <1>4, <1>5, <1>6

(* The blocks that Heap finds are those of the heap.                       *)
LEMMA HeapIs ==
  ASSUME NEW m, NEW brk, NEW S, Walls(m, brk, S, 0, 0)
  PROVE  Heap(m, brk) = S
<1>0. Last16 \in Nat
  BY HeapAssumption DEF Last16, MINBLOCK
<1>1. PICK W : WalksHeap(m, brk, S, W)
  BY HeapWalks
<1>2. W[Last16] = brk
  BY <1>1, WalkEnds
<1>3. /\ W \in [0 .. Last16 -> S] /\ W[0] = 16
      /\ \A n \in 1 .. Last16 : W[n] = IF W[n - 1] = brk THEN brk ELSE NEXT_BLKP(m, W[n - 1])
      /\ Heap(m, brk) = {W[n] : n \in 0 .. Last16}
  BY <1>1 DEF WalksHeap, class_listp
<1>4. brk \in Nat /\ \A b \in S : b \in Nat /\ b <= brk /\ b >= 16
  BY WallsSay DEF class_listp
<1>5. \A b \in S \ {brk} : \A c \in S : c <= b \/ NEXT_BLKP(m, b) <= c
  <2>1. \A b \in S \ {brk} : Extent(m, 0, 0, b) = Size(m, b)
    BY WallsSay DEF Extent
  <2> QED
    BY <2>1, WallsSay DEF NEXT_BLKP
<1>6. ASSUME NEW b \in S PROVE \E n \in 0 .. Last16 : W[n] = b
  <2> DEFINE T == {n \in 0 .. Last16 : W[n] >= b}
  <2>1. T \subseteq Nat /\ Last16 \in T
    BY <1>0, <1>2, <1>4
  <2>2. PICK n \in T : \A k \in T : n <= k
    <3> HIDE DEF T
    <3> QED
      BY <2>1, LeastNat
  <2>3. n \in 0 .. Last16 /\ W[n] >= b
    BY <2>2
  <2>4. CASE n = 0
    BY <2>3, <2>4, <1>3, <1>4
  <2>5. CASE n # 0
    <3>1. PICK p \in 0 .. Last16 : p = n - 1 /\ n \in 1 .. Last16
      BY <2>3, <2>5, <1>0
    <3>2. ~(W[p] >= b)
      <4>1. p \notin T
        <5>1. ~(n <= p)
          BY <2>3, <3>1
        <5> HIDE DEF T
        <5> QED
          BY <5>1, <2>2
      <4> QED
        BY <4>1
    <3>3. W[p] \in S /\ W[n] \in S
      BY <2>3, <1>3
    <3>4. W[p] < b /\ W[p] # brk
      BY <3>2, <3>3, <1>4
    <3>5. W[n] = NEXT_BLKP(m, W[p])
      BY <3>1, <3>4, <1>3
    <3>6. W[n] <= b
      <4>1. b <= W[p] \/ NEXT_BLKP(m, W[p]) <= b
        BY <3>3, <3>4, <1>5
      <4> QED
        BY <4>1, <3>3, <3>4, <3>5, <1>4
    <3>7. W[n] = b
      BY <2>3, <3>3, <3>6, <1>4
    <3> QED
      BY <2>3, <3>7
  <2> QED
    BY <2>4, <2>5
<1> QED
  BY <1>3, <1>6

(* A heap whose blocks are those that Heap finds.                          *)
Sound(m, brk) == HeapAt(m, brk, Heap(m, brk), 0, 0)

(* Every heap without a hole is one of those.                              *)
LEMMA SoundHeap ==
  ASSUME NEW m, NEW brk, NEW S, HeapAt(m, brk, S, 0, 0)
  PROVE  Heap(m, brk) = S /\ Sound(m, brk)
<1>1. Heap(m, brk) = S
  BY HeapIs DEF HeapAt
<1> QED
  BY <1>1 DEF Sound

(* The free blocks.                                                        *)
LEMMA FreeAre ==
  ASSUME Sound(mem, mem_brk)
  PROVE  /\ FreeBlocks = FreeIn(mem, mem_brk, Heap(mem, mem_brk), 0)
         /\ Blocks = Heap(mem, mem_brk) \ {mem_brk}
<1>1. \A b \in Heap(mem, mem_brk) : b # 0
  BY WallsSay DEF Sound, HeapAt
<1> QED
  BY <1>1 DEF FreeBlocks, Blocks, BlocksOf, FreeIn

(* Its tags agree.                                                         *)
LEMMA SoundTags ==
  ASSUME Sound(mem, mem_brk)
  PROVE  TagsAgree
<1> DEFINE S == Heap(mem, mem_brk)
<1>0. HeapAt(mem, mem_brk, S, 0, 0)
  BY DEF Sound
<1> HIDE DEF S
<1>1. Walls(mem, mem_brk, S, 0, 0) /\ Tags(mem, mem_brk, S, 0)
  BY <1>0 DEF HeapAt
<1>2. mem_brk \in S /\ Size(mem, mem_brk) = 0 /\ Allocated(mem, mem_brk)
  BY <1>1, WallsSay
<1>3. ASSUME NEW b \in S \ {mem_brk}
      PROVE  /\ Size(mem, b) >= MINBLOCK /\ b % 8 = 0
             /\ Allocated(mem, b) <=> PrevAllocated(mem, NEXT_BLKP(mem, b))
             /\ ~Allocated(mem, b) =>
                   /\ Allocated(mem, NEXT_BLKP(mem, b)) /\ PrevAllocated(mem, b)
                   /\ mem[NEXT_BLKP(mem, b) - DSIZE] = Size(mem, b)
  <2>1. b # 0 /\ b % 8 = 0 /\ b \in S \ {mem_brk, 0} /\ 0 \notin S
    BY <1>1, WallsSay
  <2>2. Size(mem, b) >= MINBLOCK /\ NEXT_BLKP(mem, b) # 0
    BY <1>1, <2>1, Nexts DEF MINBLOCK
  <2>3. /\ Allocated(mem, b) <=> PrevAllocated(mem, NEXT_BLKP(mem, b))
        /\ ~Allocated(mem, b) => mem[NEXT_BLKP(mem, b) - DSIZE] = Size(mem, b)
    BY <1>1, <2>1 DEF Tags
  <2>4. ASSUME ~Allocated(mem, b)
        PROVE  Allocated(mem, NEXT_BLKP(mem, b)) /\ PrevAllocated(mem, b)
    <3>1. b \in FreeIn(mem, mem_brk, S, 0)
      BY <2>1, <2>4 DEF FreeIn
    <3> QED
      BY <3>1, <2>1, <2>2, <1>0, FreeStandsAlone
  <2> QED
    BY <2>1, <2>2, <2>3, <2>4
<1>4. Blocks = S \ {mem_brk}
  BY FreeAre DEF S
<1> QED
  BY <1>2, <1>3, <1>4 DEF TagsAgree, S

(* Its lists hold the free blocks.                                         *)
LEMMA SoundLists ==
  ASSUME Sound(mem, mem_brk)
  PROVE  ListsHoldFree
<1> DEFINE S == Heap(mem, mem_brk)
           F == FreeIn(mem, mem_brk, S, 0)
<1>0. HeapAt(mem, mem_brk, S, 0, 0) /\ FreeBlocks = F
  BY FreeAre DEF Sound
<1>1. Walls(mem, mem_brk, S, 0, 0) /\ F \subseteq Nat \ {0}
  BY <1>0, SixteenApart DEF HeapAt
<1>2. PICK R : Linked(mem, F, R)
  BY <1>0 DEF HeapAt
<1> SUFFICES ASSUME NEW class \in Classes
             PROVE  LET Nth == Listed(mem, class)
                        On == {n \in DOMAIN Nth : Nth[n] # NULL}
                    IN  /\ {Nth[n] : n \in On}
                              = {bp \in F : match_heap(Size(mem, bp)) = class}
                        /\ \A n \in On : Pred(mem, Nth[n]) = IF n = 0 THEN NULL ELSE Nth[n - 1]
  BY <1>0 DEF ListsHoldFree
<1>3. PICK L : L = Listed(mem, class)
  OBVIOUS
<1> DEFINE On == {n \in 0 .. Last16 : L[n] # NULL}
<1>4. DOMAIN L = 0 .. Last16
  <2>1. FollowsList(mem, F, class, L)
    BY <1>1, <1>2, <1>3, ListedIs
  <2> QED
    BY <2>1 DEF FollowsList, Last16
<1>5. \A n \in On : OnTheList(mem, F, R, class, L, n)
  BY <1>1, <1>2, <1>3, AlongList
<1>6. \A n \in On : /\ L[n] \in F /\ match_heap(Size(mem, L[n])) = class
                    /\ Pred(mem, L[n]) = IF n = 0 THEN NULL ELSE L[n - 1]
  <2> HIDE DEF On, F
  <2> QED
    BY <1>5 DEF OnTheList, Class
<1>7. ASSUME NEW b \in F, match_heap(Size(mem, b)) = class
      PROVE  \E n \in On : L[n] = b
  <2>1. b # NULL
    BY <1>1 DEF NULL
  <2>2. \E n \in 0 .. Last16 : L[n] = b
    <3>1. Class(mem, b) = class
      BY <1>7 DEF Class
    <3> HIDE DEF F
    <3>2. F = FreeIn(mem, mem_brk, S, 0)
      BY DEF F
    <3> QED
      BY <3>1, <3>2, <1>1, <1>2, <1>3, AllListed
  <2> QED
    BY <2>1, <2>2
<1> HIDE DEF F, On
<1>8. {L[n] : n \in On} = {bp \in F : match_heap(Size(mem, bp)) = class}
  BY <1>6, <1>7
<1>9. On = {n \in DOMAIN L : L[n] # NULL}
  BY <1>4 DEF On
<1> QED
  BY <1>3, <1>6, <1>8, <1>9
-----------------------------------------------------------------------------
(* 12. mm_init, and what is erased.                                        *)

(* mm_init makes a heap, of which nothing is given out.                    *)
Initialised(r) ==
    /\ r.brk = 40 + CHUNKSIZE
    /\ \E T : HeapAt(r.mem, r.brk, T, 0, 0) /\ Used(r.mem, r.brk, T, 0) = {}

(* The memory may hold anything when it begins.                            *)
LEMMA Initialises ==
  ASSUME NEW m \in Memory, NEW r, r = mm_init(m)
  PROVE  Initialised(r)
<1>0. /\ MAX_HEAP \in Nat /\ CHUNKSIZE \in Nat /\ 40 + CHUNKSIZE <= MAX_HEAP
      /\ CHUNKSIZE % 8 = 0 /\ CHUNKSIZE >= 16 /\ MAX_HEAP < 2 ^ SizeBits
      /\ 2 ^ SizeBits \in Nat
  BY HeapAssumption
<1>1. Classes = {16, 20, 24, 28, 32}
  BY DEF Classes, class_listp, WSIZE, CLASS_SIZE
<1>2. /\ 0 \in Addr /\ 4 \in Addr /\ 8 \in Addr /\ 12 \in Addr /\ 36 \in Addr
      /\ Classes \subseteq Addr
  BY <1>0, <1>1, IsAddr
<1>3. PICK c : c = [p \in DOMAIN m |-> IF p = 0 \/ p \in Classes THEN 0 ELSE m[p]]
  OBVIOUS
<1>4. DOMAIN m = Addr /\ c \in [Addr -> Int] /\ \A p \in Classes : c[p] = 0
  BY <1>2, <1>3 DEF Memory
<1>5. PICK s : s = [c EXCEPT ![4] = DSIZE + ALLOC, ![8] = DSIZE + ALLOC,
                             ![12] = (CLASS_SIZE + 1) * WSIZE + ALLOC + PALLOC,
                             ![36] = ALLOC + PALLOC]
  OBVIOUS
<1>6. s = [c EXCEPT ![4] = 9, ![8] = 9, ![12] = 27, ![36] = 3]
  BY <1>5 DEF DSIZE, ALLOC, PALLOC, CLASS_SIZE, WSIZE
<1>7. s \in Memory
  BY <1>2, <1>4, <1>6 DEF Memory
<1>8. s[12] = 27 /\ s[36] = 3 /\ \A p \in Classes : s[p] = 0
  BY <1>1, <1>2, <1>4, <1>6
<1>9. /\ Size(s, 16) = 24 /\ Allocated(s, 16) /\ Size(s, 40) = 0 /\ Allocated(s, 40)
      /\ PrevAllocated(s, 40)
  BY <1>8 DEF Size, Allocated, PrevAllocated, Header, WSIZE, SIZE, ALLOCATED, PALLOCATED
<1> DEFINE S == {16, 40}
<1>10. Walls(s, 40, S, 0, 0)
  BY <1>0, <1>7, <1>8, <1>9 DEF Walls, class_listp, MINBLOCK, Extent
<1>11. NEXT_BLKP(s, 16) = 40
  BY <1>9 DEF NEXT_BLKP
<1>12. Tags(s, 40, S, 0) /\ FreeIn(s, 40, S, 0) = {} /\ Used(s, 40, S, 0) = {}
  BY <1>9, <1>11 DEF Tags, FreeIn, Used, class_listp
<1>13. Linked(s, {}, <<>>)
  BY <1>8 DEF Linked, NULL
<1>14. HeapAt(s, 40, S, 0, 0)
  BY <1>10, <1>12, <1>13 DEF HeapAt
<1> HIDE DEF S
<1>15. r = extend_heap(s, 40, CHUNKSIZE)
  BY <1>3, <1>5 DEF mm_init
<1>16. GrownTo(s, r, 40, Used(s, 40, S, 0), CHUNKSIZE)
  BY <1>0, <1>14, <1>15, Extends
<1>17. r.brk = 40 + CHUNKSIZE /\ Merged(s, r, 40 + CHUNKSIZE, {}, CHUNKSIZE)
  BY <1>0, <1>12, <1>16 DEF GrownTo
<1> QED
  BY <1>17 DEF Merged, Heaped, Initialised
-----------------------------------------------------------------------------
(* What is erased: neither tags nor links, and no data of those who hold.  *)
LEMMA Erases ==
  ASSUME NEW m, NEW brk, NEW S, HeapAt(m, brk, S, 0, 0), NEW held,
         NEW e \in Memory,
         \A p \in Addr : p < brk => e[p] = Erased(m, brk, held)[p]
  PROVE  /\ HeapAt(e, brk, S, 0, 0) /\ Used(e, brk, S, 0) = Used(m, brk, S, 0)
         /\ SameHeaders(m, e, S)
<1>0. Walls(m, brk, S, 0, 0) /\ Heap(m, brk) = S /\ m \in Memory
  BY SoundHeap DEF HeapAt, Walls
<1> DEFINE B == S \ {brk}
           free == {bp \in B : ~Allocated(m, bp)}
           tags == {bp - WSIZE : bp \in B \cup {brk}}
                   \cup UNION {{bp, bp + WSIZE, NEXT_BLKP(m, bp) - DSIZE} : bp \in free}
           data == UNION {{held[id].bp + WSIZE * k : k \in 0 .. Words(held[id].size) - 1} :
                            id \in Ids}
<1>1. Erased(m, brk, held) = [p \in DOMAIN m |-> IF p < 40 \/ p >= brk \/ p \in tags \cup data
                                                 THEN m[p] ELSE Garbage]
  BY <1>0 DEF Erased, BlocksOf
<1>2. DOMAIN m = Addr
  BY <1>0 DEF Memory
<1>3. /\ brk \in Nat /\ brk >= 40 /\ 12 \in Addr /\ Classes \subseteq Addr
      /\ \A b \in S : b - 4 \in Addr /\ b <= brk /\ b \in Nat
      /\ \A k \in Classes : k < 40
  BY <1>0, BlockWords, FirstBlock, WallsSay DEF Classes, class_listp, WSIZE, CLASS_SIZE
<1>4. \A p \in Addr : p \in Nat
  BY AddrIs
<1>5. \A p \in Addr : p < brk /\ (p < 40 \/ p \in tags) => e[p] = m[p]
  <2> HIDE DEF tags, data
  <2> QED
    BY <1>1, <1>2
<1> HIDE DEF data
<1>6. \A b \in S : e[b - 4] = m[b - 4]
  <2> SUFFICES ASSUME NEW b \in S PROVE e[b - 4] = m[b - 4]
    OBVIOUS
  <2>1. b - 4 \in tags /\ b - 4 < brk
    BY <1>3 DEF WSIZE
  <2> HIDE DEF tags
  <2> QED
    BY <2>1, <1>3, <1>5
<1>7. SameHeaders(m, e, S)
  BY <1>6 DEF SameHeaders, Header, WSIZE
<1>8. \A b \in S : /\ Size(e, b) = Size(m, b) /\ (Allocated(e, b) <=> Allocated(m, b))
                   /\ (PrevAllocated(e, b) <=> PrevAllocated(m, b))
  BY <1>7 DEF SameHeaders, Size, Allocated, PrevAllocated
<1>9. ASSUME NEW b \in FreeIn(m, brk, S, 0)
      PROVE  /\ Pred(e, b) = Pred(m, b) /\ Succ(e, b) = Succ(m, b)
             /\ e[NEXT_BLKP(m, b) - DSIZE] = m[NEXT_BLKP(m, b) - DSIZE]
  <2>1. b \in free /\ b \in S \ {brk, 0} /\ b \in S \ {brk}
    BY DEF FreeIn
  <2>2. b \in tags /\ b + 4 \in tags /\ NEXT_BLKP(m, b) - 8 \in tags
    BY <2>1 DEF WSIZE, DSIZE
  <2>3. NEXT_BLKP(m, b) = b + Size(m, b) /\ Size(m, b) \in Nat /\ Size(m, b) >= 16
        /\ Extent(m, 0, 0, b) = Size(m, b) /\ NEXT_BLKP(m, b) <= brk /\ b \in Nat
    BY <2>1, <1>0, <1>3, Nexts
  <2>4. b \in Addr /\ b + 4 \in Addr /\ NEXT_BLKP(m, b) - 8 \in Addr
    BY <2>1, <2>3, <1>0, BlockWords
  <2>5. b < brk /\ b + 4 < brk /\ NEXT_BLKP(m, b) - 8 < brk
    BY <2>3, <1>3
  <2> HIDE DEF tags, free
  <2>6. e[b] = m[b] /\ e[b + 4] = m[b + 4] /\ e[NEXT_BLKP(m, b) - 8] = m[NEXT_BLKP(m, b) - 8]
    BY <2>2, <2>4, <2>5, <1>5
  <2> QED
    BY <2>6 DEF Pred, Succ, WSIZE, DSIZE
<1>10. e[12] = m[12] /\ \A k \in Classes : e[k] = m[k]
  <2> HIDE DEF tags
  <2>1. \A k \in Classes : k < brk /\ k < 40
    BY <1>3, <1>4
  <2> QED
    BY <2>1, <1>3, <1>5
<1>11. HeapAt(e, brk, S, 0, 0)
  BY <1>8, <1>9, <1>10, HeapSeen
<1>12. Used(e, brk, S, 0) = Used(m, brk, S, 0)
  BY <1>8 DEF Used
<1> QED
  BY <1>7, <1>11, <1>12

(* The data is still there.                                                *)
DataStays(m, e, held) ==
    \A id \in Ids : \A k \in 0 .. Words(held[id].size) - 1 :
        held[id].bp + WSIZE * k \in Addr
            => e[held[id].bp + WSIZE * k] = m[held[id].bp + WSIZE * k]

(* Nothing of it is erased.                                                *)
LEMMA ErasedKeeps ==
  ASSUME NEW m \in Memory, NEW brk, NEW held, NEW e, e = Erased(m, brk, held)
  PROVE  DataStays(m, e, held)
<1> SUFFICES ASSUME NEW id \in Ids, NEW k \in 0 .. Words(held[id].size) - 1,
                    held[id].bp + WSIZE * k \in Addr
             PROVE  e[held[id].bp + WSIZE * k] = m[held[id].bp + WSIZE * k]
  BY DEF DataStays
<1> DEFINE p == held[id].bp + WSIZE * k
           data == UNION {{held[i].bp + WSIZE * n : n \in 0 .. Words(held[i].size) - 1} :
                            i \in Ids}
<1>1. p \in data /\ p \in DOMAIN m
  BY DEF Memory
<1> HIDE DEF p, data
<1>2. e[p] = m[p]
  <2> DEFINE blocks == BlocksOf(m, brk)
             free == {bp \in blocks : ~Allocated(m, bp)}
             tags == {bp - WSIZE : bp \in blocks \cup {brk}}
                     \cup UNION {{bp, bp + WSIZE, NEXT_BLKP(m, bp) - DSIZE} : bp \in free}
  <2>1. e = [q \in DOMAIN m |-> IF q < 40 \/ q >= brk \/ q \in tags \cup data THEN m[q]
                                  ELSE Garbage]
    BY DEF Erased, data
  <2> HIDE DEF tags
  <2> QED
    BY <2>1, <1>1
<1> QED
  BY <1>2 DEF p
-----------------------------------------------------------------------------
(* 13. The data of the callers, and what every call does to it.            *)

(* What is erased leaves a memory.                                         *)
LEMMA ErasedIs ==
  ASSUME NEW m \in Memory, NEW brk, NEW held
  PROVE  Erased(m, brk, held) \in Memory
BY DEF Erased, Memory, Garbage

(* The words of size bytes.                                                *)
LEMMA WordsAre ==
  ASSUME NEW size \in Nat
  PROVE  /\ Words(size) \in Nat /\ size <= 4 * Words(size)
         /\ \A k \in 0 .. Words(size) - 1 : k \in Nat /\ 4 * k + 1 <= size
         /\ \A k \in Nat : 4 * k + 1 <= size => k \in 0 .. Words(size) - 1
BY DEF Words, WSIZE

(* Ids and data are numbers.                                               *)
LEMMA IdsAre == \A id \in Ids : id \in Nat /\ \A k \in Nat : Data(id, k) \in Int
BY HeapAssumption DEF Ids, Data

(* The caller fills an allocated block.                                    *)
FilledFrom(m, f, id, b, first, size) ==
    \A k \in 0 .. Words(size) - 1 :
        /\ k >= first => f[b + 4 * k] = Data(id, k)
        /\ k < first => f[b + 4 * k] = m[b + 4 * k]

(* It writes the words of the block only.                                  *)
LEMMA Fills ==
  ASSUME NEW m, NEW brk, NEW S, HeapAt(m, brk, S, 0, 0), NEW b \in Used(m, brk, S, 0),
         NEW size \in Nat, size + 4 <= Size(m, b), NEW first \in Nat, NEW id \in Ids,
         NEW f, f = Fill(m, id, b, first, size)
  PROVE  Unseen(m, f, brk, S, b) /\ FilledFrom(m, f, id, b, first, size)
<1>0. m \in Memory /\ DOMAIN m = Addr
  BY DEF HeapAt, Walls, Memory
<1>1. /\ b \in Nat /\ b % 8 = 0 /\ Size(m, b) \in Nat /\ Size(m, b) % 8 = 0
      /\ \A k \in Nat : 4 * k <= Size(m, b) - 4 => b + 4 * k \in Addr
  BY UsedWords
<1>2. Words(size) \in Nat /\ \A k \in 0 .. Words(size) - 1 : k \in Nat /\ 4 * k + 1 <= size
  BY WordsAre
<1>3. \A k \in 0 .. Words(size) - 1 :
         k \in Nat /\ b + 4 * k \in Addr /\ b <= b + 4 * k /\ b + 4 * k <= b + Size(m, b) - 8
  BY <1>1, <1>2
<1>4. f = [p \in Addr |-> IF \E k \in first .. Words(size) - 1 : p = b + 4 * k
                          THEN Data(id, (p - b) \div 4) ELSE m[p]]
  BY <1>0 DEF Fill, WSIZE
<1>5. ASSUME NEW p \in Addr PROVE f[p] \in Int
  <2>1. CASE \E k \in first .. Words(size) - 1 : p = b + 4 * k
    <3>1. PICK k \in first .. Words(size) - 1 : p = b + 4 * k
      BY <2>1
    <3>2. k \in Nat /\ (p - b) \div 4 = k
      BY <3>1, <1>1, <1>2
    <3>3. f[p] = Data(id, k)
      BY <2>1, <3>2, <1>4
    <3> QED
      BY <3>2, <3>3, IdsAre
  <2>2. CASE ~ \E k \in first .. Words(size) - 1 : p = b + 4 * k
    BY <2>2, <1>0, <1>4 DEF Memory
  <2> QED
    BY <2>1, <2>2
<1>6. f \in Memory
  BY <1>4, <1>5 DEF Memory
<1>7. ASSUME NEW p \in Addr, p < b \/ p > b + Size(m, b) - 8 PROVE f[p] = m[p]
  <2>1. p \in Nat
    BY AddrIs
  <2>2. ~ \E k \in first .. Words(size) - 1 : p = b + 4 * k
    <3> SUFFICES ASSUME NEW k \in first .. Words(size) - 1, p = b + 4 * k PROVE FALSE
      OBVIOUS
    <3>1. k \in 0 .. Words(size) - 1
      BY <1>2
    <3>2. b <= p /\ p <= b + Size(m, b) - 8
      BY <3>1, <1>3
    <3> QED
      BY <3>2, <2>1, <1>1, <1>7
  <2> QED
    BY <2>2, <1>4
<1>8. Unseen(m, f, brk, S, b)
  BY <1>6, <1>7, PayloadWritten
<1>9. ASSUME NEW k \in 0 .. Words(size) - 1
      PROVE  /\ k >= first => f[b + 4 * k] = Data(id, k)
             /\ k < first => f[b + 4 * k] = m[b + 4 * k]
  <2>1. PICK p \in Addr : p = b + 4 * k /\ p \in Nat
    BY <1>3, AddrIs
  <2>2. k \in Nat /\ (p - b) \div 4 = k
    BY <2>1, <1>1, <1>2
  <2>3. ASSUME k >= first PROVE f[p] = Data(id, k)
    <3>1. k \in first .. Words(size) - 1
      BY <2>3, <1>2
    <3>2. \E i \in first .. Words(size) - 1 : p = b + 4 * i
      BY <3>1, <2>1
    <3> QED
      BY <3>2, <2>2, <1>4
  <2>4. ASSUME k < first PROVE f[p] = m[p]
    <3>1. \A i \in first .. Words(size) - 1 : p # b + 4 * i
      BY <2>1, <2>4, <1>1, <1>2
    <3> QED
      BY <3>1, <1>4
  <2> QED
    BY <2>1, <2>3, <2>4
<1> QED
  BY <1>8, <1>9 DEF FilledFrom

(* What is held is what is allocated, each block once, and it is as large  *)
(* as it has to be.                                                        *)
LiveIn(m, brk, S, held) ==
    /\ held \in [Ids -> [bp : Nat, size : Nat]]
    /\ \A id \in Ids : held[id] # Nothing =>
          /\ held[id].bp \in Used(m, brk, S, 0) /\ held[id].size \in Sizes \ {0}
          /\ held[id].size + 4 <= Size(m, held[id].bp)
    /\ \A i, j \in Ids : held[i] # Nothing /\ held[i].bp = held[j].bp => i = j
    /\ \A b \in Used(m, brk, S, 0) : \E id \in Ids : held[id] # Nothing /\ held[id].bp = b

(* No word of a block held has changed, but for one block.                 *)
SameWords(m, j, block) ==
    \A k \in 0 .. Words(block.size) - 1 : j[block.bp + 4 * k] = m[block.bp + 4 * k]
SameData(m, j, held, id) ==
    \A i \in Ids \ {id} : held[i] # Nothing => SameWords(m, j, held[i])

(* The words of a block that is held are inside of it.                     *)
LEMMA HeldWords ==
  ASSUME NEW m, NEW brk, NEW S, HeapAt(m, brk, S, 0, 0), NEW b \in Used(m, brk, S, 0),
         NEW size \in Nat, size + 4 <= Size(m, b)
  PROVE  \A k \in 0 .. Words(size) - 1 :
            /\ k \in Nat /\ b + 4 * k \in Addr /\ b <= b + 4 * k
            /\ b + 4 * k <= b + Size(m, b) - 8 /\ b + 4 * k < brk
            /\ 4 * k <= Size(m, b) - 8
<1>1. /\ b \in Nat /\ b % 8 = 0 /\ Size(m, b) \in Nat /\ Size(m, b) % 8 = 0
      /\ \A k \in Nat : 4 * k <= Size(m, b) - 4 => b + 4 * k \in Addr
  BY UsedWords
<1>2. b + Size(m, b) <= brk /\ brk \in Nat
  <2>1. b \in S \ {brk, 0} /\ Walls(m, brk, S, 0, 0)
    BY WallsSay, UsedWords DEF Used, HeapAt
  <2> QED
    BY <2>1, Nexts, BlockWords
<1>3. \A k \in 0 .. Words(size) - 1 : k \in Nat /\ 4 * k + 1 <= size
  BY WordsAre
<1> QED
  BY <1>1, <1>2, <1>3

(* In a block that is spared they are what they were.                      *)
LEMMA SparedWords ==
  ASSUME NEW m, NEW brk, NEW S, HeapAt(m, brk, S, 0, 0), NEW b \in Used(m, brk, S, 0),
         NEW size \in Nat, size + 4 <= Size(m, b), NEW j, Intact(m, j, b)
  PROVE  \A k \in 0 .. Words(size) - 1 : j[b + 4 * k] = m[b + 4 * k]
<1>1. \A k \in 0 .. Words(size) - 1 :
         b + 4 * k \in Addr /\ b <= b + 4 * k /\ b + 4 * k <= b + Size(m, b) - 8
  BY HeldWords
<1> QED
  BY <1>1 DEF Intact, DSIZE

(* A block that is held, resized or freed, and all the others remain.      *)
LEMMA Replaced ==
  ASSUME NEW m, NEW brk, NEW S, HeapAt(m, brk, S, 0, 0),
         NEW held, LiveIn(m, brk, S, held), NEW id \in Ids,
         NEW A, A = Used(m, brk, S, 0) \ {held[id].bp},
         NEW j, NEW end, NEW T, HeapAt(j, end, T, 0, 0), Spares(m, j, A),
         NEW new \in [bp : Nat, size : Nat],
         \/ new = Nothing /\ Used(j, end, T, 0) = A
         \/ /\ Used(j, end, T, 0) = A \cup {new.bp} /\ new.bp \notin A
            /\ Size(j, new.bp) >= new.size + 4 /\ new.size \in Sizes \ {0}
  PROVE  /\ LiveIn(j, end, T, [held EXCEPT ![id] = new])
         /\ SameData(m, j, held, id)
<1> DEFINE now == [held EXCEPT ![id] = new]
           U == Used(m, brk, S, 0)
<1>0. \A b \in U : b \in Nat /\ b # 0 /\ b >= 40
  BY UsedWords
<1>1. /\ held \in [Ids -> [bp : Nat, size : Nat]]
      /\ \A i \in Ids : held[i] # Nothing =>
            /\ held[i].bp \in U /\ held[i].size \in Sizes \ {0}
            /\ held[i].size + 4 <= Size(m, held[i].bp)
      /\ \A i, n \in Ids : held[i] # Nothing /\ held[i].bp = held[n].bp => i = n
      /\ \A b \in U : \E i \in Ids : held[i] # Nothing /\ held[i].bp = b
  BY DEF LiveIn
<1>2. A = U \ {held[id].bp}
  OBVIOUS
<1>3. now \in [Ids -> [bp : Nat, size : Nat]] /\ now[id] = new
      /\ \A i \in Ids \ {id} : now[i] = held[i]
  BY <1>1
<1>4. ASSUME NEW i \in Ids \ {id}, held[i] # Nothing
      PROVE  /\ held[i].bp \in A /\ held[i].size \in Sizes \ {0} /\ held[i].size \in Nat
             /\ held[i].size + 4 <= Size(m, held[i].bp) /\ Intact(m, j, held[i].bp)
             /\ held[i].size + 4 <= Size(j, held[i].bp)
  <2>1. held[i].bp \in A /\ held[i].size \in Sizes \ {0} /\ held[i].size \in Nat
        /\ held[i].size + 4 <= Size(m, held[i].bp)
    BY <1>1, <1>2, <1>4
  <2>2. Intact(m, j, held[i].bp)
    BY <2>1 DEF Spares
  <2> QED
    BY <2>1, <2>2 DEF Intact
<1>5. SameData(m, j, held, id)
  <2> SUFFICES ASSUME NEW i \in Ids \ {id}, held[i] # Nothing
               PROVE  SameWords(m, j, held[i])
    BY DEF SameData
  <2>1. PICK b \in U : b = held[i].bp
    BY <1>2, <1>4
  <2>2. PICK size \in Nat : size = held[i].size
    BY <1>4
  <2>3. \A k \in 0 .. Words(size) - 1 : j[b + 4 * k] = m[b + 4 * k]
    BY <2>1, <2>2, <1>4, SparedWords
  <2> QED
    BY <2>1, <2>2, <2>3 DEF SameWords
<1> HIDE DEF now, U
<1>6. ASSUME NEW i \in Ids, now[i] # Nothing
      PROVE  /\ now[i].bp \in Used(j, end, T, 0) /\ now[i].size \in Sizes \ {0}
             /\ now[i].size + 4 <= Size(j, now[i].bp)
  <2>1. CASE i = id
    <3>1. Size(j, new.bp) >= new.size + 4 /\ new.size \in Sizes \ {0}
          /\ new.bp \in Used(j, end, T, 0)
      BY <2>1, <1>3, <1>6
    <3>2. Size(j, new.bp) \in Nat
      BY <3>1, UsedWords
    <3> QED
      BY <2>1, <3>1, <3>2, <1>3
  <2>2. CASE i # id
    BY <2>2, <1>3, <1>4, <1>6
  <2> QED
    BY <2>1, <2>2
<1>7. ASSUME NEW i \in Ids, NEW n \in Ids, now[i] # Nothing, now[i].bp = now[n].bp
      PROVE  i = n
  <2>0. \A x \in Ids : held[x] = Nothing => held[x].bp = 0
    BY DEF Nothing, NULL
  <2>1. CASE i # id /\ n # id
    BY <2>1, <1>1, <1>3, <1>7
  <2>2. CASE i = id /\ n # id
    <3>1. new.bp \in Used(j, end, T, 0) /\ new.bp \notin A /\ held[n].bp = new.bp
      BY <2>2, <1>3, <1>6, <1>7
    <3>2. new.bp # 0
      BY <3>1, UsedWords
    <3>3. held[n] # Nothing
      BY <2>0, <3>1, <3>2
    <3> QED
      BY <2>2, <3>1, <3>3, <1>4
  <2>3. CASE i # id /\ n = id
    <3>1. held[i].bp \in A /\ new.bp \in A
      BY <2>3, <1>3, <1>4, <1>7
    <3>2. new = Nothing
      BY <3>1
    <3>3. new.bp = 0 /\ 0 \notin A
      BY <3>2, <1>0, <1>2 DEF Nothing, NULL
    <3> QED
      BY <3>1, <3>3
  <2>4. CASE i = id /\ n = id
    BY <2>4
  <2> QED
    BY <2>1, <2>2, <2>3, <2>4
<1>8. ASSUME NEW b \in Used(j, end, T, 0)
      PROVE  \E i \in Ids : now[i] # Nothing /\ now[i].bp = b
  <2>1. CASE b \in A
    <3>1. PICK i \in Ids : held[i] # Nothing /\ held[i].bp = b
      BY <2>1, <1>1, <1>2
    <3>2. i # id
      BY <2>1, <3>1, <1>2
    <3> QED
      BY <3>1, <3>2, <1>3
  <2>2. CASE b \notin A
    <3>1. b = new.bp
      BY <2>2
    <3>2. b # 0
      BY UsedWords
    <3>3. new # Nothing
      BY <3>1, <3>2 DEF Nothing, NULL
    <3> QED
      BY <3>1, <3>3, <1>3
  <2> QED
    BY <2>1, <2>2
<1>9. LiveIn(j, end, T, now)
  BY <1>3, <1>6, <1>7, <1>8 DEF LiveIn
<1> QED
  BY <1>5, <1>9 DEF now

(* The heap is sound, and what is held is what is allocated.               *)
HeapHolds(m, brk, held) ==
    /\ brk \in 40 + CHUNKSIZE .. MAX_HEAP /\ Sound(m, brk)
    /\ LiveIn(m, brk, Heap(m, brk), held)
FreeOf(m, brk) == FreeIn(m, brk, Heap(m, brk), 0)

(* No size wraps around.                                                   *)
SizesFit == \A size \in Sizes : Fitting(size)

(* The blocks of a heap without a hole are those of its walk.              *)
LEMMA HoldsNow ==
  ASSUME NEW m, NEW brk, NEW S, HeapAt(m, brk, S, 0, 0), 40 + CHUNKSIZE <= brk,
         NEW held, LiveIn(m, brk, S, held)
  PROVE  HeapHolds(m, brk, held)
<1>1. brk \in Nat /\ brk <= MAX_HEAP
  BY WallsSay, BlockWords DEF HeapAt
<1>2. Heap(m, brk) = S /\ Sound(m, brk)
  BY SoundHeap
<1> QED
  BY <1>1, <1>2, HeapAssumption DEF HeapHolds

(* mm_malloc, called for a block id that is not held.                      *)
Holding(held, id, bp, size) == [held EXCEPT ![id] = [bp |-> bp, size |-> size]]
Fits(m, brk, size) == {c \in FreeOf(m, brk) : Size(m, c) >= ADJUST(size)}
NoneFits(m, brk, size) ==
    /\ brk + (IF ADJUST(size) > CHUNKSIZE THEN ADJUST(size) ELSE CHUNKSIZE) > MAX_HEAP
    /\ \A c \in FreeOf(m, brk) : ~(Size(m, c) >= ADJUST(size))
Best(m, r, brk, size) ==
    \/ /\ Fits(m, brk, size) # {} /\ r.brk = brk /\ r.bp \in Fits(m, brk, size)
       /\ \A c \in Fits(m, brk, size) : Size(m, r.bp) <= Size(m, c)
    \/ Fits(m, brk, size) = {} /\ r.brk > brk
Gave(m, r, brk, held, id, size) ==
    \/ r.bp = NULL /\ r.mem = m /\ r.brk = brk /\ (size # 0 => NoneFits(m, brk, size))
    \/ /\ r.bp # NULL /\ size # 0 /\ HeapHolds(r.mem, r.brk, Holding(held, id, r.bp, size))
       /\ SameData(m, r.mem, held, id) /\ Best(m, r, brk, size)

(* It fails, or it gives a best fit, and others keep what they have.       *)
LEMMA Gives ==
  ASSUME SizesFit, NEW m, NEW brk, NEW held, HeapHolds(m, brk, held),
         NEW id \in Ids, held[id] = Nothing, NEW size \in Sizes,
         NEW r, r = mm_malloc(m, brk, size)
  PROVE  Gave(m, r, brk, held, id, size)
<1> DEFINE S == Heap(m, brk)
           U == Used(m, brk, S, 0)
           a == ADJUST(size)
<1>0. HeapAt(m, brk, S, 0, 0) /\ LiveIn(m, brk, S, held) /\ brk \in Nat /\ 40 + CHUNKSIZE <= brk
  BY HeapAssumption DEF HeapHolds, Sound
<1>1. Fitting(size) /\ size \in Nat
  BY DEF SizesFit, Fitting
<1>2. a \in Nat /\ a >= size + 4
  BY <1>1, AdjustIs
<1> HIDE DEF S
<1>3. Malloced(m, r, brk, S, size)
  BY <1>0, <1>1, Mallocs
<1>4. CASE r.bp = NULL
  <2>1. r.mem = m /\ r.brk = brk
        /\ (size # 0 => /\ brk + Growth16(a) > MAX_HEAP
                        /\ \A c \in FreeIn(m, brk, S, 0) : ~(Size(m, c) >= a))
    BY <1>3, <1>4 DEF Malloced
  <2>2. size # 0 => NoneFits(m, brk, size)
    BY <2>1 DEF NoneFits, FreeOf, Growth16, S
  <2> QED
    BY <2>1, <2>2, <1>4 DEF Gave
<1>5. CASE r.bp # NULL
  <2>1. /\ size # 0 /\ r.brk \in Nat /\ PlacedAt(m, r.mem, r.brk, U, r.bp, a)
        /\ \/ /\ r.brk = brk /\ r.bp \in FreeIn(m, brk, S, 0) /\ Size(m, r.bp) >= a
              /\ \A c \in FreeIn(m, brk, S, 0) : Size(m, c) >= a => Size(m, r.bp) <= Size(m, c)
           \/ r.brk > brk /\ \A c \in FreeIn(m, brk, S, 0) : ~(Size(m, c) >= a)
    BY <1>3, <1>5 DEF Malloced
  <2>2. Best(m, r, brk, size)
    BY <2>1 DEF Best, Fits, FreeOf, S
  <2>3. PICK T : /\ HeapAt(r.mem, r.brk, T, 0, 0) /\ Used(r.mem, r.brk, T, 0) = U \cup {r.bp}
                 /\ Spares(m, r.mem, U) /\ r.bp \notin U /\ Size(r.mem, r.bp) >= a
    BY <2>1 DEF PlacedAt
  <2>4. PICK new : new = [bp |-> r.bp, size |-> size]
    OBVIOUS
  <2>5. r.bp \in Nat /\ Size(r.mem, r.bp) \in Nat
    <3>1. r.bp \in Used(r.mem, r.brk, T, 0)
      BY <2>3
    <3> QED
      BY <3>1, <2>3, UsedWords
  <2>6. held[id].bp = 0 /\ 0 \notin U
    BY <1>0, UsedWords DEF Nothing, NULL
  <2>7. U = Used(m, brk, S, 0) \ {held[id].bp}
    BY <2>6
  <2>8. /\ new \in [bp : Nat, size : Nat] /\ new.bp = r.bp /\ new.size = size
        /\ Size(r.mem, new.bp) >= new.size + 4
    BY <2>3, <2>4, <2>5, <1>1, <1>2
  <2>9. /\ LiveIn(r.mem, r.brk, T, [held EXCEPT ![id] = new])
        /\ SameData(m, r.mem, held, id)
    <3> HIDE DEF U
    <3>1. PICK A : A = U
      OBVIOUS
    <3>2. A = Used(m, brk, S, 0) \ {held[id].bp} /\ Spares(m, r.mem, A)
          /\ Used(r.mem, r.brk, T, 0) = A \cup {new.bp} /\ new.bp \notin A
      BY <3>1, <2>3, <2>7, <2>8
    <3> QED
      BY <3>2, <2>1, <2>3, <2>8, <1>0, Replaced
  <2>10. 40 + CHUNKSIZE <= r.brk
    BY <2>1, <1>0, HeapAssumption
  <2>11. HeapHolds(r.mem, r.brk, Holding(held, id, r.bp, size))
    BY <2>3, <2>4, <2>9, <2>10, HoldsNow DEF Holding
  <2> QED
    BY <2>1, <2>2, <2>9, <2>11, <1>5 DEF Gave
<1> QED
  BY <1>4, <1>5

(* mm_free, called for a block that is held.                               *)
LEMMA Takes ==
  ASSUME NEW m, NEW brk, NEW held, HeapHolds(m, brk, held),
         NEW id \in Ids, held[id] # Nothing, NEW j, j = mm_free(m, held[id].bp)
  PROVE  /\ HeapHolds(j, brk, [held EXCEPT ![id] = Nothing])
         /\ SameData(m, j, held, id)
<1> DEFINE S == Heap(m, brk)
<1>0. HeapAt(m, brk, S, 0, 0) /\ LiveIn(m, brk, S, held) /\ 40 + CHUNKSIZE <= brk
  BY HeapAssumption DEF HeapHolds, Sound
<1> HIDE DEF S
<1>1. PICK b \in Used(m, brk, S, 0) : b = held[id].bp
  BY <1>0 DEF LiveIn
<1>2. PICK A : A = Used(m, brk, S, 0) \ {b}
  OBVIOUS
<1>3. ReleasedTo(m, j, brk, Used(m, brk, S, 0) \ {b})
  BY <1>0, <1>1, FreeUsed
<1>4. PICK T : HeapAt(j, brk, T, 0, 0) /\ Used(j, brk, T, 0) = A /\ Spares(m, j, A)
  BY <1>2, <1>3 DEF ReleasedTo, Heaped
<1>5. PICK new \in [bp : Nat, size : Nat] : new = Nothing
  BY DEF Nothing, NULL
<1>6. /\ LiveIn(j, brk, T, [held EXCEPT ![id] = new])
      /\ SameData(m, j, held, id)
  BY <1>0, <1>1, <1>2, <1>4, <1>5, Replaced
<1> QED
  BY <1>0, <1>4, <1>5, <1>6, HoldsNow

(* mm_realloc, called for a block that is held.                            *)
Resized(m, r, brk, held, id, size) ==
    \/ r.bp = NULL /\ r.mem = m /\ r.brk = brk /\ NoneFits(m, brk, size)
    \/ /\ r.bp # NULL /\ HeapHolds(r.mem, r.brk, Holding(held, id, r.bp, size))
       /\ SameData(m, r.mem, held, id) /\ r.brk >= brk
       /\ \A k \in 0 .. Words(held[id].size) - 1 :
             k < Words(size) => r.mem[r.bp + 4 * k] = m[held[id].bp + 4 * k]

(* It fails, or what fits of the old block is in the new one.              *)
LEMMA Resizes ==
  ASSUME SizesFit, NEW m, NEW brk, NEW held, HeapHolds(m, brk, held),
         NEW id \in Ids, held[id] # Nothing, NEW size \in Sizes, size # 0,
         NEW r, r = mm_realloc(m, brk, held[id].bp, size)
  PROVE  Resized(m, r, brk, held, id, size)
<1> DEFINE S == Heap(m, brk)
           a == ADJUST(size)
<1>0. HeapAt(m, brk, S, 0, 0) /\ LiveIn(m, brk, S, held) /\ brk \in Nat /\ 40 + CHUNKSIZE <= brk
  BY HeapAssumption DEF HeapHolds, Sound
<1>1. Fitting(size) /\ size \in Nat
  BY DEF SizesFit, Fitting
<1>2. a \in Nat /\ a >= size + 4 /\ a % 8 = 0
  BY <1>1, AdjustIs
<1> HIDE DEF S, a
<1>3. PICK b \in Used(m, brk, S, 0) : b = held[id].bp
  BY <1>0 DEF LiveIn
<1>4. Realloced(m, r, brk, S, b, size)
  BY <1>0, <1>1, <1>3, Reallocs
<1>5. CASE r.bp = NULL
  <2>1. /\ r.mem = m /\ r.brk = brk /\ brk + Growth16(a) > MAX_HEAP
        /\ \A c \in FreeIn(m, brk, S, 0) : ~(Size(m, c) >= a)
    BY <1>4, <1>5 DEF Realloced, a
  <2>2. NoneFits(m, brk, size)
    BY <2>1 DEF NoneFits, FreeOf, Growth16, S, a
  <2> QED
    BY <2>1, <2>2, <1>5 DEF Resized
<1>6. CASE r.bp # NULL
  <2>1. PICK A : A = Used(m, brk, S, 0) \ {b}
    OBVIOUS
  <2>2. r.brk \in Nat /\ r.brk >= brk /\ MovedAt(m, r.mem, r.brk, Used(m, brk, S, 0), b, r.bp, a)
    BY <1>4, <1>6 DEF Realloced, a
  <2>3. PICK T : /\ HeapAt(r.mem, r.brk, T, 0, 0) /\ Used(r.mem, r.brk, T, 0) = A \cup {r.bp}
                 /\ Spares(m, r.mem, A) /\ r.bp \notin A /\ Size(r.mem, r.bp) >= a
                 /\ Kept(m, r.mem, b, r.bp, a)
    BY <2>1, <2>2 DEF MovedAt
  <2>4. PICK new : new = [bp |-> r.bp, size |-> size]
    OBVIOUS
  <2>5. r.bp \in Nat /\ Size(r.mem, r.bp) \in Nat
    <3>1. r.bp \in Used(r.mem, r.brk, T, 0)
      BY <2>3
    <3> QED
      BY <3>1, <2>3, UsedWords
  <2>8. /\ new \in [bp : Nat, size : Nat] /\ new.bp = r.bp /\ new.size = size
        /\ Size(r.mem, new.bp) >= new.size + 4
    BY <2>3, <2>4, <2>5, <1>1, <1>2
  <2>9. /\ LiveIn(r.mem, r.brk, T, [held EXCEPT ![id] = new])
        /\ SameData(m, r.mem, held, id)
    <3>1. /\ A = Used(m, brk, S, 0) \ {held[id].bp}
          /\ Used(r.mem, r.brk, T, 0) = A \cup {new.bp} /\ new.bp \notin A
      BY <1>3, <2>1, <2>3, <2>8
    <3> QED
      BY <3>1, <2>3, <2>8, <1>0, Replaced
  <2>10. 40 + CHUNKSIZE <= r.brk
    BY <2>2, <1>0, HeapAssumption
  <2>11. HeapHolds(r.mem, r.brk, Holding(held, id, r.bp, size))
    BY <2>3, <2>4, <2>9, <2>10, HoldsNow DEF Holding
  <2>12. ASSUME NEW k \in 0 .. Words(held[id].size) - 1, k < Words(size)
         PROVE  r.mem[r.bp + 4 * k] = m[held[id].bp + 4 * k]
    <3>1. PICK old \in Nat : old = held[id].size /\ old + 4 <= Size(m, b)
      BY <1>0, <1>3 DEF LiveIn
    <3>2. k \in Nat /\ 4 * k <= Size(m, b) - 8
      BY <3>1, <1>0, <2>12, HeldWords
    <3>3. 4 * k <= a - 8
      <4>1. Words(size) \in Nat /\ \A i \in 0 .. Words(size) - 1 : 4 * i + 1 <= size
        BY <1>1, WordsAre
      <4>2. k \in 0 .. Words(size) - 1
        BY <4>1, <3>2, <2>12
      <4>3. 4 * k + 1 <= size
        BY <4>1, <4>2
      <4> QED
        BY <4>3, <3>2, <1>1, <1>2
    <3> QED
      BY <3>2, <3>3, <2>3, <1>3 DEF Kept
  <2> QED
    BY <2>2, <2>9, <2>11, <2>12, <1>6 DEF Resized
<1> QED
  BY <1>5, <1>6

(* What was erased is not seen by the heap, nor by those who hold blocks.  *)
LEMMA HoldsOn ==
  ASSUME NEW m, NEW brk, NEW held, HeapHolds(m, brk, held),
         NEW j \in Memory, NEW S, S = Heap(m, brk), HeapAt(j, brk, S, 0, 0),
         Used(j, brk, S, 0) = Used(m, brk, S, 0), SameHeaders(m, j, S)
  PROVE  HeapHolds(j, brk, held)
<1>0. HeapAt(m, brk, S, 0, 0) /\ LiveIn(m, brk, S, held) /\ 40 + CHUNKSIZE <= brk
  BY HeapAssumption DEF HeapHolds, Sound
<1>1. \A b \in Used(m, brk, S, 0) : Size(j, b) = Size(m, b)
  <2>1. \A b \in Used(m, brk, S, 0) : b \in S
    BY DEF Used
  <2> QED
    BY <2>1, HeadersSay
<1>2. LiveIn(j, brk, S, held)
  BY <1>0, <1>1 DEF LiveIn
<1> QED
  BY <1>0, <1>2, HoldsNow

(* The heap sees no difference, whoever holds the data.                    *)
LEMMA Leave ==
  ASSUME NEW m, NEW brk, NEW held, HeapHolds(m, brk, held), NEW any,
         NEW e \in Memory, \A p \in Addr : p < brk => e[p] = Erased(m, brk, any)[p]
  PROVE  HeapHolds(e, brk, held)
<1> DEFINE S == Heap(m, brk)
<1>0. HeapAt(m, brk, S, 0, 0)
  BY DEF HeapHolds, Sound
<1> HIDE DEF S
<1>1. /\ HeapAt(e, brk, S, 0, 0) /\ Used(e, brk, S, 0) = Used(m, brk, S, 0)
      /\ SameHeaders(m, e, S)
  BY <1>0, Erases
<1>2. S = Heap(m, brk)
  BY DEF S
<1> QED
  BY <1>1, <1>2, HoldsOn

(* Those who hold blocks see none.                                         *)
LEMMA LeaveData ==
  ASSUME NEW m, NEW brk, NEW held, HeapHolds(m, brk, held), NEW e, e = Erased(m, brk, held)
  PROVE  /\ HeapHolds(e, brk, held)
         /\ \A id \in Ids : held[id] # Nothing => SameWords(m, e, held[id])
<1>0. HeapAt(m, brk, Heap(m, brk), 0, 0) /\ LiveIn(m, brk, Heap(m, brk), held) /\ m \in Memory
  BY DEF HeapHolds, Sound, HeapAt, Walls
<1>1. e \in Memory
  BY <1>0, ErasedIs
<1>2. HeapHolds(e, brk, held)
  BY <1>1, Leave
<1>3. ASSUME NEW id \in Ids, held[id] # Nothing PROVE SameWords(m, e, held[id])
  <2>1. PICK b \in Used(m, brk, Heap(m, brk), 0) : b = held[id].bp
    BY <1>0, <1>3 DEF LiveIn
  <2>2. PICK size \in Nat : size = held[id].size /\ size + 4 <= Size(m, b)
    BY <1>0, <1>3, <2>1 DEF LiveIn
  <2>3. \A k \in 0 .. Words(size) - 1 : b + 4 * k \in Addr
    BY <1>0, <2>2, HeldWords
  <2>4. ASSUME NEW k \in 0 .. Words(held[id].size) - 1
        PROVE  e[held[id].bp + 4 * k] = m[held[id].bp + 4 * k]
    <3>1. held[id].bp + WSIZE * k \in Addr
      BY <2>1, <2>2, <2>3, <2>4 DEF WSIZE
    <3>2. DataStays(m, e, held)
      BY <1>0, ErasedKeeps
    <3>3. e[held[id].bp + WSIZE * k] = m[held[id].bp + WSIZE * k]
      BY <3>1, <3>2 DEF DataStays
    <3> QED
      BY <3>3 DEF WSIZE
  <2> QED
    BY <2>4 DEF SameWords
<1> QED
  BY <1>2, <1>3

(* A block that is held is filled.                                         *)
LEMMA FillHeld ==
  ASSUME NEW m, NEW brk, NEW held, HeapHolds(m, brk, held),
         NEW id \in Ids, held[id] # Nothing, NEW first \in Nat,
         NEW f, f = Fill(m, id, held[id].bp, first, held[id].size)
  PROVE  /\ HeapHolds(f, brk, held) /\ SameData(m, f, held, id)
         /\ FilledFrom(m, f, id, held[id].bp, first, held[id].size)
<1> DEFINE S == Heap(m, brk)
<1>0. HeapAt(m, brk, S, 0, 0) /\ LiveIn(m, brk, S, held)
  BY DEF HeapHolds, Sound
<1> HIDE DEF S
<1>1. PICK b \in Used(m, brk, S, 0) : b = held[id].bp
  BY <1>0 DEF LiveIn
<1>2. PICK size \in Nat : size = held[id].size /\ size + 4 <= Size(m, b)
  BY <1>0, <1>1 DEF LiveIn
<1>3. Unseen(m, f, brk, S, b) /\ FilledFrom(m, f, id, b, first, size)
  BY <1>0, <1>1, <1>2, Fills
<1>4. HeapHolds(f, brk, held)
  <2>1. f \in Memory /\ S = Heap(m, brk)
    BY <1>3 DEF Unseen, HeapAt, Walls, S
  <2>2. HeapAt(f, brk, S, 0, 0) /\ Used(f, brk, S, 0) = Used(m, brk, S, 0)
        /\ SameHeaders(m, f, S)
    BY <1>3 DEF Unseen
  <2> QED
    BY <2>1, <2>2, HoldsOn
<1>5. ASSUME NEW i \in Ids \ {id}, held[i] # Nothing PROVE SameWords(m, f, held[i])
  <2>1. PICK c \in Used(m, brk, S, 0) : c = held[i].bp /\ c # b
    BY <1>0, <1>1, <1>5 DEF LiveIn
  <2>2. PICK old \in Nat : old = held[i].size /\ old + 4 <= Size(m, c)
    BY <1>0, <1>5, <2>1 DEF LiveIn
  <2>3. Intact(m, f, c)
    BY <1>3, <2>1 DEF Unseen, Spares
  <2>4. \A k \in 0 .. Words(old) - 1 : f[c + 4 * k] = m[c + 4 * k]
    BY <2>2, <2>3, <1>0, SparedWords
  <2> QED
    BY <2>1, <2>2, <2>4 DEF SameWords
<1> QED
  BY <1>1, <1>2, <1>3, <1>4, <1>5 DEF SameData
-----------------------------------------------------------------------------
None == [id \in Ids |-> Nothing]

(* Nothing is held of a heap on which nothing is allocated.                *)
LEMMA NoneHeld ==
  ASSUME NEW m \in Memory, NEW r, r = mm_init(m)
  PROVE  HeapHolds(r.mem, r.brk, None)
<1>1. r.brk = 40 + CHUNKSIZE /\ 40 + CHUNKSIZE <= r.brk
  BY Initialises, HeapAssumption DEF Initialised
<1>2. PICK T : HeapAt(r.mem, r.brk, T, 0, 0) /\ Used(r.mem, r.brk, T, 0) = {}
  BY Initialises DEF Initialised
<1>3. LiveIn(r.mem, r.brk, T, None)
  <2>1. Nothing \in [bp : Nat, size : Nat] /\ \A id \in Ids : None[id] = Nothing
    BY DEF Nothing, NULL, None
  <2>2. None \in [Ids -> [bp : Nat, size : Nat]]
    BY <2>1 DEF None
  <2> QED
    BY <2>1, <2>2, <1>2 DEF LiveIn
<1> QED
  BY <1>1, <1>2, <1>3, HoldsNow

(* The first heap, and that of a new play.                                 *)
LEMMA InitHolds == Init => HeapHolds(mem, mem_brk, live) /\ live = None
<1> SUFFICES ASSUME Init PROVE HeapHolds(mem, mem_brk, live) /\ live = None
  OBVIOUS
<1>1. PICK zeros : zeros = [p \in {WSIZE * k : k \in 0 .. MAX_HEAP \div WSIZE - 1} |-> 0]
  OBVIOUS
<1>2. PICK r : r = mm_init(zeros)
  OBVIOUS
<1>3. live = None /\ mem_brk = r.brk /\ mem = Erased(r.mem, r.brk, None)
  BY <1>1, <1>2 DEF Init, None
<1>4. zeros \in Memory
  BY <1>1 DEF Memory, Addr
<1>5. HeapHolds(r.mem, r.brk, None)
  BY <1>2, <1>4, NoneHeld
<1> QED
  BY <1>3, <1>5, LeaveData
-----------------------------------------------------------------------------
(* 14. Restarts, and what a request is given.                              *)

(* The driver restarts on an empty heap.                                   *)
LEMMA RestartHolds ==
  ASSUME HeapHolds(mem, mem_brk, live), Restart
  PROVE  HeapHolds(mem', mem_brk', live') /\ live' = None
<1>0. mem \in Memory
  BY DEF HeapHolds, Sound, HeapAt, Walls
<1>1. PICK z : z = mem_reset_brk
  OBVIOUS
<1>2. z \in Memory
  BY <1>0, <1>1 DEF mem_reset_brk, Memory, Garbage
<1>3. PICK r : r = mm_init(z)
  OBVIOUS
<1>4. HeapHolds(r.mem, r.brk, None)
  BY <1>2, <1>3, NoneHeld
<1>5. /\ mem' = [p \in DOMAIN mem |-> IF p < r.brk THEN Erased(r.mem, r.brk, None)[p]
                                      ELSE Garbage]
      /\ mem_brk' = r.brk /\ live' = None
  BY <1>1, <1>3 DEF Restart, Restarts, None
<1>6. Erased(r.mem, r.brk, None) \in Memory
  <2>1. r.mem \in Memory
    BY <1>4 DEF HeapHolds, Sound, HeapAt, Walls
  <2> QED
    BY <2>1, ErasedIs
<1>7. mem' \in Memory /\ \A p \in Addr : p < r.brk => mem'[p] = Erased(r.mem, r.brk, None)[p]
  <2>1. PICK e \in Memory : e = Erased(r.mem, r.brk, None)
    BY <1>6
  <2>2. mem' = [p \in Addr |-> IF p < r.brk THEN e[p] ELSE Garbage]
    BY <2>1, <1>0, <1>5 DEF Memory
  <2> QED
    BY <2>1, <2>2 DEF Memory, Garbage
<1>8. HeapHolds(mem', r.brk, None)
  BY <1>4, <1>7, Leave
<1> QED
  BY <1>5, <1>8

(* What a caller may ask for.                                              *)
Allowed(r) ==
    /\ r.id \in Ids /\ r.size \in Sizes \cup {0}
    /\ \/ r.type = "ALLOC" /\ live[r.id] = Nothing /\ r.size \in Sizes
       \/ r.type = "REALLOC" /\ live[r.id] # Nothing /\ r.size \in Sizes
       \/ r.type = "FREE" /\ live[r.id] # Nothing

(* What it is given.                                                       *)
Answered(r, result) ==
    /\ HeapHolds(result.mem, result.brk, Has(r, result)) /\ result.bp \in Nat
    /\ SameData(mem, result.mem, live, r.id) /\ result.brk >= mem_brk
    /\ Failed(r, result) =>
          /\ r.size # 0 => NoneFits(mem, mem_brk, r.size)
          /\ r.type = "ALLOC" => Has(r, result) = live
    /\ r.type = "REALLOC" /\ ~Failed(r, result) =>
          \A k \in 0 .. Words(live[r.id].size) - 1 :
             k < Words(r.size) => result.mem[result.bp + 4 * k] = mem[live[r.id].bp + 4 * k]
    /\ ~Failed(r, result) =>
          /\ r.type # "FREE" => Has(r, result) = Holding(live, r.id, result.bp, r.size)
          /\ r.type = "FREE" => Has(r, result) = [live EXCEPT ![r.id] = Nothing]
          /\ r.type = "ALLOC" => Best(mem, result, mem_brk, r.size)

(* The block of an id in what is held. *)
LEMMA HoldingIs ==
  ASSUME NEW m, NEW brk, NEW held, HeapHolds(m, brk, held), NEW id \in Ids
  PROVE  /\ held \in [Ids -> [bp : Nat, size : Nat]] /\ held[id].bp \in Nat
         /\ held[id].size \in Nat
         /\ \A bp, size : Holding(held, id, bp, size)[id] = [bp |-> bp, size |-> size]
<1>1. held \in [Ids -> [bp : Nat, size : Nat]]
  BY DEF HeapHolds, LiveIn
<1> QED
  BY <1>1 DEF Holding

(* Nothing has changed when the memory is the same.                        *)
LEMMA Unchanged ==
  ASSUME NEW m, NEW held, NEW id
  PROVE  SameData(m, m, held, id)
BY DEF SameData, SameWords

(* Every call gives it.                                                    *)
LEMMA Answers ==
  ASSUME SizesFit, HeapHolds(mem, mem_brk, live), NEW r, Allowed(r),
         NEW result, result = Called(r)
  PROVE  Answered(r, result)
<1> DEFINE id == r.id
           size == r.size
<1>0. id \in Ids /\ live \in [Ids -> [bp : Nat, size : Nat]]
  BY DEF Allowed, HeapHolds, LiveIn
<1>10. mem_brk \in Nat
  BY HeapAssumption DEF HeapHolds
<1>1. CASE r.type = "ALLOC" /\ live[r.id] = Nothing /\ r.size \in Sizes
  <2>1. result = mm_malloc(mem, mem_brk, size)
    BY <1>1 DEF Called
  <2>2. Gave(mem, result, mem_brk, live, id, size)
    BY <1>0, <1>1, <2>1, Gives
  <2>3. CASE result.bp = NULL
    <3>1. result.mem = mem /\ result.brk = mem_brk /\ (size # 0 => NoneFits(mem, mem_brk, size))
      BY <2>2, <2>3 DEF Gave
    <3>2. Has(r, result) = live /\ Failed(r, result)
      BY <2>3, <1>1 DEF Has, Failed
    <3>3. SameData(mem, result.mem, live, id)
      BY <3>1, Unchanged
    <3> QED
      BY <2>3, <3>1, <3>2, <3>3, <1>1, <1>10 DEF Answered, NULL
  <2>4. CASE result.bp # NULL
    <3>1. /\ size # 0 /\ HeapHolds(result.mem, result.brk, Holding(live, id, result.bp, size))
          /\ SameData(mem, result.mem, live, id) /\ Best(mem, result, mem_brk, size)
      BY <2>2, <2>4 DEF Gave
    <3>2. Has(r, result) = Holding(live, id, result.bp, size) /\ ~Failed(r, result)
      BY <2>4, <1>1 DEF Has, Failed, Holding
    <3>3. result.bp \in Nat
      <4>1. PICK held : held = Holding(live, id, result.bp, size)
        OBVIOUS
      <4>2. held[id].bp \in Nat /\ held[id] = [bp |-> result.bp, size |-> size]
        BY <4>1, <3>1, <1>0, HoldingIs DEF Holding
      <4> QED
        BY <4>2
    <3>4. result.brk >= mem_brk
      <4>1. result.brk \in 40 + CHUNKSIZE .. MAX_HEAP
        BY <3>1 DEF HeapHolds
      <4> QED
        BY <4>1, <3>1, <1>10, HeapAssumption DEF Best
    <3> QED
      BY <3>1, <3>2, <3>3, <3>4, <1>1 DEF Answered
  <2> QED
    BY <2>3, <2>4
<1>2. CASE r.type = "REALLOC" /\ live[r.id] # Nothing /\ r.size \in Sizes /\ r.size # 0
  <2>1. result = mm_realloc(mem, mem_brk, live[id].bp, size)
    <3>1. size > 0
      BY <1>2 DEF SizesFit, Fitting
    <3> QED
      BY <3>1, <1>2 DEF Called
  <2>2. Resized(mem, result, mem_brk, live, id, size)
    BY <1>0, <1>2, <2>1, Resizes
  <2>3. CASE result.bp = NULL
    <3>1. result.mem = mem /\ result.brk = mem_brk /\ NoneFits(mem, mem_brk, size)
      BY <2>2, <2>3 DEF Resized
    <3>2. Has(r, result) = live /\ Failed(r, result)
      BY <2>3, <1>2 DEF Has, Failed
    <3>3. SameData(mem, result.mem, live, id)
      BY <3>1, Unchanged
    <3> QED
      BY <2>3, <3>1, <3>2, <3>3, <1>2, <1>10 DEF Answered, NULL
  <2>4. CASE result.bp # NULL
    <3>1. /\ HeapHolds(result.mem, result.brk, Holding(live, id, result.bp, size))
          /\ SameData(mem, result.mem, live, id) /\ result.brk >= mem_brk
          /\ \A k \in 0 .. Words(live[id].size) - 1 :
                k < Words(size) => result.mem[result.bp + 4 * k] = mem[live[id].bp + 4 * k]
      BY <2>2, <2>4 DEF Resized
    <3>2. Has(r, result) = Holding(live, id, result.bp, size) /\ ~Failed(r, result)
      BY <2>4, <1>2 DEF Has, Failed, Holding
    <3>3. result.bp \in Nat
      <4>1. PICK held : held = Holding(live, id, result.bp, size)
        OBVIOUS
      <4>2. held[id].bp \in Nat /\ held[id] = [bp |-> result.bp, size |-> size]
        BY <4>1, <3>1, <1>0, HoldingIs DEF Holding
      <4> QED
        BY <4>2
    <3> QED
      BY <3>1, <3>2, <3>3, <1>2, <1>10 DEF Answered
  <2> QED
    BY <2>3, <2>4
<1>3. CASE /\ live[r.id] # Nothing
           /\ (r.type = "REALLOC" /\ r.size \in Sizes /\ r.size = 0) \/ r.type = "FREE"
  <2>1. PICK j : j = mm_free(mem, live[id].bp)
    OBVIOUS
  <2>2. HeapHolds(j, mem_brk, [live EXCEPT ![id] = Nothing]) /\ SameData(mem, j, live, id)
    BY <1>0, <1>3, <2>1, Takes
  <2>3. Has(r, result) = [live EXCEPT ![id] = Nothing]
    BY <1>3 DEF Has
  <2>4. CASE r.type = "FREE"
    <3>1. result = Result(j, mem_brk, live[id].bp) /\ ~Failed(r, result)
      BY <2>1, <2>4 DEF Called, Failed
    <3>2. result.mem = j /\ result.brk = mem_brk /\ result.bp = live[id].bp
      BY <3>1 DEF Result
    <3> QED
      BY <2>2, <2>3, <2>4, <3>1, <3>2, <1>0, <1>10 DEF Answered
  <2>5. CASE r.type # "FREE"
    <3>0. r.type = "REALLOC" /\ r.size = 0
      BY <2>5, <1>3
    <3>1. result = Result(j, mem_brk, NULL)
      BY <2>1, <3>0 DEF Called
    <3>2. result.mem = j /\ result.brk = mem_brk /\ result.bp = NULL /\ Failed(r, result)
      BY <2>5, <3>1 DEF Result, Failed
    <3> QED
      BY <2>2, <2>3, <3>0, <3>2, <1>10 DEF Answered, NULL
  <2> QED
    BY <2>4, <2>5
<1> QED
  BY <1>1, <1>2, <1>3 DEF Allowed
-----------------------------------------------------------------------------
(* 15. The data of callers, and the ranges the driver keeps of them.       *)

(* Everyone's data is in the block it was written to.                      *)
FilledAt(m, id, block) ==
    \A k \in 0 .. Words(block.size) - 1 : m[block.bp + 4 * k] = Data(id, k)
Filled(m, held) == \A id \in Ids : held[id] # Nothing => FilledAt(m, id, held[id])

(* Data of which no word changes stays what it was.                        *)
LEMMA FilledWords ==
  ASSUME NEW m, NEW j, NEW id, NEW block, SameWords(m, j, block), FilledAt(m, id, block)
  PROVE  FilledAt(j, id, block)
BY DEF SameWords, FilledAt

(* It is there after what nobody needs was erased.                         *)
LEMMA FilledStill ==
  ASSUME NEW m, NEW brk, NEW held, HeapHolds(m, brk, held), Filled(m, held),
         NEW e, e = Erased(m, brk, held)
  PROVE  HeapHolds(e, brk, held) /\ Filled(e, held)
<1>1. HeapHolds(e, brk, held)
  BY LeaveData
<1>2. ASSUME NEW id \in Ids, held[id] # Nothing PROVE FilledAt(e, id, held[id])
  <2>1. SameWords(m, e, held[id]) /\ FilledAt(m, id, held[id])
    BY <1>2, LeaveData DEF Filled
  <2> QED
    BY <2>1, FilledWords
<1> QED
  BY <1>1, <1>2 DEF Filled

(* It is there after a caller wrote the rest of its own.                   *)
LEMMA FilledIn ==
  ASSUME NEW m, NEW brk, NEW held, HeapHolds(m, brk, held),
         NEW id \in Ids, held[id] # Nothing, NEW first \in Nat,
         \A i \in Ids \ {id} : held[i] # Nothing => FilledAt(m, i, held[i]),
         \A k \in 0 .. Words(held[id].size) - 1 :
             k < first => m[held[id].bp + 4 * k] = Data(id, k),
         NEW f, f = Fill(m, id, held[id].bp, first, held[id].size),
         NEW e, e = Erased(f, brk, held)
  PROVE  HeapHolds(e, brk, held) /\ Filled(e, held)
<1>1. /\ HeapHolds(f, brk, held) /\ SameData(m, f, held, id)
      /\ FilledFrom(m, f, id, held[id].bp, first, held[id].size)
  BY FillHeld
<1>2. FilledAt(f, id, held[id])
  <2> SUFFICES ASSUME NEW k \in 0 .. Words(held[id].size) - 1
               PROVE  f[held[id].bp + 4 * k] = Data(id, k)
    BY DEF FilledAt
  <2>1. k \in Int
    OBVIOUS
  <2>2. CASE k < first
    <3>1. f[held[id].bp + 4 * k] = m[held[id].bp + 4 * k]
      BY <2>2, <1>1 DEF FilledFrom
    <3> QED
      BY <3>1, <2>2
  <2>3. CASE k >= first
    BY <2>3, <1>1 DEF FilledFrom
  <2> QED
    BY <2>1, <2>2, <2>3
<1>3. ASSUME NEW i \in Ids, held[i] # Nothing PROVE FilledAt(f, i, held[i])
  <2>1. CASE i = id
    BY <2>1, <1>2
  <2>2. CASE i # id
    <3>1. SameWords(m, f, held[i]) /\ FilledAt(m, i, held[i])
      BY <2>2, <1>1, <1>3 DEF SameData
    <3> QED
      BY <3>1, FilledWords
  <2> QED
    BY <2>1, <2>2
<1>4. Filled(f, held)
  BY <1>3 DEF Filled
<1> QED
  BY <1>1, <1>4, FilledStill

(* The other blocks' data is in a new state of what is held.               *)
LEMMA OthersFilled ==
  ASSUME NEW m, NEW j, NEW held, NEW id, SameData(m, j, held, id), Filled(m, held),
         NEW now, \A i \in Ids \ {id} : now[i] = held[i]
  PROVE  \A i \in Ids \ {id} : now[i] # Nothing => FilledAt(j, i, now[i])
<1> SUFFICES ASSUME NEW i \in Ids \ {id}, now[i] # Nothing PROVE FilledAt(j, i, now[i])
  OBVIOUS
<1>1. PICK block : block = held[i] /\ now[i] = block
  OBVIOUS
<1>2. SameWords(m, j, block) /\ FilledAt(m, i, block)
  BY <1>1 DEF SameData, Filled
<1>3. FilledAt(j, i, block)
  BY <1>2, FilledWords
<1> QED
  BY <1>1, <1>3
-----------------------------------------------------------------------------
(* Any caller. *)
Right(m, brk, held) == HeapHolds(m, brk, held) /\ Filled(m, held)

(* The caller writes what is new, and the rest is there.                   *)
LEMMA BecomesRight ==
  ASSUME Right(mem, mem_brk, live), NEW r, NEW id \in Ids, NEW first \in Nat,
         NEW size \in Nat \ {0}, Becomes(r, id, first, size),
         \/ r.bp = NULL /\ r.mem = mem /\ r.brk = mem_brk
         \/ /\ r.bp # NULL /\ HeapHolds(r.mem, r.brk, Holding(live, id, r.bp, size))
            /\ SameData(mem, r.mem, live, id)
            /\ \A k \in 0 .. Words(size) - 1 : k < first => r.mem[r.bp + 4 * k] = Data(id, k)
  PROVE  Right(mem', mem_brk', live')
<1>0. live \in [Ids -> [bp : Nat, size : Nat]]
  BY DEF Right, HeapHolds, LiveIn
<1>1. CASE r.bp = NULL
  <2>1. mem' = Erased(mem, mem_brk, live) /\ mem_brk' = mem_brk /\ live' = live
    BY <1>1 DEF Becomes, Leaves
  <2> QED
    BY <2>1, FilledStill DEF Right
<1>2. CASE r.bp # NULL
  <2>1. PICK now : now = Holding(live, id, r.bp, size)
    OBVIOUS
  <2>2. now[id] = [bp |-> r.bp, size |-> size] /\ \A i \in Ids \ {id} : now[i] = live[i]
    BY <2>1, <1>0 DEF Holding
  <2>3. now[id].bp = r.bp /\ now[id].size = size /\ now[id] # Nothing
    <3>1. now[id].bp = r.bp /\ now[id].size = size
      BY <2>2
    <3> QED
      BY <3>1, <1>2 DEF Nothing
  <2>4. PICK f : f = Fill(r.mem, id, now[id].bp, first, now[id].size)
    OBVIOUS
  <2>5. mem' = Erased(f, r.brk, now) /\ mem_brk' = r.brk /\ live' = now
    BY <2>1, <2>3, <2>4, <1>2 DEF Becomes, Leaves, Holding
  <2>6. /\ HeapHolds(r.mem, r.brk, now) /\ SameData(mem, r.mem, live, id)
        /\ \A k \in 0 .. Words(now[id].size) - 1 :
              k < first => r.mem[now[id].bp + 4 * k] = Data(id, k)
    BY <2>1, <2>3, <1>2
  <2>7. \A i \in Ids \ {id} : now[i] # Nothing => FilledAt(r.mem, i, now[i])
    BY <2>2, <2>6, OthersFilled DEF Right
  <2>8. HeapHolds(mem', r.brk, now) /\ Filled(mem', now)
    BY <2>3, <2>4, <2>5, <2>6, <2>7, FilledIn
  <2> QED
    BY <2>5, <2>8 DEF Right
<1> QED
  BY <1>1, <1>2

(* A free id. *)
LEMMA LeastFree ==
  ASSUME Held # Ids
  PROVE  /\ Min(Ids \ Held) \in Ids /\ live[Min(Ids \ Held)] = Nothing
<1> DEFINE T == Ids \ Held
<1>1. T \subseteq Nat /\ T # {}
  BY IdsAre DEF Held
<1> HIDE DEF T
<1>2. \E x \in T : \A y \in T : x <= y
  BY <1>1, LeastNat
<1>3. Min(T) \in T
  BY <1>2 DEF Min
<1> QED
  BY <1>3 DEF T, Held

(* Whatever the caller calls, its data stays.                              *)
LEMMA CallerRight ==
  ASSUME SizesFit, Right(mem, mem_brk, live), Next
  PROVE  Right(mem', mem_brk', live')
<1>0. HeapHolds(mem, mem_brk, live) /\ live \in [Ids -> [bp : Nat, size : Nat]]
  BY DEF Right, HeapHolds, LiveIn
<1>1. ASSUME NEW size \in Sizes, Malloc(size) PROVE Right(mem', mem_brk', live')
  <2>1. PICK id \in Ids : id = Min(Ids \ Held) /\ live[id] = Nothing
    BY <1>1, LeastFree DEF Malloc
  <2>2. PICK r : r = mm_malloc(mem, mem_brk, size)
    OBVIOUS
  <2>3. Becomes(r, id, 0, size)
    BY <1>1, <2>1, <2>2 DEF Malloc
  <2>4. Gave(mem, r, mem_brk, live, id, size)
    BY <1>0, <2>1, <2>2, Gives
  <2>5. size \in Nat
    BY DEF SizesFit, Fitting
  <2>6. CASE size = 0
    <3>1. r.bp = NULL /\ r.mem = mem /\ r.brk = mem_brk
      BY <2>4, <2>6 DEF Gave
    <3>2. mem' = Erased(mem, mem_brk, live) /\ mem_brk' = mem_brk /\ live' = live
      BY <2>3, <3>1 DEF Becomes, Leaves
    <3> QED
      BY <3>2, FilledStill DEF Right
  <2>7. CASE size # 0
    <3>1. \A k \in 0 .. Words(size) - 1 : ~(k < 0)
      BY <2>5, WordsAre
    <3>2. \/ r.bp = NULL /\ r.mem = mem /\ r.brk = mem_brk
          \/ /\ r.bp # NULL /\ HeapHolds(r.mem, r.brk, Holding(live, id, r.bp, size))
             /\ SameData(mem, r.mem, live, id)
      BY <2>4 DEF Gave
    <3>3. size \in Nat \ {0} /\ 0 \in Nat
      BY <2>5, <2>7
    <3> QED
      BY <2>3, <3>1, <3>2, <3>3, BecomesRight
  <2> QED
    BY <2>6, <2>7
<1>2. ASSUME NEW id \in Ids, Free(id) PROVE Right(mem', mem_brk', live')
  <2>1. live[id] # Nothing
    BY <1>2 DEF Free, Held
  <2>2. PICK j : j = mm_free(mem, live[id].bp)
    OBVIOUS
  <2>3. PICK now : now = [live EXCEPT ![id] = Nothing]
    OBVIOUS
  <2>4. HeapHolds(j, mem_brk, now) /\ SameData(mem, j, live, id)
    BY <2>1, <2>2, <2>3, <1>0, Takes
  <2>5. now[id] = Nothing /\ \A i \in Ids \ {id} : now[i] = live[i]
    BY <2>3, <1>0
  <2>6. Filled(j, now)
    <3>1. \A i \in Ids \ {id} : now[i] # Nothing => FilledAt(j, i, now[i])
      BY <2>4, <2>5, OthersFilled DEF Right
    <3> QED
      BY <3>1, <2>5 DEF Filled
  <2>7. mem' = Erased(j, mem_brk, now) /\ mem_brk' = mem_brk /\ live' = now
    BY <1>2, <2>2, <2>3 DEF Free, Leaves
  <2> QED
    BY <2>4, <2>6, <2>7, FilledStill DEF Right
<1>3. ASSUME NEW id \in Ids, NEW size \in Sizes, Realloc(id, size)
      PROVE  Right(mem', mem_brk', live')
  <2>1. live[id] # Nothing /\ size # 0
    BY <1>3 DEF Realloc, Held
  <2>2. PICK r : r = mm_realloc(mem, mem_brk, live[id].bp, size)
    OBVIOUS
  <2>3. PICK first : first = Words(live[id].size)
    OBVIOUS
  <2>4. Becomes(r, id, first, size)
    BY <1>3, <2>2, <2>3 DEF Realloc
  <2>5. Resized(mem, r, mem_brk, live, id, size)
    BY <1>0, <2>1, <2>2, Resizes
  <2>6. size \in Nat \ {0} /\ live[id].size \in Nat
    BY <2>1, <1>0 DEF SizesFit, Fitting
  <2>7. first \in Nat /\ Words(size) \in Nat
    BY <2>3, <2>6, WordsAre
  <2>8. \/ r.bp = NULL /\ r.mem = mem /\ r.brk = mem_brk
        \/ /\ r.bp # NULL /\ HeapHolds(r.mem, r.brk, Holding(live, id, r.bp, size))
           /\ SameData(mem, r.mem, live, id)
           /\ \A k \in 0 .. Words(size) - 1 : k < first => r.mem[r.bp + 4 * k] = Data(id, k)
    <3>1. CASE r.bp = NULL
      BY <2>5, <3>1 DEF Resized
    <3>2. CASE r.bp # NULL
      <4>1. /\ HeapHolds(r.mem, r.brk, Holding(live, id, r.bp, size))
            /\ SameData(mem, r.mem, live, id)
            /\ \A k \in 0 .. first - 1 :
                  k < Words(size) => r.mem[r.bp + 4 * k] = mem[live[id].bp + 4 * k]
        BY <2>3, <2>5, <3>2 DEF Resized
      <4>2. \A k \in 0 .. first - 1 : mem[live[id].bp + 4 * k] = Data(id, k)
        BY <2>1, <2>3 DEF Right, Filled, FilledAt
      <4>3. \A k \in 0 .. Words(size) - 1 : k < first => k \in 0 .. first - 1 /\ k < Words(size)
        BY <2>7
      <4> QED
        BY <3>2, <4>1, <4>2, <4>3
    <3> QED
      BY <3>1, <3>2
  <2> QED
    BY <2>4, <2>6, <2>7, <2>8, BecomesRight
<1> QED
  BY <1>1, <1>2, <1>3 DEF Next

(* Where a block is that is held. *)
LEMMA HeldAt ==
  ASSUME NEW m, NEW brk, NEW held, HeapHolds(m, brk, held), NEW id \in Ids, held[id] # Nothing
  PROVE  /\ held[id].bp \in Nat /\ held[id].bp % 8 = 0 /\ held[id].bp # 0
         /\ held[id].size \in Nat /\ held[id].size >= 1 /\ brk \in Nat
         /\ held[id].bp + held[id].size + 4 <= brk
<1> DEFINE S == Heap(m, brk)
<1>0. HeapAt(m, brk, S, 0, 0) /\ LiveIn(m, brk, S, held)
  BY DEF HeapHolds, Sound
<1> HIDE DEF S
<1>1. PICK b \in Used(m, brk, S, 0) : b = held[id].bp
  BY <1>0 DEF LiveIn
<1>2. /\ held[id].size \in Nat /\ held[id].size # 0
      /\ held[id].size + 4 <= Size(m, b)
  BY <1>0, <1>1 DEF LiveIn
<1>3. b \in Nat /\ b % 8 = 0 /\ b # 0 /\ Size(m, b) \in Nat
  BY <1>0, UsedWords
<1>4. b + Size(m, b) <= brk /\ brk \in Nat
  <2>1. b \in S \ {brk, 0} /\ Walls(m, brk, S, 0, 0)
    BY <1>0, <1>3, WallsSay DEF Used, HeapAt
  <2> QED
    BY <2>1, Nexts, BlockWords
<1> QED
  BY <1>1, <1>2, <1>3, <1>4

(* Blocks that are held do not overlap. *)
LEMMA HeldApart ==
  ASSUME NEW m, NEW brk, NEW held, HeapHolds(m, brk, held), NEW i \in Ids, NEW n \in Ids,
         held[i] # Nothing, held[n] # Nothing, i # n
  PROVE  \/ held[i].bp + held[i].size + 4 <= held[n].bp
         \/ held[n].bp + held[n].size + 4 <= held[i].bp
<1> DEFINE S == Heap(m, brk)
<1>0. HeapAt(m, brk, S, 0, 0) /\ LiveIn(m, brk, S, held)
  BY DEF HeapHolds, Sound
<1> HIDE DEF S
<1>1. PICK b \in Used(m, brk, S, 0) : b = held[i].bp
  BY <1>0 DEF LiveIn
<1>2. PICK c \in Used(m, brk, S, 0) : c = held[n].bp
  BY <1>0 DEF LiveIn
<1>3. b # c
  BY <1>0, <1>1, <1>2 DEF LiveIn
<1>4. PICK s \in Nat : s = held[i].size /\ s + 4 <= Size(m, b)
  BY <1>0, <1>1 DEF LiveIn
<1>5. PICK t \in Nat : t = held[n].size /\ t + 4 <= Size(m, c)
  BY <1>0, <1>2 DEF LiveIn
<1>6. b \in Nat /\ c \in Nat /\ Size(m, b) \in Nat /\ Size(m, c) \in Nat /\ b # 0 /\ c # 0
  BY <1>0, UsedWords
<1>7. (c <= b \/ b + Size(m, b) <= c) /\ (b <= c \/ c + Size(m, c) <= b)
  <2>1. b \in S \ {brk, 0} /\ c \in S \ {brk, 0} /\ Walls(m, brk, S, 0, 0)
    BY <1>0, <1>6, WallsSay DEF Used, HeapAt
  <2>2. Extent(m, 0, 0, b) = Size(m, b) /\ Extent(m, 0, 0, c) = Size(m, c)
    BY <1>6 DEF Extent
  <2> QED
    BY <2>1, <2>2, WallsSay
<1>8. b + s + 4 <= c \/ c + t + 4 <= b
  BY <1>3, <1>4, <1>5, <1>6, <1>7
<1> QED
  BY <1>1, <1>2, <1>4, <1>5, <1>8
-----------------------------------------------------------------------------
(* The ranges of the blocks of some ids.                                   *)
RangeOf(block) == [lo |-> block.bp, hi |-> block.bp + block.size - 1]
RangesOf(held, I) == {RangeOf(held[i]) : i \in {n \in I : held[n] # Nothing}}

(* remove_range takes the range of one id away.                            *)
LEMMA RangeRemoved ==
  ASSUME NEW m, NEW brk, NEW held, HeapHolds(m, brk, held), NEW id \in Ids
  PROVE  remove_range(RangesOf(held, Ids), held[id].bp) = RangesOf(held, Ids \ {id})
<1>1. \A i, n \in Ids : held[i] # Nothing /\ held[i].bp = held[n].bp => i = n
  BY DEF HeapHolds, LiveIn
<1>2. \A i \in Ids : RangeOf(held[i]).lo = held[i].bp
  BY DEF RangeOf
<1>3. ASSUME NEW x
      PROVE  x \in remove_range(RangesOf(held, Ids), held[id].bp)
                <=> x \in RangesOf(held, Ids \ {id})
  <2>1. ASSUME x \in remove_range(RangesOf(held, Ids), held[id].bp)
        PROVE  x \in RangesOf(held, Ids \ {id})
    <3>1. PICK i \in Ids : held[i] # Nothing /\ x = RangeOf(held[i]) /\ x.lo # held[id].bp
      BY <2>1 DEF remove_range, RangesOf
    <3>2. i # id
      BY <3>1, <1>2
    <3> QED
      BY <3>1, <3>2 DEF RangesOf
  <2>2. ASSUME x \in RangesOf(held, Ids \ {id})
        PROVE  x \in remove_range(RangesOf(held, Ids), held[id].bp)
    <3>1. PICK i \in Ids \ {id} : held[i] # Nothing /\ x = RangeOf(held[i])
      BY <2>2 DEF RangesOf
    <3>2. x.lo # held[id].bp
      BY <3>1, <1>1, <1>2
    <3> QED
      BY <3>1, <3>2 DEF remove_range, RangesOf
  <2> QED
    BY <2>1, <2>2
<1> HIDE DEF RangeOf, RangesOf, remove_range
<1> QED
  BY <1>3

(* The two fields of what add_range answers.                               *)
Says(a, says, set) == a.error = says /\ a.ranges = set
(* A record of two fields says what they are.                              *)
LEMMA SaysTwo ==
  ASSUME NEW says, NEW set, NEW a, a = [error |-> says, ranges |-> set]
  PROVE  Says(a, says, set)
BY DEF Says

(* add_range finds nothing wrong with a block that is held now.            *)
Added(added, held, I, id) ==
    /\ added.error = "" /\ added.ranges = RangesOf(held, I \cup {id})
(* add_range finds nothing wrong with a block that is held.                *)
LEMMA RangeAdded ==
  ASSUME NEW m, NEW brk, NEW held, HeapHolds(m, brk, held), NEW id \in Ids, held[id] # Nothing,
         NEW added,
         added = add_range(RangesOf(held, Ids \ {id}), brk, held[id].bp, held[id].size)
  PROVE  Added(added, held, Ids \ {id}, id)
<1>1. PICK lo \in Nat : lo = held[id].bp /\ lo % 8 = 0
  BY HeldAt
<1>2. PICK size \in Nat : size = held[id].size /\ size >= 1 /\ lo + size + 4 <= brk /\ brk \in Nat
  BY <1>1, HeldAt
<1>3. PICK hi \in Nat : hi = lo + size - 1
  BY <1>1, <1>2
<1>4. PICK rs : rs = RangesOf(held, Ids \ {id})
  OBVIOUS
<1>5. \A range \in rs : /\ range.lo \in Nat /\ range.hi \in Nat
                        /\ lo \notin range.lo .. range.hi /\ hi \notin range.lo .. range.hi
  <2> SUFFICES ASSUME NEW range \in rs
               PROVE  /\ range.lo \in Nat /\ range.hi \in Nat
                      /\ lo \notin range.lo .. range.hi /\ hi \notin range.lo .. range.hi
    OBVIOUS
  <2>1. PICK i \in Ids \ {id} : held[i] # Nothing /\ range = RangeOf(held[i])
    BY <1>4 DEF RangesOf
  <2>2. PICK b \in Nat : b = held[i].bp
    BY <2>1, HeldAt
  <2>3. PICK s \in Nat : s = held[i].size /\ s >= 1
    BY <2>1, HeldAt
  <2>4. lo + size + 4 <= b \/ b + s + 4 <= lo
    BY <2>1, <2>2, <2>3, <1>1, <1>2, HeldApart
  <2>5. range.lo = b /\ range.hi = b + s - 1
    BY <2>1, <2>2, <2>3 DEF RangeOf
  <2> QED
    BY <2>3, <2>4, <2>5, <1>2, <1>3
<1>6. /\ ~(lo % DSIZE # 0) /\ ~(lo < 0 \/ lo > brk - 1 \/ hi < 0 \/ hi > brk - 1)
  BY <1>1, <1>2, <1>3 DEF DSIZE
<1>7. add_range(rs, brk, lo, size) = [error |-> "", ranges |-> rs \cup {[lo |-> lo, hi |-> hi]}]
  <2>1. ~ \E range \in rs : lo \in range.lo .. range.hi \/ hi \in range.lo .. range.hi
    BY <1>5
  <2> QED
    BY <2>1, <1>3, <1>6 DEF add_range
<1>8. added.error = "" /\ added.ranges = rs \cup {[lo |-> lo, hi |-> hi]}
  <2>1. added = add_range(rs, brk, lo, size)
    BY <1>1, <1>2, <1>4
  <2>2. added = [error |-> "", ranges |-> rs \cup {[lo |-> lo, hi |-> hi]}]
    BY <2>1, <1>7
  <2>3. PICK says : says = ""
    OBVIOUS
  <2>4. PICK more : more = rs \cup {[lo |-> lo, hi |-> hi]}
    OBVIOUS
  <2>5. added = [error |-> says, ranges |-> more]
    BY <2>2, <2>3, <2>4
  <2>6. Says(added, says, more)
    BY <2>5, SaysTwo
  <2> QED
    BY <2>3, <2>4, <2>6 DEF Says
<1>9. RangesOf(held, (Ids \ {id}) \cup {id}) = rs \cup {RangeOf(held[id])}
  BY <1>4 DEF RangesOf
<1>10. RangeOf(held[id]) = [lo |-> lo, hi |-> hi]
  BY <1>1, <1>2, <1>3 DEF RangeOf
<1> QED
  BY <1>8, <1>9, <1>10 DEF Added
-----------------------------------------------------------------------------
(* 16. The inductive invariant of allocator and driver.                    *)

(* A trace, and the ids that have a block after its first n requests.      *)
Entry == [request : [type : {"ALLOC", "REALLOC", "FREE"}, id : Ids, size : Sizes \cup {0}],
          bp : Nat]
Frees(played, id) == played.request.id = id /\ played.request.type = "FREE"
Gets(played, id) == played.request.id = id /\ played.request.type # "FREE"
HeldIn(tr, n) ==
    {id \in Ids : \E i \in 1 .. n : Gets(tr[i], id) /\ \A k \in i + 1 .. n : ~Frees(tr[k], id)}

(* The n-th request is one that a program may make.                        *)
Legal(tr, n) ==
    LET r == tr[n].request
    IN  /\ r.type = "ALLOC" => r.id \notin HeldIn(tr, n - 1) /\ r.size \in Sizes
        /\ r.type = "REALLOC" => r.id \in HeldIn(tr, n - 1) /\ r.size \in Sizes
        /\ r.type = "FREE" => r.id \in HeldIn(tr, n - 1)

HeldOneMore(tr, n, next, id) ==
    HeldIn(tr, next) = IF tr[next].request.type = "FREE" THEN HeldIn(tr, n) \ {id}
                       ELSE HeldIn(tr, n) \cup {id}

(* One request more. *)
LEMMA HeldNext ==
  ASSUME NEW tr, NEW n \in Nat, NEW id \in Ids, NEW next, next = n + 1,
         tr[next].request.id = id
  PROVE  HeldOneMore(tr, n, next, id)
<1> DEFINE free == tr[n + 1].request.type = "FREE"
<1>0. \A i \in Ids : (Frees(tr[n + 1], i) <=> i = id /\ free)
                     /\ (Gets(tr[n + 1], i) <=> i = id /\ ~free)
  BY DEF Frees, Gets
<1> HIDE DEF free
<1>1. ASSUME NEW i \in Ids
      PROVE  i \in HeldIn(tr, n + 1) <=> (i = id /\ ~free) \/ (i \in HeldIn(tr, n) /\ ~(i = id /\ free))
  <2>1. ASSUME i \in HeldIn(tr, n + 1)
        PROVE  (i = id /\ ~free) \/ (i \in HeldIn(tr, n) /\ ~(i = id /\ free))
    <3>1. PICK x \in 1 .. n + 1 : Gets(tr[x], i) /\ \A k \in x + 1 .. n + 1 : ~Frees(tr[k], i)
      BY <2>1 DEF HeldIn
    <3>2. CASE x = n + 1
      BY <3>1, <3>2, <1>0
    <3>3. CASE x # n + 1
      <4>1. x \in 1 .. n /\ n + 1 \in x + 1 .. n + 1 /\ x + 1 .. n \subseteq x + 1 .. n + 1
        BY <3>3
      <4>2. ~(i = id /\ free)
        BY <3>1, <4>1, <1>0
      <4> QED
        BY <3>1, <4>1, <4>2 DEF HeldIn
    <3> QED
      BY <3>2, <3>3
  <2>2. ASSUME i = id, ~free PROVE i \in HeldIn(tr, n + 1)
    <3>1. n + 1 \in 1 .. n + 1 /\ (n + 1) + 1 .. n + 1 = {}
      OBVIOUS
    <3> QED
      BY <2>2, <3>1, <1>0 DEF HeldIn
  <2>3. ASSUME i \in HeldIn(tr, n), ~(i = id /\ free) PROVE i \in HeldIn(tr, n + 1)
    <3>1. PICK x \in 1 .. n : Gets(tr[x], i) /\ \A k \in x + 1 .. n : ~Frees(tr[k], i)
      BY <2>3 DEF HeldIn
    <3>2. x \in 1 .. n + 1 /\ \A k \in x + 1 .. n + 1 : k = n + 1 \/ k \in x + 1 .. n
      OBVIOUS
    <3>3. \A k \in x + 1 .. n + 1 : ~Frees(tr[k], i)
      BY <2>3, <3>1, <3>2, <1>0
    <3> QED
      BY <3>1, <3>2, <3>3 DEF HeldIn
  <2> QED
    BY <2>1, <2>2, <2>3
<1>2. HeldIn(tr, n + 1) \subseteq Ids /\ HeldIn(tr, n) \subseteq Ids
  BY DEF HeldIn
<1>3. free <=> tr[n + 1].request.type = "FREE"
  BY DEF free
<1> QED
  BY <1>1, <1>2, <1>3 DEF HeldOneMore

(* What is held depends on the requests made.                              *)
LEMMA HeldAlike ==
  ASSUME NEW tr, NEW tr2, NEW n \in Nat, \A i \in 1 .. n : tr2[i] = tr[i]
  PROVE  HeldIn(tr2, n) = HeldIn(tr, n)
<1>1. \A i \in 1 .. n : i + 1 .. n \subseteq 1 .. n
  OBVIOUS
<1> QED
  BY <1>1 DEF HeldIn

(* Before the first request nothing is held.                               *)
LEMMA HeldAtFirst == \A tr : HeldIn(tr, 0) = {}
BY DEF HeldIn

(* What a trace says goes on to be true when it gets longer. *)
LEMMA LegalLonger ==
  ASSUME NEW tr \in Seq(Entry), NEW e \in Entry, \A n \in 1 .. Len(tr) : Legal(tr, n),
         NEW tr2, tr2 = Append(tr, e), Legal(tr2, Len(tr) + 1)
  PROVE  /\ tr2 \in Seq(Entry) /\ Len(tr2) = Len(tr) + 1 /\ tr2[Len(tr2)] = e
         /\ \A n \in 1 .. Len(tr2) : Legal(tr2, n)
         /\ \A n \in 0 .. Len(tr) : HeldIn(tr2, n) = HeldIn(tr, n)
<1>1. /\ tr2 \in Seq(Entry) /\ Len(tr) \in Nat /\ Len(tr2) = Len(tr) + 1 /\ tr2[Len(tr2)] = e
      /\ \A n \in 1 .. Len(tr) : tr2[n] = tr[n]
  OBVIOUS
<1>2. ASSUME NEW n \in 0 .. Len(tr) PROVE HeldIn(tr2, n) = HeldIn(tr, n)
  <2>1. n \in Nat /\ \A i \in 1 .. n : tr2[i] = tr[i]
    BY <1>1
  <2> QED
    BY <2>1, HeldAlike
<1>3. ASSUME NEW n \in 1 .. Len(tr2) PROVE Legal(tr2, n)
  <2>1. CASE n = Len(tr) + 1
    BY <2>1
  <2>2. CASE n # Len(tr) + 1
    <3>1. n \in 1 .. Len(tr) /\ n - 1 \in 0 .. Len(tr)
      BY <2>2, <1>1
    <3>2. tr2[n] = tr[n] /\ HeldIn(tr2, n - 1) = HeldIn(tr, n - 1) /\ Legal(tr, n)
      BY <3>1, <1>1, <1>2
    <3> QED
      BY <3>2 DEF Legal
  <2> QED
    BY <2>1, <2>2
<1> QED
  BY <1>1, <1>2, <1>3
-----------------------------------------------------------------------------
(* What is always true of the heap and the driver.                         *)
Phases == {"caller", "next", "valid", "util", "speed", "done", "aborted"}
DriverInv ==
    /\ HeapHolds(mem, mem_brk, live)
    /\ phase \in Phases /\ trace \in Seq(Entry) /\ Len(trace) <= MaxOps
    /\ op \in 0 .. Len(trace) /\ repetition \in 0 .. Repetitions
    /\ phase \in {"valid", "util", "speed"} =>
          Held = HeldIn(trace, op) /\ \A n \in 1 .. Len(trace) : Legal(trace, n)
    /\ phase \in {"caller", "valid"} => Filled(mem, live)
    /\ phase = "valid" => op = Len(trace) /\ ranges = RangesOf(live, Ids)
    /\ \A range \in ranges : range.lo \in 0 .. MAX_HEAP /\ range.hi \in 0 .. MAX_HEAP

(* It implies what the runs check of every state.                          *)
LEMMA HeapTyped ==
  ASSUME HeapHolds(mem, mem_brk, live)
  PROVE  TypeOK /\ TagsAgree /\ ListsHoldFree /\ LiveAreAllocated
<1> DEFINE S == Heap(mem, mem_brk)
           U == Used(mem, mem_brk, S, 0)
<1>0. /\ Sound(mem, mem_brk) /\ HeapAt(mem, mem_brk, S, 0, 0) /\ LiveIn(mem, mem_brk, S, live)
      /\ mem_brk \in 40 + CHUNKSIZE .. MAX_HEAP
  BY DEF HeapHolds, Sound
<1>1. TagsAgree /\ ListsHoldFree
  BY <1>0, SoundTags, SoundLists
<1>2. mem \in Memory /\ mem_brk \in Nat /\ mem_brk % 8 = 0 /\ \A b \in S : b \in Nat /\ b <= mem_brk
  BY <1>0, WallsSay, BlockWords DEF HeapAt
<1>3. \A id \in Ids : live[id].bp \in 0 .. mem_brk /\ live[id].size \in Sizes \cup {0}
  <2> SUFFICES ASSUME NEW id \in Ids
               PROVE  live[id].bp \in 0 .. mem_brk /\ live[id].size \in Sizes \cup {0}
    OBVIOUS
  <2>1. CASE live[id] = Nothing
    BY <2>1, <1>2 DEF Nothing, NULL
  <2>2. CASE live[id] # Nothing
    <3>1. live[id].bp \in S /\ live[id].size \in Sizes
      BY <2>2, <1>0 DEF LiveIn, Used
    <3> QED
      BY <3>1, <1>2
  <2> QED
    BY <2>1, <2>2
<1>4. TypeOK
  <2>1. mem \in [{WSIZE * k : k \in 0 .. MAX_HEAP \div WSIZE - 1} -> Int]
    BY <1>2 DEF Memory, Addr
  <2> QED
    BY <2>1, <1>0, <1>2, <1>3 DEF TypeOK
<1>5. Blocks \ (FreeBlocks \cup {class_listp}) = U
  <2>1. FreeBlocks = FreeIn(mem, mem_brk, S, 0) /\ Blocks = S \ {mem_brk}
    BY <1>0, FreeAre
  <2>2. \A b \in S : b # 0
    BY <1>0, WallsSay DEF HeapAt
  <2> HIDE DEF S
  <2> QED
    BY <2>1, <2>2 DEF FreeIn, Used
<1> HIDE DEF U, S
<1>6. {live[id].bp : id \in Held} = U
  <2>1. \A id \in Held : live[id].bp \in U
    BY <1>0 DEF LiveIn, Held, U
  <2>2. \A b \in U : \E id \in Held : live[id].bp = b
    BY <1>0 DEF LiveIn, Held, U
  <2> QED
    BY <2>1, <2>2
<1>7. \A i, j \in Held : live[i].bp = live[j].bp => i = j
  BY <1>0 DEF LiveIn, Held
<1>8. \A id \in Held : live[id].size <= Size(mem, live[id].bp) - WSIZE
  <2> SUFFICES ASSUME NEW id \in Held PROVE live[id].size <= Size(mem, live[id].bp) - WSIZE
    OBVIOUS
  <2>1. /\ live[id].bp \in Used(mem, mem_brk, S, 0) /\ live[id].size \in Nat
        /\ live[id].size + 4 <= Size(mem, live[id].bp)
    BY <1>0 DEF LiveIn, Held
  <2>2. Size(mem, live[id].bp) \in Nat
    BY <2>1, <1>0, UsedWords
  <2> QED
    BY <2>1, <2>2 DEF WSIZE
<1>9. LiveAreAllocated
  BY <1>5, <1>6, <1>7, <1>8 DEF LiveAreAllocated
<1> QED
  BY <1>1, <1>4, <1>9

(* So the invariant implies the properties of the runs.                    *)
LEMMA DriverTyped ==
  ASSUME DriverInv
  PROVE  HeapInv /\ PayloadsKept /\ RangesAreLive
<1>1. TypeOK /\ TagsAgree /\ ListsHoldFree /\ LiveAreAllocated
  BY HeapTyped DEF DriverInv
<1>2. DriverTypeOK
  BY <1>1 DEF DriverInv, Phases, DriverTypeOK
<1>3. PayloadsKept
  <2> SUFFICES ASSUME Filled(mem, live) PROVE PayloadsIntact
    BY DEF PayloadsKept, DriverInv
  <2> QED
    BY DEF Filled, FilledAt, PayloadsIntact, Held, WSIZE
<1>4. RangesAreLive
  BY DEF DriverInv, RangesAreLive, RangesOf, RangeOf, Held
<1> QED
  BY <1>1, <1>2, <1>3, <1>4 DEF HeapInv
-----------------------------------------------------------------------------
(* 17. What eval_mm_valid finds.                                           *)

(* The requests that the driver goes on with may be made.                  *)
LEMMA RequestAllowed ==
  ASSUME NEW r \in Requests
  PROVE  /\ Allowed(r)
         /\ r \in [type : {"ALLOC", "REALLOC", "FREE"}, id : Ids, size : Sizes \cup {0}]
<1>1. CASE \E id \in Ids, size \in Sizes :
             r = Request("ALLOC", id, size) /\ Ids \ Held # {} /\ id = Min(Ids \ Held)
  <2>1. PICK id \in Ids, size \in Sizes :
           r = Request("ALLOC", id, size) /\ Ids \ Held # {} /\ id = Min(Ids \ Held)
    BY <1>1
  <2>2. Held # Ids
    BY <2>1
  <2>3. live[id] = Nothing
    BY <2>1, <2>2, LeastFree
  <2>4. r = [type |-> "ALLOC", id |-> id, size |-> size]
    BY <2>1 DEF Request
  <2>5. r.type = "ALLOC" /\ r.id = id /\ r.size = size
    BY <2>4
  <2>6. Allowed(r)
    BY <2>3, <2>5 DEF Allowed
  <2> QED
    BY <2>4, <2>6
<1>2. CASE \E id \in Held, size \in Sizes : r = Request("REALLOC", id, size)
  <2>1. PICK id \in Held, size \in Sizes : r = Request("REALLOC", id, size)
    BY <1>2
  <2>2. r = [type |-> "REALLOC", id |-> id, size |-> size] /\ id \in Ids /\ live[id] # Nothing
    BY <2>1 DEF Request, Held
  <2>3. r.type = "REALLOC" /\ r.id = id /\ r.size = size
    BY <2>2
  <2>4. Allowed(r)
    BY <2>2, <2>3 DEF Allowed
  <2> QED
    BY <2>2, <2>4
<1>3. CASE \E id \in Held : r = Request("FREE", id, 0)
  <2>1. PICK id \in Held : r = Request("FREE", id, 0)
    BY <1>3
  <2>2. r = [type |-> "FREE", id |-> id, size |-> 0] /\ id \in Ids /\ live[id] # Nothing
    BY <2>1 DEF Request, Held
  <2>3. r.type = "FREE" /\ r.id = id /\ r.size = 0
    BY <2>2
  <2>4. Allowed(r)
    BY <2>2, <2>3 DEF Allowed
  <2> QED
    BY <2>2, <2>4
<1> QED
  BY <1>1, <1>2, <1>3 DEF Requests

(* The ranges of blocks that did not change.                               *)
LEMMA RangesAlike ==
  ASSUME NEW held, NEW now, NEW I, \A i \in I : now[i] = held[i]
  PROVE  RangesOf(now, I) = RangesOf(held, I)
BY DEF RangesOf

(* An id without a block has no range.                                     *)
LEMMA RangesOfNothing ==
  ASSUME NEW held, NEW I, NEW id \in I, held[id] = Nothing
  PROVE  RangesOf(held, I \ {id}) = RangesOf(held, I)
BY DEF RangesOf

(* The data that mm_realloc takes along is there. *)
KeptIn(m, bp, r) == \A k \in 0 .. Words(oldsize(r)) - 1 : m[bp + 4 * k] = Data(r.id, k)

(* What is in a block that moved.                                          *)
LEMMA IsPreserved ==
  ASSUME NEW r, NEW result, Answered(r, result), r.type = "REALLOC", ~Failed(r, result),
         r.id \in Ids, live[r.id] # Nothing, Filled(mem, live),
         live[r.id].size \in Nat, r.size \in Nat
  PROVE  KeptIn(result.mem, result.bp, r)
<1>1. PICK old \in Nat : old = live[r.id].size
  OBVIOUS
<1>2. PICK size \in Nat : size = r.size
  OBVIOUS
<1>3. PICK kept \in Nat : kept = IF size < old THEN size ELSE old
  OBVIOUS
<1>4. \A k \in 0 .. Words(old) - 1 :
         k < Words(size) => result.mem[result.bp + 4 * k] = mem[live[r.id].bp + 4 * k]
  BY <1>1, <1>2 DEF Answered
<1>5. \A k \in 0 .. Words(old) - 1 : mem[live[r.id].bp + 4 * k] = Data(r.id, k)
  BY <1>1 DEF Filled, FilledAt
<1>6. Words(old) \in Nat /\ Words(size) \in Nat /\ Words(kept) \in Nat
      /\ Words(kept) <= Words(old) /\ Words(kept) <= Words(size)
  BY <1>3 DEF Words, WSIZE
<1>7. \A k \in 0 .. Words(kept) - 1 : result.mem[result.bp + 4 * k] = Data(r.id, k)
  <2> SUFFICES ASSUME NEW k \in 0 .. Words(kept) - 1
               PROVE  result.mem[result.bp + 4 * k] = Data(r.id, k)
    OBVIOUS
  <2>1. k \in 0 .. Words(old) - 1 /\ k < Words(size)
    BY <1>6
  <2> QED
    BY <2>1, <1>4, <1>5
<1>8. oldsize(r) = kept
  BY <1>1, <1>2, <1>3 DEF oldsize
<1> QED
  BY <1>7, <1>8 DEF KeptIn
-----------------------------------------------------------------------------
(* Ranges of blocks are in the heap. *)
LEMMA RangesInHeap ==
  ASSUME NEW m, NEW brk, NEW held, HeapHolds(m, brk, held)
  PROVE  \A range \in RangesOf(held, Ids) :
            range.lo \in 0 .. MAX_HEAP /\ range.hi \in 0 .. MAX_HEAP
<1>0. brk <= MAX_HEAP /\ MAX_HEAP \in Nat
  BY HeapAssumption DEF HeapHolds
<1> SUFFICES ASSUME NEW id \in Ids, held[id] # Nothing, NEW range, range = RangeOf(held[id])
             PROVE  range.lo \in 0 .. MAX_HEAP /\ range.hi \in 0 .. MAX_HEAP
  BY DEF RangesOf
<1>1. /\ held[id].bp \in Nat /\ held[id].size \in Nat /\ held[id].size >= 1 /\ brk \in Nat
      /\ held[id].bp + held[id].size + 4 <= brk
  BY HeldAt
<1>2. range.lo = held[id].bp /\ range.hi = held[id].bp + held[id].size - 1
  BY DEF RangeOf
<1> QED
  BY <1>0, <1>1, <1>2

(* What eval_mm_valid finds of a request.                                  *)
Others(r, result) == IF r.type = "ALLOC" \/ Failed(r, result) THEN ranges
                     ELSE remove_range(ranges, live[r.id].bp)
AddedTo(r, result) ==
    IF r.type = "FREE" THEN [error |-> "", ranges |-> Others(r, result)]
    ELSE add_range(Others(r, result), result.brk, result.bp, r.size)
FoundRight(r, result) ==
    /\ AddedTo(r, result).error = "" /\ AddedTo(r, result).ranges = RangesOf(Has(r, result), Ids)
    /\ r.type = "REALLOC" => KeptIn(result.mem, result.bp, r)

(* Nothing is wrong when the call does not fail.                           *)
LEMMA NothingWrong ==
  ASSUME SizesFit, DriverInv, phase = "valid", NEW r, Allowed(r),
         NEW result, Answered(r, result), ~Failed(r, result)
  PROVE  FoundRight(r, result)
<1> DEFINE id == r.id
<1>0. /\ HeapHolds(mem, mem_brk, live) /\ Filled(mem, live) /\ ranges = RangesOf(live, Ids)
      /\ id \in Ids /\ live \in [Ids -> [bp : Nat, size : Nat]]
  BY DEF DriverInv, Allowed, HeapHolds, LiveIn
<1>1. r.size \in Nat /\ live[id].size \in Nat
  BY <1>0 DEF Allowed, SizesFit, Fitting
<1>2. PICK now : now = Has(r, result)
  OBVIOUS
<1>3. HeapHolds(result.mem, result.brk, now)
  BY <1>2 DEF Answered
<1>4. \A i \in Ids \ {id} : now[i] = live[i]
  BY <1>0, <1>2 DEF Answered, Holding
<1>5. Others(r, result) = RangesOf(live, Ids \ {id})
  <2>1. CASE r.type = "ALLOC"
    <3>1. live[id] = Nothing
      BY <2>1 DEF Allowed
    <3> QED
      BY <2>1, <3>1, <1>0, RangesOfNothing DEF Others
  <2>2. CASE r.type # "ALLOC"
    BY <2>2, <1>0, RangeRemoved DEF Others
  <2> QED
    BY <2>1, <2>2
<1>6. Others(r, result) = RangesOf(now, Ids \ {id})
  BY <1>4, <1>5, RangesAlike
<1>7. CASE r.type = "FREE"
  <2>1. now[id] = Nothing
    BY <1>0, <1>2, <1>7 DEF Answered
  <2>2. Others(r, result) = RangesOf(now, Ids)
    BY <2>1, <1>0, <1>6, RangesOfNothing
  <2>3. PICK says : says = ""
    OBVIOUS
  <2>4. PICK rs : rs = RangesOf(now, Ids)
    OBVIOUS
  <2>5. PICK added : added = AddedTo(r, result)
    OBVIOUS
  <2>6. added = [error |-> says, ranges |-> rs]
    BY <2>2, <2>3, <2>4, <2>5, <1>7 DEF AddedTo
  <2>7. Says(added, says, rs)
    BY <2>6, SaysTwo
  <2>8. AddedTo(r, result).error = "" /\ AddedTo(r, result).ranges = RangesOf(now, Ids)
    BY <2>3, <2>4, <2>5, <2>7 DEF Says
  <2> QED
    BY <2>8, <1>2, <1>7 DEF FoundRight
<1>8. CASE r.type # "FREE"
  <2>1. now = Holding(live, id, result.bp, r.size)
    BY <1>2, <1>8 DEF Answered
  <2>2. now[id] = [bp |-> result.bp, size |-> r.size]
    BY <2>1, <1>0 DEF Holding
  <2>3. now[id].bp = result.bp /\ now[id].size = r.size
    BY <2>2
  <2>4. now[id] # Nothing
    <3>1. result.bp # NULL
      BY <1>8 DEF Failed
    <3> QED
      BY <2>3, <3>1 DEF Nothing
  <2>5. PICK added : added = add_range(RangesOf(now, Ids \ {id}), result.brk, now[id].bp,
                                       now[id].size)
    OBVIOUS
  <2>6. Added(added, now, Ids \ {id}, id)
    BY <2>4, <2>5, <1>0, <1>3, RangeAdded
  <2>7. AddedTo(r, result) = added
    BY <2>3, <2>5, <1>6, <1>8 DEF AddedTo
  <2>8. (Ids \ {id}) \cup {id} = Ids
    BY <1>0
  <2>9. AddedTo(r, result).error = "" /\ AddedTo(r, result).ranges = RangesOf(now, Ids)
    BY <2>6, <2>7, <2>8 DEF Added
  <2>10. r.type = "REALLOC" => KeptIn(result.mem, result.bp, r)
    <3> SUFFICES ASSUME r.type = "REALLOC" PROVE KeptIn(result.mem, result.bp, r)
      OBVIOUS
    <3>1. live[id] # Nothing
      BY DEF Allowed
    <3> QED
      BY <3>1, <1>0, <1>1, IsPreserved
  <2> QED
    BY <2>9, <2>10, <1>2 DEF FoundRight
<1> QED
  BY <1>7, <1>8

(* What Check does, when it finds an error and when it does not.           *)
Accused(r, result) == Failed(r, result) \/ (r.type = "REALLOC" /\ ~Preserved(r, result))
ChecksBad(r, result) ==
    /\ mem' = Erased(result.mem, result.brk, Has(r, result)) /\ mem_brk' = result.brk
    /\ live' = Has(r, result) /\ phase' = "next" /\ op' = op
    /\ \A range \in ranges' : range.lo \in 0 .. MAX_HEAP /\ range.hi \in 0 .. MAX_HEAP
    /\ error' = IF Failed(r, result) THEN "failed" ELSE "did not preserve"
    /\ ~Failed(r, result) => r.id \in HighIds /\ KeptIn(result.mem, result.bp, r)
ChecksGood(r, result) ==
    /\ mem' = Erased(IF r.type = "FREE" THEN result.mem
                     ELSE Fill(result.mem, r.id, result.bp, 0, r.size),
                     result.brk, Has(r, result))
    /\ mem_brk' = result.brk /\ live' = Has(r, result) /\ ranges' = RangesOf(Has(r, result), Ids)
    /\ error' = "" /\ phase' = phase /\ op' = op + 1

(* It does one or the other.                                               *)
LEMMA CheckIs ==
  ASSUME SizesFit, DriverInv, NEW r, Allowed(r), NEW result, Answered(r, result),
         Check(r, result)
  PROVE  /\ phase = "valid" /\ Len(trace) < MaxOps /\ repetition' = repetition
         /\ trace' = Append(trace, [request |-> r, bp |-> result.bp])
         /\ Accused(r, result) => ChecksBad(r, result)
         /\ ~Accused(r, result) => ChecksGood(r, result)
<1>1. /\ phase = "valid" /\ Len(trace) < MaxOps /\ repetition' = repetition
      /\ trace' = Append(trace, [request |-> r, bp |-> result.bp])
  BY DEF Check
<1>2. PICK preserved \in BOOLEAN : preserved = Preserved(r, result)
  BY DEF Preserved
<1>3. PICK others : others = Others(r, result)
  OBVIOUS
<1>4. PICK added : added = AddedTo(r, result)
  OBVIOUS
<1>5. PICK message :
         message = IF Failed(r, result) THEN "failed"
                   ELSE IF added.error # "" THEN added.error
                   ELSE IF r.type = "REALLOC" /\ ~preserved THEN "did not preserve"
                   ELSE ""
  OBVIOUS
<1>6. /\ Leaves(IF message = "" /\ r.type # "FREE"
                THEN Fill(result.mem, r.id, result.bp, 0, r.size) ELSE result.mem,
                result.brk, Has(r, result))
      /\ ranges' = (IF Failed(r, result) THEN others ELSE added.ranges)
      /\ error' = message
      /\ IF message = "" THEN op' = op + 1 /\ UNCHANGED <<phase, errors>>
         ELSE phase' = "next" /\ errors' = errors + 1 /\ UNCHANGED op
  BY <1>2, <1>3, <1>4, <1>5 DEF Check, Others, AddedTo
<1>7. CASE Failed(r, result)
  <2>1. message = "failed" /\ message # ""
    BY <1>5, <1>7
  <2>2. \A range \in others : range.lo \in 0 .. MAX_HEAP /\ range.hi \in 0 .. MAX_HEAP
    BY <1>3, <1>7 DEF Others, DriverInv
  <2>3. /\ Leaves(result.mem, result.brk, Has(r, result)) /\ ranges' = others
        /\ error' = "failed" /\ phase' = "next" /\ op' = op
    BY <2>1, <1>6, <1>7
  <2>4. ChecksBad(r, result)
    BY <2>2, <2>3, <1>7 DEF ChecksBad, Leaves
  <2> QED
    BY <2>4, <1>1, <1>7 DEF Accused
<1>8. CASE ~Failed(r, result)
  <2>1. FoundRight(r, result)
    BY <1>1, <1>8, NothingWrong
  <2>2. added.error = "" /\ added.ranges = RangesOf(Has(r, result), Ids)
        /\ (r.type = "REALLOC" => KeptIn(result.mem, result.bp, r))
    BY <2>1, <1>4 DEF FoundRight
  <2>3. ranges' = RangesOf(Has(r, result), Ids)
    BY <2>2, <1>6, <1>8
  <2>4. CASE r.type = "REALLOC" /\ ~preserved
    <3>1. message = "did not preserve" /\ message # ""
      BY <2>2, <2>4, <1>5, <1>8
    <3>2. /\ Leaves(result.mem, result.brk, Has(r, result))
          /\ error' = "did not preserve" /\ phase' = "next" /\ op' = op
      BY <3>1, <1>6
    <3>3. \A range \in ranges' : range.lo \in 0 .. MAX_HEAP /\ range.hi \in 0 .. MAX_HEAP
      <4>1. HeapHolds(result.mem, result.brk, Has(r, result))
        BY DEF Answered
      <4> QED
        BY <4>1, <2>3, RangesInHeap
    <3>4. r.id \in HighIds
      BY <2>2, <2>4, <1>2 DEF Preserved, KeptIn, WSIZE
    <3>5. ChecksBad(r, result)
      BY <3>2, <3>3, <3>4, <2>2, <2>4, <1>8 DEF ChecksBad, Leaves
    <3> QED
      BY <3>5, <2>4, <1>1, <1>2 DEF Accused
  <2>5. CASE ~(r.type = "REALLOC" /\ ~preserved)
    <3>1. message = ""
      BY <2>2, <2>5, <1>5, <1>8
    <3>2. /\ Leaves(IF r.type # "FREE" THEN Fill(result.mem, r.id, result.bp, 0, r.size)
                    ELSE result.mem, result.brk, Has(r, result))
          /\ error' = "" /\ phase' = phase /\ op' = op + 1
      BY <3>1, <1>6
    <3>3. ChecksGood(r, result)
      BY <3>2, <2>3 DEF ChecksGood, Leaves
    <3> QED
      BY <3>3, <2>5, <1>1, <1>2, <1>8 DEF Accused
  <2> QED
    BY <2>4, <2>5
<1> QED
  BY <1>7, <1>8

(* What is held after a call, in which one more id has a block or none.    *)
LEMMA HeldAfter ==
  ASSUME NEW held \in [Ids -> [bp : Nat, size : Nat]], NEW id \in Ids, NEW new,
         NEW now, now = [held EXCEPT ![id] = new]
  PROVE  {i \in Ids : now[i] # Nothing} =
            IF new = Nothing THEN {i \in Ids : held[i] # Nothing} \ {id}
            ELSE {i \in Ids : held[i] # Nothing} \cup {id}
BY DEF Nothing

(* The same for a call that was answered.                                  *)
LEMMA HasHeld ==
  ASSUME NEW r, Allowed(r), NEW result, Answered(r, result), ~Failed(r, result),
         live \in [Ids -> [bp : Nat, size : Nat]]
  PROVE  {i \in Ids : Has(r, result)[i] # Nothing}
            = IF r.type = "FREE" THEN Held \ {r.id} ELSE Held \cup {r.id}
<1>1. PICK now : now = Has(r, result)
  OBVIOUS
<1>2. PICK new : new = IF r.type = "FREE" THEN Nothing ELSE [bp |-> result.bp, size |-> r.size]
  OBVIOUS
<1>3. now = [live EXCEPT ![r.id] = new] /\ r.id \in Ids
  BY <1>1, <1>2 DEF Answered, Holding, Allowed
<1>4. new = Nothing <=> r.type = "FREE"
  <2>1. ASSUME r.type # "FREE" PROVE new # Nothing
    <3>1. result.bp # NULL
      BY <2>1 DEF Failed
    <3>2. new.bp = result.bp
      BY <2>1, <1>2
    <3> QED
      BY <3>1, <3>2 DEF Nothing
  <2> QED
    BY <2>1, <1>2
<1>5. {i \in Ids : now[i] # Nothing} =
         IF new = Nothing THEN {i \in Ids : live[i] # Nothing} \ {r.id}
         ELSE {i \in Ids : live[i] # Nothing} \cup {r.id}
  BY <1>3, HeldAfter
<1> QED
  BY <1>1, <1>4, <1>5 DEF Held

(* After a good check the data is there.                                   *)
LEMMA GoodIsFilled ==
  ASSUME SizesFit, DriverInv, phase = "valid", NEW r, Allowed(r),
         NEW result, Answered(r, result), ~Failed(r, result), ChecksGood(r, result)
  PROVE  HeapHolds(mem', mem_brk', live') /\ Filled(mem', live')
<1> DEFINE id == r.id
<1>0. /\ HeapHolds(mem, mem_brk, live) /\ Filled(mem, live)
      /\ id \in Ids /\ live \in [Ids -> [bp : Nat, size : Nat]]
  BY DEF DriverInv, Allowed, HeapHolds, LiveIn
<1>1. PICK now : now = Has(r, result)
  OBVIOUS
<1>2. PICK brk : brk = result.brk
  OBVIOUS
<1>3. HeapHolds(result.mem, brk, now) /\ SameData(mem, result.mem, live, id)
  BY <1>1, <1>2 DEF Answered
<1>4. \A i \in Ids \ {id} : now[i] = live[i]
  BY <1>0, <1>1 DEF Answered, Holding
<1>5. \A i \in Ids \ {id} : now[i] # Nothing => FilledAt(result.mem, i, now[i])
  BY <1>0, <1>3, <1>4, OthersFilled
<1>6. CASE r.type = "FREE"
  <2>1. now[id] = Nothing
    BY <1>0, <1>1, <1>6 DEF Answered
  <2>2. Filled(result.mem, now)
    BY <2>1, <1>5 DEF Filled
  <2>3. mem' = Erased(result.mem, brk, now) /\ mem_brk' = brk /\ live' = now
    BY <1>1, <1>2, <1>6 DEF ChecksGood
  <2>4. HeapHolds(mem', brk, now) /\ Filled(mem', now)
    BY <2>2, <2>3, <1>3, FilledStill
  <2> QED
    BY <2>3, <2>4
<1>7. CASE r.type # "FREE"
  <2>1. now = Holding(live, id, result.bp, r.size)
    BY <1>1, <1>7 DEF Answered
  <2>2. now[id] = [bp |-> result.bp, size |-> r.size]
    BY <2>1, <1>0 DEF Holding
  <2>3. now[id].bp = result.bp /\ now[id].size = r.size
    BY <2>2
  <2>4. now[id] # Nothing
    <3>1. result.bp # NULL
      BY <1>7 DEF Failed
    <3> QED
      BY <2>3, <3>1 DEF Nothing
  <2>5. PICK f : f = Fill(result.mem, id, now[id].bp, 0, now[id].size)
    OBVIOUS
  <2>6. mem' = Erased(f, brk, now) /\ mem_brk' = brk /\ live' = now
    BY <2>3, <2>5, <1>1, <1>2, <1>7 DEF ChecksGood
  <2>7. \A k \in 0 .. Words(now[id].size) - 1 :
           k < 0 => result.mem[now[id].bp + 4 * k] = Data(id, k)
    <3>1. now[id].size \in Nat
      BY <1>0, <1>3, HoldingIs
    <3>2. \A k \in 0 .. Words(now[id].size) - 1 : ~(k < 0)
      BY <3>1, WordsAre
    <3> QED
      BY <3>2
  <2>8. HeapHolds(mem', brk, now) /\ Filled(mem', now)
    <3>1. 0 \in Nat
      OBVIOUS
    <3> QED
      BY <3>1, <2>4, <2>5, <2>6, <2>7, <1>0, <1>3, <1>5, FilledIn
  <2> QED
    BY <2>6, <2>8
<1> QED
  BY <1>6, <1>7
-----------------------------------------------------------------------------
(* 18. The invariant in every step.                                        *)

(* A trace grows by a request that was made.                               *)
Grew(tr2, r, bp) ==
    /\ tr2 \in Seq(Entry) /\ Len(tr2) = Len(trace) + 1
    /\ tr2[Len(tr2)] = [request |-> r, bp |-> bp]
    /\ \A n \in 1 .. Len(tr2) : Legal(tr2, n)
    /\ HeldIn(tr2, Len(tr2)) = IF r.type = "FREE" THEN Held \ {r.id} ELSE Held \cup {r.id}

(* The driver adds the request to the trace.                               *)
LEMMA TraceGrows ==
  ASSUME DriverInv, phase = "valid", NEW r \in Requests, Allowed(r), NEW bp \in Nat,
         NEW tr2, tr2 = Append(trace, [request |-> r, bp |-> bp])
  PROVE  Grew(tr2, r, bp)
<1>0. /\ trace \in Seq(Entry) /\ op = Len(trace) /\ Held = HeldIn(trace, op) /\ Len(trace) \in Nat
      /\ \A n \in 1 .. Len(trace) : Legal(trace, n)
  BY DEF DriverInv
<1>1. PICK e \in Entry : e = [request |-> r, bp |-> bp]
  BY RequestAllowed DEF Entry
<1>2. e.request = r /\ tr2 = Append(trace, e)
  BY <1>1
<1>3. /\ tr2[Len(trace) + 1] = e
      /\ \A i \in 1 .. Len(trace) : tr2[i] = trace[i]
  BY <1>0, <1>2
<1>4. HeldIn(tr2, Len(trace)) = Held
  BY <1>0, <1>3, HeldAlike
<1>5. Legal(tr2, Len(trace) + 1)
  <2>1. tr2[Len(trace) + 1].request = r /\ HeldIn(tr2, (Len(trace) + 1) - 1) = Held
    <3>1. (Len(trace) + 1) - 1 = Len(trace)
      BY <1>0
    <3> QED
      BY <3>1, <1>2, <1>3, <1>4
  <2>2. /\ r.type = "ALLOC" => r.id \notin Held /\ r.size \in Sizes
        /\ r.type = "REALLOC" => r.id \in Held /\ r.size \in Sizes
        /\ r.type = "FREE" => r.id \in Held
    BY DEF Allowed, Held
  <2> QED
    BY <2>1, <2>2 DEF Legal
<1>6. /\ tr2 \in Seq(Entry) /\ Len(tr2) = Len(trace) + 1 /\ tr2[Len(tr2)] = e
      /\ \A n \in 1 .. Len(tr2) : Legal(tr2, n)
  BY <1>0, <1>2, <1>5, LegalLonger
<1>7. HeldIn(tr2, Len(trace) + 1) = IF r.type = "FREE" THEN Held \ {r.id} ELSE Held \cup {r.id}
  <2>1. PICK id \in Ids : id = r.id
    BY DEF Allowed
  <2>2. PICK n \in Nat : n = Len(trace)
    BY <1>0
  <2>3. PICK next : next = n + 1
    OBVIOUS
  <2>4. tr2[next].request = r /\ tr2[next].request.id = id
    BY <2>1, <2>2, <2>3, <1>2, <1>3
  <2>5. HeldOneMore(tr2, n, next, id)
    BY <2>3, <2>4, HeldNext
  <2> QED
    BY <2>1, <2>2, <2>3, <2>4, <2>5, <1>4 DEF HeldOneMore
<1> QED
  BY <1>1, <1>6, <1>7 DEF Grew

(* A request that is checked.                                              *)
LEMMA CheckRight ==
  ASSUME SizesFit, DriverInv, NEW r \in Requests, CheckRequest(r)
  PROVE  DriverInv'
<1>0. /\ HeapHolds(mem, mem_brk, live) /\ Allowed(r)
      /\ live \in [Ids -> [bp : Nat, size : Nat]] /\ MaxOps \in Nat
      /\ trace \in Seq(Entry) /\ Len(trace) \in Nat /\ op \in 0 .. Len(trace)
      /\ repetition \in 0 .. Repetitions
      /\ \A range \in ranges : range.lo \in 0 .. MAX_HEAP /\ range.hi \in 0 .. MAX_HEAP
  BY RequestAllowed, DriverAssumption DEF DriverInv, HeapHolds, LiveIn
<1>1. PICK result : result = Called(r)
  OBVIOUS
<1>2. Answered(r, result) /\ Check(r, result)
  BY <1>0, <1>1, Answers DEF CheckRequest
<1>3. /\ phase = "valid" /\ Len(trace) < MaxOps /\ repetition' = repetition
      /\ trace' = Append(trace, [request |-> r, bp |-> result.bp])
      /\ Accused(r, result) => ChecksBad(r, result)
      /\ ~Accused(r, result) => ChecksGood(r, result)
  BY <1>0, <1>2, CheckIs
<1>4. result.bp \in Nat /\ HeapHolds(result.mem, result.brk, Has(r, result))
  BY <1>2 DEF Answered
<1>5. /\ trace' \in Seq(Entry) /\ Len(trace') = Len(trace) + 1
      /\ \A n \in 1 .. Len(trace') : Legal(trace', n)
      /\ HeldIn(trace', Len(trace'))
            = IF r.type = "FREE" THEN Held \ {r.id} ELSE Held \cup {r.id}
  <2>1. PICK tr2 : tr2 = trace'
    OBVIOUS
  <2>2. PICK bp \in Nat : bp = result.bp
    BY <1>4
  <2>3. Grew(tr2, r, bp)
    BY <2>1, <2>2, <1>0, <1>3, TraceGrows
  <2> QED
    BY <2>1, <2>3 DEF Grew
<1>6. Len(trace') <= MaxOps
  BY <1>0, <1>3, <1>5
<1>7. CASE Accused(r, result)
  <2>1. ChecksBad(r, result)
    BY <1>3, <1>7
  <2>2. HeapHolds(mem', mem_brk', live')
    BY <2>1, <1>4, LeaveData DEF ChecksBad
  <2>3. phase' = "next" /\ op' = op
        /\ \A range \in ranges' : range.lo \in 0 .. MAX_HEAP /\ range.hi \in 0 .. MAX_HEAP
    BY <2>1 DEF ChecksBad
  <2>4. op' \in 0 .. Len(trace')
    BY <2>3, <1>0, <1>5
  <2> QED
    BY <2>2, <2>3, <2>4, <1>0, <1>3, <1>5, <1>6 DEF DriverInv, Phases
<1>8. CASE ~Accused(r, result)
  <2>1. ChecksGood(r, result)
    BY <1>3, <1>8
  <2>2. HeapHolds(mem', mem_brk', live') /\ Filled(mem', live')
    BY <2>1, <1>0, <1>2, <1>3, <1>8, GoodIsFilled DEF Accused
  <2>3. /\ phase' = "valid" /\ op' = op + 1 /\ live' = Has(r, result)
        /\ ranges' = RangesOf(live', Ids)
    BY <2>1, <1>3 DEF ChecksGood
  <2>4. op' = Len(trace') /\ op' \in 0 .. Len(trace')
    <3>1. op = Len(trace)
      BY <1>3 DEF DriverInv
    <3> QED
      BY <3>1, <2>3, <1>0, <1>5
  <2>5. \A range \in ranges' : range.lo \in 0 .. MAX_HEAP /\ range.hi \in 0 .. MAX_HEAP
    BY <2>2, <2>3, RangesInHeap
  <2>6. Held' = HeldIn(trace', op')
    <3>1. Held' = {i \in Ids : Has(r, result)[i] # Nothing}
      BY <2>3 DEF Held, Ids, Nothing, NULL
    <3> QED
      BY <3>1, <2>4, <1>0, <1>2, <1>5, <1>8, HasHeld DEF Accused
  <2>7. RangesOf(live, Ids)' = RangesOf(live', Ids) /\ Filled(mem, live)' /\ HeapHolds(mem, mem_brk, live)'
        /\ (HeldIn(trace, op))' = HeldIn(trace', op')
        /\ \A n \in 1 .. Len(trace') : Legal(trace, n)'
    BY <2>2, <1>5 DEF RangesOf, Filled, HeapHolds, HeldIn, Legal
  <2> QED
    BY <2>2, <2>3, <2>4, <2>5, <2>6, <1>0, <1>3, <1>5, <1>6 DEF DriverInv, Phases
<1> QED
  BY <1>7, <1>8

(* The next request of a trace may be made.                                *)
LEMMA NextAllowed ==
  ASSUME DriverInv, phase \in {"util", "speed"}, op < Len(trace),
         NEW r, r = trace[op + 1].request
  PROVE  Allowed(r)
<1>0. /\ trace \in Seq(Entry) /\ Len(trace) \in Nat /\ op \in Nat /\ Held = HeldIn(trace, op)
      /\ \A n \in 1 .. Len(trace) : Legal(trace, n)
  BY DEF DriverInv
<1>1. op + 1 \in 1 .. Len(trace) /\ (op + 1) - 1 = op
  BY <1>0
<1>2. trace[op + 1] \in Entry /\ Legal(trace, op + 1)
  BY <1>0, <1>1
<1>3. r \in [type : {"ALLOC", "REALLOC", "FREE"}, id : Ids, size : Sizes \cup {0}]
  BY <1>2 DEF Entry
<1>4. /\ r.type = "ALLOC" => r.id \notin Held /\ r.size \in Sizes
      /\ r.type = "REALLOC" => r.id \in Held /\ r.size \in Sizes
      /\ r.type = "FREE" => r.id \in Held
  <2>1. HeldIn(trace, (op + 1) - 1) = Held
    BY <1>0, <1>1
  <2> QED
    BY <2>1, <1>2 DEF Legal
<1> QED
  BY <1>3, <1>4 DEF Allowed, Held

(* A request that is played again.                                         *)
LEMMA PlayRight ==
  ASSUME SizesFit, DriverInv, phase \in {"util", "speed"},
         NEW r, r = trace[op + 1].request, Play(r)
  PROVE  DriverInv'
<1>0. /\ HeapHolds(mem, mem_brk, live) /\ live \in [Ids -> [bp : Nat, size : Nat]]
      /\ trace \in Seq(Entry) /\ Len(trace) \in Nat /\ op \in Nat
  BY DEF DriverInv, HeapHolds, LiveIn
<1>1. PICK result : result = Called(r)
  OBVIOUS
<1>2. Played(r, result)
  BY <1>1 DEF Play
<1>3. /\ op < Len(trace) /\ op' = op + 1
      /\ mem' = Erased(result.mem, result.brk, Has(r, result)) /\ mem_brk' = result.brk
      /\ live' = Has(r, result)
      /\ phase' = (IF Failed(r, result) THEN "aborted" ELSE phase)
      /\ trace' = trace /\ ranges' = ranges /\ repetition' = repetition
  BY <1>2 DEF Played, Leaves
<1>4. Allowed(r)
  BY <1>3, NextAllowed
<1>5. Answered(r, result)
  BY <1>0, <1>1, <1>4, Answers
<1>6. HeapHolds(mem', mem_brk', live')
  <2>1. PICK m : m = result.mem
    OBVIOUS
  <2>2. PICK brk : brk = result.brk
    OBVIOUS
  <2>3. PICK now : now = Has(r, result)
    OBVIOUS
  <2>4. HeapHolds(m, brk, now)
    BY <2>1, <2>2, <2>3, <1>5 DEF Answered
  <2> QED
    BY <2>1, <2>2, <2>3, <2>4, <1>3, LeaveData
<1>7. op' \in 0 .. Len(trace')
  BY <1>0, <1>3
<1>8. CASE Failed(r, result)
  <2>1. phase' = "aborted"
    BY <1>3, <1>8
  <2> QED
    BY <2>1, <1>3, <1>6, <1>7 DEF DriverInv, Phases
<1>9. CASE ~Failed(r, result)
  <2>1. phase' = phase
    BY <1>3, <1>9
  <2>2. Held' = HeldIn(trace, op + 1)
    <3>1. Held' = {i \in Ids : Has(r, result)[i] # Nothing}
      BY <1>3 DEF Held, Ids, Nothing, NULL
    <3>2. Held' = IF r.type = "FREE" THEN Held \ {r.id} ELSE Held \cup {r.id}
      BY <3>1, <1>0, <1>4, <1>5, <1>9, HasHeld
    <3>3. PICK next : next = op + 1
      OBVIOUS
    <3>4. PICK id \in Ids : id = r.id
      BY <1>4 DEF Allowed
    <3>5. trace[next].request = r /\ trace[next].request.id = id
      BY <3>3, <3>4
    <3>6. HeldOneMore(trace, op, next, id)
      BY <3>3, <3>5, <1>0, HeldNext
    <3>7. HeldIn(trace, op) = Held
      BY DEF DriverInv
    <3> QED
      BY <3>2, <3>3, <3>4, <3>5, <3>6, <3>7 DEF HeldOneMore
  <2>3. HeldIn(trace, op)' = HeldIn(trace, op + 1)
    BY <1>3 DEF HeldIn
  <2>4. Legal(trace, 0)' = Legal(trace, 0) /\ \A n \in 1 .. Len(trace) : Legal(trace, n)'
    <3>1. \A n \in 1 .. Len(trace) : Legal(trace, n)
      BY DEF DriverInv
    <3> QED
      BY <3>1, <1>3
  <2> QED
    BY <2>1, <2>2, <2>3, <2>4, <1>3, <1>6, <1>7 DEF DriverInv, Phases
<1> QED
  BY <1>8, <1>9
-----------------------------------------------------------------------------
(* The initial states, and every step.                                     *)
LEMMA DriverStarts == DriverInit => DriverInv
<1> SUFFICES ASSUME DriverInit PROVE DriverInv
  OBVIOUS
<1>1. HeapHolds(mem, mem_brk, live) /\ live = None
  BY InitHolds DEF DriverInit
<1>2. Filled(mem, live)
  BY <1>1 DEF Filled, None
<1>3. /\ phase \in {"caller", "next"} /\ trace = <<>> /\ op = 0 /\ ranges = {}
      /\ repetition = 0
  BY DEF DriverInit
<1>4. trace \in Seq(Entry) /\ Len(trace) = 0
  BY <1>3
<1>5. MaxOps \in Nat /\ Repetitions \in Nat
  BY DriverAssumption
<1> QED
  BY <1>1, <1>2, <1>3, <1>4, <1>5 DEF DriverInv, Phases

(* A new play holds nothing.                                               *)
LEMMA RestartNone ==
  ASSUME DriverInv, Restart
  PROVE  HeapHolds(mem', mem_brk', live') /\ Held' = {} /\ Filled(mem', live')
         /\ RangesOf(live', Ids) = {}
<1>1. HeapHolds(mem', mem_brk', live') /\ live' = None
  BY RestartHolds DEF DriverInv
<1>2. \A id \in Ids : live'[id] = Nothing
  BY <1>1 DEF None
<1>3. Held' = {}
  <2>1. Held' = {id \in Ids : live'[id] # Nothing}
    BY DEF Held, Ids, Nothing, NULL
  <2> QED
    BY <2>1, <1>2
<1> QED
  BY <1>1, <1>2, <1>3 DEF Filled, RangesOf

(* Every step of the driver, and of any other caller.                      *)
LEMMA DriverSteps ==
  ASSUME SizesFit, DriverInv, DriverNext
  PROVE  DriverInv'
<1>0. /\ MaxOps \in Nat /\ Repetitions \in Nat /\ trace \in Seq(Entry) /\ Len(trace) \in Nat
      /\ Len(trace) <= MaxOps /\ repetition \in 0 .. Repetitions /\ op \in 0 .. Len(trace)
  BY DriverAssumption DEF DriverInv
<1>1. CASE Caller
  <2>1. phase = "caller" /\ Next /\ UNCHANGED driverVars
    BY <1>1 DEF Caller
  <2>2. Right(mem, mem_brk, live)
    BY <2>1 DEF Right, DriverInv
  <2>3. HeapHolds(mem', mem_brk', live') /\ Filled(mem', live')
    BY <2>1, <2>2, CallerRight DEF Right
  <2> QED
    BY <2>1, <2>3 DEF DriverInv, driverVars, Phases
<1>2. CASE NextTrace
  <2>1. /\ Restart /\ phase' = "valid" /\ ranges' = {} /\ trace' = <<>> /\ op' = 0
        /\ repetition' = 0
    BY <1>2 DEF NextTrace
  <2>2. HeapHolds(mem', mem_brk', live') /\ Held' = {} /\ Filled(mem', live')
        /\ RangesOf(live', Ids) = {}
    BY <2>1, RestartNone
  <2>3. HeldIn(trace, op)' = {}
    <3>1. HeldIn(trace, op)' = HeldIn(trace', op')
      BY DEF HeldIn
    <3> QED
      BY <3>1, <2>1, HeldAtFirst
  <2>4. trace' \in Seq(Entry) /\ Len(trace') = 0
    BY <2>1
  <2> QED
    BY <2>1, <2>2, <2>3, <2>4, <1>0 DEF DriverInv, Phases
<1>3. CASE EndValid
  <2>1. /\ phase = "valid" /\ Restart /\ phase' = "util" /\ op' = 0
        /\ trace' = trace /\ ranges' = ranges /\ repetition' = repetition
    BY <1>3 DEF EndValid
  <2>2. HeapHolds(mem', mem_brk', live') /\ Held' = {}
    BY <2>1, RestartNone
  <2>3. HeldIn(trace, op)' = {}
    <3>1. HeldIn(trace, op)' = HeldIn(trace', op')
      BY DEF HeldIn
    <3> QED
      BY <3>1, <2>1, HeldAtFirst
  <2>4. \A n \in 1 .. Len(trace) : Legal(trace, n)'
    <3>1. \A n \in 1 .. Len(trace) : Legal(trace, n)
      BY <2>1 DEF DriverInv
    <3> QED
      BY <3>1, <2>1
  <2>5. op' \in 0 .. Len(trace')
    BY <2>1, <1>0
  <2> QED
    BY <2>1, <2>2, <2>3, <2>4, <2>5 DEF DriverInv, Phases
<1>4. CASE eval_mm_util
  <2>1. phase = "util" /\ Play(trace[op + 1].request)
    BY <1>4 DEF eval_mm_util
  <2> QED
    BY <2>1, PlayRight
<1>5. CASE eval_mm_speed
  <2>1. phase = "speed" /\ Play(trace[op + 1].request)
    BY <1>5 DEF eval_mm_speed
  <2> QED
    BY <2>1, PlayRight
<1>6. CASE EndReplay
  <2>1. /\ phase \in {"util", "speed"} /\ op' = 0 /\ trace' = trace /\ ranges' = ranges
        /\ op' \in 0 .. Len(trace')
    BY <1>0, <1>6 DEF EndReplay
  <2>2. CASE repetition < Repetitions
    <3>1. Restart /\ phase' = "speed" /\ repetition' = repetition + 1
      BY <1>6, <2>2 DEF EndReplay
    <3>2. HeapHolds(mem', mem_brk', live') /\ Held' = {}
      BY <3>1, RestartNone
    <3>3. HeldIn(trace, op)' = {}
      <4>1. HeldIn(trace, op)' = HeldIn(trace', op')
        BY DEF HeldIn
      <4> QED
        BY <4>1, <2>1, HeldAtFirst
    <3>4. \A n \in 1 .. Len(trace) : Legal(trace, n)'
      <4>1. \A n \in 1 .. Len(trace) : Legal(trace, n)
        BY <2>1 DEF DriverInv
      <4> QED
        BY <4>1, <2>1
    <3>5. repetition' \in 0 .. Repetitions
      BY <3>1, <2>2, <1>0
    <3> QED
      BY <2>1, <3>1, <3>2, <3>3, <3>4, <3>5 DEF DriverInv, Phases
  <2>3. CASE ~(repetition < Repetitions)
    <3>1. phase' = "next" /\ UNCHANGED <<mem, mem_brk, live, repetition>>
      BY <1>6, <2>3 DEF EndReplay
    <3> QED
      BY <2>1, <3>1 DEF DriverInv, Phases
  <2> QED
    BY <2>2, <2>3
<1>7. CASE Finish
  <2>1. /\ phase' = "done" /\ UNCHANGED <<mem, mem_brk, live, trace, op, ranges, repetition>>
    BY <1>7 DEF Finish, vars
  <2> QED
    BY <2>1 DEF DriverInv, Phases
<1>8. CASE \E r \in Requests : CheckRequest(r)
  BY <1>8, CheckRight
<1> QED
  BY <1>1, <1>2, <1>3, <1>4, <1>5, <1>6, <1>7, <1>8 DEF DriverNext

(* The invariant of the driver. *)
LEMMA DriverAlways == SizesFit /\ DriverSpec => []DriverInv
<1>1. SizesFit /\ DriverInv /\ [DriverNext]_driverAll => DriverInv'
  <2> SUFFICES ASSUME SizesFit, DriverInv, [DriverNext]_driverAll PROVE DriverInv'
    OBVIOUS
  <2>1. CASE DriverNext
    BY <2>1, DriverSteps
  <2>2. CASE UNCHANGED driverAll
    <3>1. UNCHANGED <<mem, mem_brk, live, phase, trace, op, ranges, repetition>>
      BY <2>2 DEF driverAll, vars, driverVars
    <3>2. HeldIn(trace, op)' = HeldIn(trace, op) /\ Held' = Held
      BY <3>1 DEF HeldIn, Held
    <3>3. HeapHolds(mem, mem_brk, live)' = HeapHolds(mem, mem_brk, live)
          /\ Filled(mem, live)' = Filled(mem, live) /\ RangesOf(live, Ids)' = RangesOf(live, Ids)
      BY <3>1
    <3>4. \A n : Legal(trace, n)' = Legal(trace, n)
      BY <3>1
    <3> QED
      BY <3>1, <3>2, <3>3, <3>4 DEF DriverInv
  <2> QED
    BY <2>1, <2>2
<1>2. SizesFit => []SizesFit
  <2>1. SizesFit => SizesFit'
    BY DEF SizesFit, Fitting
  <2> QED
    BY <2>1, PTL
<1>3. DriverInit => DriverInv
  BY DriverStarts
<1> QED
  BY <1>1, <1>2, <1>3, PTL DEF DriverSpec
-----------------------------------------------------------------------------
(* 19. The best fit, and what the driver reports.                          *)

(* What a caller finds after an action that gives id a block of a size.    *)
GivenBest(id, bp, size) ==
    LET F == {c \in FreeBlocks : Size(mem, c) >= ADJUST(size)}
    IN  IF F = {} THEN mem_brk' > mem_brk
        ELSE mem_brk' = mem_brk /\ bp \in F /\ \A c \in F : Size(mem, bp) <= Size(mem, c)
Chosen(id) ==
    live[id] = Nothing /\ live'[id] # Nothing => GivenBest(id, live'[id].bp, live'[id].size)

(* The block that Best tells of is the one BestFit asks for.               *)
LEMMA BestIsBest ==
  ASSUME HeapHolds(mem, mem_brk, live), NEW result, NEW size, NEW id,
         Best(mem, result, mem_brk, size), mem_brk' = result.brk
  PROVE  GivenBest(id, result.bp, size)
<1>1. {c \in FreeBlocks : Size(mem, c) >= ADJUST(size)} = Fits(mem, mem_brk, size)
  BY FreeAre DEF HeapHolds, Fits, FreeOf
<1> QED
  BY <1>1 DEF GivenBest, Best

(* A block is given to an id that had none, and the others keep theirs.    *)
LEMMA HoldingChooses ==
  ASSUME HeapHolds(mem, mem_brk, live), NEW result, NEW id \in Ids, NEW size,
         live' = Holding(live, id, result.bp, size), mem_brk' = result.brk,
         live[id] = Nothing => Best(mem, result, mem_brk, size)
  PROVE  \A i \in Ids : Chosen(i)
<1>0. live \in [Ids -> [bp : Nat, size : Nat]]
  BY DEF HeapHolds, LiveIn
<1> SUFFICES ASSUME NEW i \in Ids, live[i] = Nothing, live'[i] # Nothing
             PROVE  GivenBest(i, live'[i].bp, live'[i].size)
  BY DEF Chosen
<1>1. PICK now : now = live'
  OBVIOUS
<1>2. now = [live EXCEPT ![id] = [bp |-> result.bp, size |-> size]]
  BY <1>1 DEF Holding
<1>3. i = id
  BY <1>0, <1>1, <1>2
<1>4. now[id] = [bp |-> result.bp, size |-> size]
  BY <1>0, <1>2
<1>5. now[id].bp = result.bp /\ now[id].size = size
  BY <1>4
<1>6. GivenBest(id, result.bp, size)
  BY <1>3, BestIsBest
<1> QED
  BY <1>1, <1>3, <1>5, <1>6

(* No id gets a block that had none.                                       *)
LEMMA NoneChosen ==
  ASSUME NEW id, live' = [live EXCEPT ![id] = Nothing],
         live \in [Ids -> [bp : Nat, size : Nat]]
  PROVE  \A i \in Ids : Chosen(i)
BY DEF Chosen

(* The choice of any caller.                                               *)
LEMMA CallerChooses ==
  ASSUME SizesFit, HeapHolds(mem, mem_brk, live), Next
  PROVE  \A id \in Ids : Chosen(id)
<1>0. live \in [Ids -> [bp : Nat, size : Nat]]
  BY DEF HeapHolds, LiveIn
<1>1. ASSUME NEW size \in Sizes, Malloc(size) PROVE \A i \in Ids : Chosen(i)
  <2>1. PICK id \in Ids : id = Min(Ids \ Held) /\ live[id] = Nothing
    BY <1>1, LeastFree DEF Malloc
  <2>2. PICK r : r = mm_malloc(mem, mem_brk, size)
    OBVIOUS
  <2>3. Becomes(r, id, 0, size)
    BY <1>1, <2>1, <2>2 DEF Malloc
  <2>4. Gave(mem, r, mem_brk, live, id, size)
    BY <2>1, <2>2, Gives
  <2>5. CASE r.bp = NULL
    <3>1. live' = live
      BY <2>3, <2>5 DEF Becomes, Leaves
    <3> QED
      BY <3>1 DEF Chosen
  <2>6. CASE r.bp # NULL
    <3>1. live' = Holding(live, id, r.bp, size) /\ mem_brk' = r.brk
      BY <2>3, <2>6 DEF Becomes, Leaves, Holding
    <3>2. Best(mem, r, mem_brk, size)
      BY <2>4, <2>6 DEF Gave
    <3> QED
      BY <3>1, <3>2, HoldingChooses
  <2> QED
    BY <2>5, <2>6
<1>2. ASSUME NEW id \in Ids, Free(id) PROVE \A i \in Ids : Chosen(i)
  <2>1. live' = [live EXCEPT ![id] = Nothing]
    BY <1>2 DEF Free, Leaves
  <2> QED
    BY <2>1, <1>0, NoneChosen
<1>3. ASSUME NEW id \in Ids, NEW size \in Sizes, Realloc(id, size)
      PROVE  \A i \in Ids : Chosen(i)
  <2>1. live[id] # Nothing
    BY <1>3 DEF Realloc, Held
  <2>2. PICK r : Becomes(r, id, Words(live[id].size), size)
    BY <1>3 DEF Realloc
  <2>3. live' = live \/ (live' = Holding(live, id, r.bp, size) /\ mem_brk' = r.brk)
    BY <2>2 DEF Becomes, Leaves, Holding
  <2>4. CASE live' = live
    BY <2>4 DEF Chosen
  <2>5. CASE live' = Holding(live, id, r.bp, size) /\ mem_brk' = r.brk
    BY <2>1, <2>5, HoldingChooses
  <2> QED
    BY <2>3, <2>4, <2>5
<1> QED
  BY <1>1, <1>2, <1>3 DEF Next

(* The choice in a request of the driver.                                  *)
LEMMA AnswerChooses ==
  ASSUME HeapHolds(mem, mem_brk, live), NEW r, Allowed(r), NEW result, Answered(r, result),
         live' = Has(r, result), mem_brk' = result.brk
  PROVE  \A id \in Ids : Chosen(id)
<1>0. live \in [Ids -> [bp : Nat, size : Nat]] /\ r.id \in Ids
  BY DEF HeapHolds, LiveIn, Allowed
<1>1. CASE Failed(r, result)
  <2>1. live' = live \/ live' = [live EXCEPT ![r.id] = Nothing]
    BY <1>1 DEF Failed, Has
  <2>2. CASE live' = live
    BY <2>2 DEF Chosen
  <2>3. CASE live' = [live EXCEPT ![r.id] = Nothing]
    BY <2>3, <1>0, NoneChosen
  <2> QED
    BY <2>1, <2>2, <2>3
<1>2. CASE ~Failed(r, result) /\ r.type = "FREE"
  <2>1. live' = [live EXCEPT ![r.id] = Nothing]
    BY <1>2 DEF Answered
  <2> QED
    BY <2>1, <1>0, NoneChosen
<1>3. CASE ~Failed(r, result) /\ r.type # "FREE"
  <2>1. live' = Holding(live, r.id, result.bp, r.size)
    BY <1>3 DEF Answered
  <2>2. live[r.id] = Nothing => Best(mem, result, mem_brk, r.size)
    BY <1>3 DEF Answered, Allowed
  <2> QED
    BY <2>1, <2>2, <1>0, HoldingChooses
<1> QED
  BY <1>1, <1>2, <1>3

(* The choice in every step.                                               *)
LEMMA DriverChooses ==
  ASSUME SizesFit, DriverInv, DriverNext
  PROVE  \A id \in Ids : Chosen(id)
<1>0. HeapHolds(mem, mem_brk, live)
  BY DEF DriverInv
<1>1. CASE Caller
  BY <1>0, <1>1, CallerChooses DEF Caller
<1>2. CASE Restart
  <2>1. live' = None
    BY <1>0, <1>2, RestartHolds
  <2> QED
    BY <2>1 DEF Chosen, None
<1>3. CASE live' = live
  BY <1>3 DEF Chosen
<1>4. ASSUME phase \in {"util", "speed"}, Play(trace[op + 1].request)
      PROVE  \A id \in Ids : Chosen(id)
  <2>1. PICK r : r = trace[op + 1].request
    OBVIOUS
  <2>2. PICK result : result = Called(r)
    OBVIOUS
  <2>3. op < Len(trace) /\ live' = Has(r, result) /\ mem_brk' = result.brk
    BY <1>4, <2>1, <2>2 DEF Play, Played, Leaves
  <2>4. Allowed(r)
    BY <1>4, <2>1, <2>3, NextAllowed
  <2>5. Answered(r, result)
    BY <1>0, <2>2, <2>4, Answers
  <2> QED
    BY <1>0, <2>3, <2>4, <2>5, AnswerChooses
<1>5. ASSUME NEW r \in Requests, CheckRequest(r) PROVE \A id \in Ids : Chosen(id)
  <2>1. Allowed(r)
    BY RequestAllowed
  <2>2. PICK result : result = Called(r)
    OBVIOUS
  <2>3. Answered(r, result) /\ Check(r, result)
    BY <1>0, <1>5, <2>1, <2>2, Answers DEF CheckRequest
  <2>4. live' = Has(r, result) /\ mem_brk' = result.brk
    <3>1. PICK held : held = Has(r, result)
      OBVIOUS
    <3>2. \E m : Leaves(m, result.brk, held)
      BY <2>3, <3>1 DEF Check
    <3> QED
      BY <3>1, <3>2 DEF Leaves
  <2> QED
    BY <1>0, <2>1, <2>3, <2>4, AnswerChooses
<1> QED
  BY <1>1, <1>2, <1>3, <1>4, <1>5 DEF DriverNext, NextTrace, EndValid, EndReplay, Finish, vars,
     eval_mm_util, eval_mm_speed

(* No block is free that is too small for none.                            *)
LEMMA NoneIsSmaller ==
  ASSUME HeapHolds(mem, mem_brk, live), NEW size \in Nat, Fitting(size),
         NoneFits(mem, mem_brk, size)
  PROVE  \A bp \in FreeBlocks : Size(mem, bp) < ADJUST(size)
<1>1. PICK a \in Nat : a = ADJUST(size)
  BY AdjustIs
<1>2. \A bp \in FreeBlocks : ~(Size(mem, bp) >= a)
  BY <1>1, FreeAre DEF HeapHolds, NoneFits, FreeOf
<1>3. \A bp \in FreeBlocks : Size(mem, bp) \in Int
  <2>1. Walls(mem, mem_brk, Heap(mem, mem_brk), 0, 0)
    BY DEF HeapHolds, Sound, HeapAt
  <2>2. \A b \in Heap(mem, mem_brk) : Size(mem, b) \in Int
    BY <2>1, BlockWords
  <2> QED
    BY <2>2, FreeAre DEF HeapHolds, FreeIn
<1>4. \A bp \in FreeBlocks : Size(mem, bp) < a
  BY <1>2, <1>3
<1> QED
  BY <1>1, <1>4

(* A block that is accused of data it has.                                 *)
LEMMA AccusedKept ==
  ASSUME NEW r, Allowed(r), NEW result, Answered(r, result), ChecksBad(r, result),
         Accused(r, result), ~Failed(r, result), live \in [Ids -> [bp : Nat, size : Nat]],
         r.size \in Nat
  PROVE  FalselyAccused(r)
<1>1. r.type = "REALLOC" /\ r.id \in Ids /\ error' = "did not preserve" /\ r.id \in HighIds
  BY DEF Accused, ChecksBad, Allowed
<1>2. PICK now : now = Has(r, result)
  OBVIOUS
<1>3. HeapHolds(result.mem, result.brk, now) /\ now = Holding(live, r.id, result.bp, r.size)
  BY <1>1, <1>2 DEF Answered
<1>4. now[r.id] = [bp |-> result.bp, size |-> r.size]
  BY <1>1, <1>3 DEF Holding
<1>5. now[r.id].bp = result.bp /\ now[r.id].size = r.size /\ now[r.id] # Nothing
  <2>1. result.bp # NULL
    BY <1>1 DEF Failed
  <2> QED
    BY <2>1, <1>4 DEF Nothing
<1>6. mem' = Erased(result.mem, result.brk, now) /\ live' = now
  BY <1>2 DEF ChecksBad
<1>7. SameWords(result.mem, mem', now[r.id])
  BY <1>1, <1>3, <1>5, <1>6, LeaveData
<1>8. PICK k1 \in Nat : k1 = oldsize(r)
  BY <1>1 DEF oldsize
<1>9. Words(k1) \in Nat /\ Words(r.size) \in Nat /\ Words(k1) <= Words(r.size)
  <2>1. live[r.id].size \in Nat
    BY <1>1
  <2>2. k1 <= r.size
    BY <2>1, <1>8 DEF oldsize
  <2> QED
    BY <2>2 DEF Words, WSIZE
<1>10. ASSUME NEW k \in 0 .. Words(k1) - 1
       PROVE  mem'[live'[r.id].bp + 4 * k] = Data(r.id, k)
  <2>1. result.mem[result.bp + 4 * k] = Data(r.id, k)
    BY <1>8 DEF ChecksBad, KeptIn
  <2>2. k \in 0 .. Words(r.size) - 1
    BY <1>9
  <2>3. mem'[result.bp + 4 * k] = result.mem[result.bp + 4 * k]
    BY <2>2, <1>5, <1>7 DEF SameWords
  <2> QED
    BY <2>1, <2>3, <1>5, <1>6
<1> QED
  BY <1>1, <1>8, <1>10 DEF FalselyAccused, WSIZE

Explained(r) == NoBlockToGive(r.size) \/ FalselyAccused(r)

(* The driver's error is explained.                                        *)
LEMMA AlarmIsTrue ==
  ASSUME SizesFit, DriverInv, NEW r \in Requests, CheckRequest(r), error' # ""
  PROVE  Explained(Last(trace').request)
<1>0. HeapHolds(mem, mem_brk, live) /\ Allowed(r) /\ trace \in Seq(Entry)
  BY RequestAllowed DEF DriverInv
<1>1. PICK result : result = Called(r)
  OBVIOUS
<1>2. Answered(r, result) /\ Check(r, result)
  BY <1>0, <1>1, Answers DEF CheckRequest
<1>3. /\ trace' = Append(trace, [request |-> r, bp |-> result.bp])
      /\ Accused(r, result) => ChecksBad(r, result)
      /\ ~Accused(r, result) => ChecksGood(r, result)
  BY <1>0, <1>2, CheckIs
<1>4. PICK tr2 : tr2 = trace'
  OBVIOUS
<1>5. Last(trace').request = r
  <2>1. PICK bp \in Nat : bp = result.bp
    BY <1>2 DEF Answered
  <2>2. Grew(tr2, r, bp)
    BY <2>1, <1>0, <1>2, <1>3, <1>4, TraceGrows DEF Check
  <2>3. PICK entry : entry = [request |-> r, bp |-> bp]
    OBVIOUS
  <2>4. Last(tr2) = entry
    BY <2>2, <2>3 DEF Grew, Last
  <2>5. entry.request = r
    BY <2>3
  <2> QED
    BY <2>4, <2>5, <1>4
<1>6. Accused(r, result) /\ ChecksBad(r, result)
  BY <1>3 DEF ChecksGood
<1>7. PICK size : size = r.size
  OBVIOUS
<1>8. size \in Nat /\ (size # 0 => Fitting(size))
  <2>1. size \in Sizes \cup {0}
    BY <1>0, <1>7 DEF Allowed
  <2>2. CASE size \in Sizes
    BY <2>2 DEF SizesFit, Fitting
  <2>3. CASE size = 0
    BY <2>3
  <2> QED
    BY <2>1, <2>2, <2>3
<1>9. CASE Failed(r, result)
  <2>1. size # 0 => NoneFits(mem, mem_brk, size)
    BY <1>2, <1>7, <1>9 DEF Answered
  <2>2. size # 0 => \A bp \in FreeBlocks : Size(mem, bp) < ADJUST(size)
    BY <2>1, <1>0, <1>8, NoneIsSmaller
  <2>3. error' = "failed"
    BY <1>6, <1>9 DEF ChecksBad
  <2>4. NoBlockToGive(size)
    BY <2>1, <2>2, <2>3 DEF NoBlockToGive, NoneFits
  <2> QED
    BY <2>4, <1>5, <1>7 DEF Explained
<1>10. CASE ~Failed(r, result)
  <2>1. live \in [Ids -> [bp : Nat, size : Nat]]
    BY <1>0 DEF HeapHolds, LiveIn
  <2>2. FalselyAccused(r)
    BY <2>1, <1>0, <1>2, <1>6, <1>7, <1>8, <1>10, AccusedKept
  <2> QED
    BY <2>2, <1>5 DEF Explained
<1> QED
  BY <1>9, <1>10

(* Only eval_mm_valid reports one.                                         *)
LEMMA AlarmsAreTrue ==
  ASSUME SizesFit, DriverInv, DriverNext, error' # "", error' # error
  PROVE  Explained(Last(trace').request)
<1>1. PICK r \in Requests : CheckRequest(r)
  BY DEF DriverNext, Caller, driverVars, NextTrace, EndValid, EndReplay, Finish,
     eval_mm_util, eval_mm_speed, Play, Played
<1> QED
  BY <1>1, AlarmIsTrue
-----------------------------------------------------------------------------
(* The heap is sound in every state, whoever calls the allocator and for   *)
(* every size of heap, chunk and request: its boundary tags agree, its     *)
(* class lists hold the free blocks in order of size, and the blocks that  *)
(* callers hold are those that are allocated (mm.c, mdriver.c).            *)
THEOREM MdriverHeapIsSound == SizesFit /\ DriverSpec => []HeapInv
<1>1. DriverInv => HeapInv
  BY DriverTyped
<1> QED
  BY <1>1, DriverAlways, PTL

(* What callers put into their blocks stays there, through every call for  *)
(* other blocks and every mm_realloc of their own (mm_realloc, place).     *)
THEOREM MdriverPayloadsKept == SizesFit /\ DriverSpec => []PayloadsKept
<1>1. DriverInv => PayloadsKept
  BY DriverTyped
<1> QED
  BY <1>1, DriverAlways, PTL

(* The ranges of the driver are the extents of the blocks that it holds    *)
(* (add_range, remove_range, eval_mm_valid).                               *)
THEOREM MdriverRangesAreLive == SizesFit /\ DriverSpec => []RangesAreLive
<1>1. DriverInv => RangesAreLive
  BY DriverTyped
<1> QED
  BY <1>1, DriverAlways, PTL

(* The hypothesis about the sizes speaks of constants only.                *)
LEMMA SizesFitAlways == SizesFit => []SizesFit
<1>1. SizesFit => SizesFit'
  BY DEF SizesFit, Fitting
<1> QED
  BY <1>1, PTL

(* mm_malloc takes a smallest free block that fits, over all classes, and  *)
(* the heap grows only when there is none (find_fit, mm_malloc).           *)
THEOREM MdriverBestFit == SizesFit /\ DriverSpec => BestFit
<1>1. SizesFit /\ DriverInv /\ [DriverNext]_driverAll
        => [\A id \in Ids :
              live[id] = Nothing /\ live'[id] # Nothing =>
                 LET Fits_1 == {bp \in FreeBlocks : Size(mem, bp) >= ADJUST(live'[id].size)}
                 IN  IF Fits_1 = {} THEN mem_brk' > mem_brk
                     ELSE /\ mem_brk' = mem_brk /\ live'[id].bp \in Fits_1
                          /\ \A bp \in Fits_1 : Size(mem, live'[id].bp) <= Size(mem, bp)]_vars
  <2> SUFFICES ASSUME SizesFit, DriverInv, [DriverNext]_driverAll
               PROVE  (\A id \in Ids : Chosen(id)) \/ UNCHANGED vars
    BY DEF Chosen, GivenBest
  <2> QED
    BY DriverChooses DEF driverAll
<1> QED
  BY <1>1, DriverAlways, SizesFitAlways, PTL DEF DriverSpec, BestFit

(* The driver reports of this allocator that it gives no block, which is   *)
(* true, for size 0, or when none fits and memory is at its end, and that  *)
(* mm_realloc lost the data of a high id, which is false (eval_mm_valid).  *)
THEOREM MdriverAlarmsAreExplained == SizesFit /\ DriverSpec => AlarmsAreExplained
<1>1. SizesFit /\ DriverInv /\ [DriverNext]_driverAll
        => [error' # "" /\ error' # error =>
              LET r == Last(trace').request
              IN  NoBlockToGive(r.size) \/ FalselyAccused(r)]_driverAll
  <2> SUFFICES ASSUME SizesFit, DriverInv, DriverNext, error' # "", error' # error
               PROVE  Explained(Last(trace').request)
    BY DEF Explained
  <2> QED
    BY AlarmsAreTrue
<1> QED
  BY <1>1, DriverAlways, SizesFitAlways, PTL DEF DriverSpec, AlarmsAreExplained
-----------------------------------------------------------------------------
(* 20. What eval_mm_util counts.                                           *)

(* Some of the ids hold no more than the space in which their blocks are.  *)
Bound(held, I, x) ==
    \A i \in I : held[i] # Nothing => held[i].bp + held[i].size + 4 <= x

(* The ids are finite.                                                     *)
LEMMA IdsFinite == IsFiniteSet(Ids) /\ \A I \in SUBSET Ids : IsFiniteSet(I)
<1>1. IsFiniteSet(Ids)
  BY HeapAssumption, FS_Interval DEF Ids
<1> QED
  BY <1>1, FS_Subset

(* Of some ids with blocks, one has the block that is the last.            *)
LEMMA LastBlock ==
  ASSUME NEW m, NEW brk, NEW held, HeapHolds(m, brk, held), NEW I \in SUBSET Ids, I # {},
         \A i \in I : held[i] # Nothing, NEW x \in Nat, Bound(held, I, x)
  PROVE  \E i \in I : Bound(held, I \ {i}, held[i].bp)
<1> DEFINE B == {held[i].bp : i \in I}
<1>1. \A i \in I : held[i].bp \in Nat /\ held[i].size \in Nat /\ held[i].size >= 1
  BY HeldAt
<1>2. B \subseteq Nat /\ B # {} /\ \A y \in B : y <= x
  BY <1>1 DEF Bound
<1> HIDE DEF B
<1>3. PICK top \in B : \A y \in B : top >= y
  BY <1>2, MaxNat
<1>4. PICK i \in I : held[i].bp = top
  BY DEF B
<1>5. ASSUME NEW j \in I \ {i} PROVE held[j].bp + held[j].size + 4 <= held[i].bp
  <2>1. held[j].bp \in B
    BY DEF B
  <2>2. held[j].bp <= held[i].bp
    BY <2>1, <1>2, <1>3, <1>4
  <2>3. \/ held[i].bp + held[i].size + 4 <= held[j].bp
        \/ held[j].bp + held[j].size + 4 <= held[i].bp
    BY HeldApart
  <2> QED
    BY <2>2, <2>3, <1>1
<1> QED
  BY <1>5 DEF Bound

(* Less one of them, they are fewer.                                       *)
LessOne(held, I, i) ==
    /\ SizeOf(held, I) = held[i].size + SizeOf(held, I \ {i})
    /\ SizeOf(held, I \ {i}) \in Nat /\ Cardinality(I \ {i}) \in Nat
    /\ Cardinality(I) \in Nat /\ Cardinality(I \ {i}) < Cardinality(I)
(* The sum and the number of ids are those of the others and one.          *)
LEMMA OneLess ==
  ASSUME NEW held \in [Ids -> [bp : Nat, size : Nat]], NEW I \in SUBSET Ids, NEW i \in I
  PROVE  LessOne(held, I, i)
<1>1. IsFiniteSet(I) /\ IsFiniteSet(I \ {i}) /\ Cardinality(I \ {i}) = Cardinality(I) - 1
  BY IdsFinite, FS_RemoveElement
<1>2. Cardinality(I) \in Nat /\ Cardinality(I \ {i}) \in Nat
  BY <1>1, FS_CardinalityType
<1>3. \A o \in I : held[o].size \in Nat
  OBVIOUS
<1>4. SizeOf(held, I) = held[i].size + SizeOf(held, I \ {i})
  BY <1>1, <1>3, SizeWithout
<1>5. SizeOf(held, I \ {i}) \in Nat
  BY <1>1, <1>3, SizeIsNat
<1> QED
  BY <1>1, <1>2, <1>4, <1>5 DEF LessOne

(* What is held by ids whose blocks are below x is at most x.              *)
LEMMA SumFits ==
  ASSUME NEW m, NEW brk, NEW held, HeapHolds(m, brk, held)
  PROVE  \A I \in SUBSET Ids : \A x \in Nat : Bound(held, I, x) => SizeOf(held, I) <= x
<1>0. held \in [Ids -> [bp : Nat, size : Nat]]
  BY DEF HeapHolds, LiveIn
<1> DEFINE Wrong(n, I, x) ==
             Cardinality(I) = n /\ Bound(held, I, x) /\ ~(SizeOf(held, I) <= x)
           T == {n \in Nat : \E I \in SUBSET Ids, x \in Nat : Wrong(n, I, x)}
<1>1. SUFFICES T = {}
  <2>1. \A I \in SUBSET Ids : Cardinality(I) \in Nat
    BY IdsFinite, FS_CardinalityType
  <2> QED
    BY <2>1
<1> SUFFICES ASSUME T # {} PROVE FALSE
  OBVIOUS
<1> HIDE DEF T
<1>2. T \subseteq Nat
  BY DEF T
<1>3. PICK n \in T : \A y \in T : n <= y
  BY <1>2, LeastNat
<1>4. PICK I \in SUBSET Ids, x \in Nat : Wrong(n, I, x)
  BY <1>3 DEF T
<1>5. ASSUME NEW i \in I, NEW z \in Nat, Bound(held, I \ {i}, z)
      PROVE  LessOne(held, I, i) /\ SizeOf(held, I \ {i}) <= z
  <2>1. LessOne(held, I, i)
    BY <1>0, OneLess
  <2>2. CASE ~(SizeOf(held, I \ {i}) <= z)
    <3>1. PICK k \in Nat : k = Cardinality(I \ {i})
      BY <2>1 DEF LessOne
    <3>2. Wrong(k, I \ {i}, z)
      BY <3>1, <2>2, <1>5
    <3>3. k \in T
      BY <3>2 DEF T
    <3>4. k < n /\ n \in Nat
      BY <3>1, <2>1, <1>4 DEF LessOne
    <3>5. n <= k
      BY <3>3, <1>3
    <3> QED
      BY <3>1, <3>4, <3>5
  <2> QED
    BY <2>1, <2>2
<1>6. CASE I = {}
  <2>1. SizeOf(held, I) = 0
    BY <1>6, SizeOfNone
  <2> QED
    BY <2>1, <1>4
<1>7. CASE \E i \in I : held[i] = Nothing
  <2>1. PICK i \in I : held[i] = Nothing
    BY <1>7
  <2>2. LessOne(held, I, i) /\ SizeOf(held, I \ {i}) <= x
    <3>1. Bound(held, I \ {i}, x)
      BY <1>4 DEF Bound
    <3> QED
      BY <3>1, <1>5
  <2>3. held[i].size = 0
    BY <2>1 DEF Nothing
  <2> QED
    BY <2>2, <2>3, <1>4 DEF LessOne
<1>8. CASE I # {} /\ \A i \in I : held[i] # Nothing
  <2>1. PICK i \in I : Bound(held, I \ {i}, held[i].bp)
    BY <1>4, <1>8, LastBlock
  <2>2. held[i].bp \in Nat /\ held[i].size \in Nat
    BY <1>0
  <2>3. LessOne(held, I, i) /\ SizeOf(held, I \ {i}) <= held[i].bp
    BY <2>1, <2>2, <1>5
  <2>4. held[i].bp + held[i].size + 4 <= x
    BY <1>4, <1>8 DEF Bound
  <2> QED
    BY <2>2, <2>3, <2>4, <1>4 DEF LessOne
<1> QED
  BY <1>6, <1>7, <1>8

(* What is held is less than the heap.                                     *)
LEMMA TotalFits ==
  ASSUME NEW m, NEW brk, NEW held, HeapHolds(m, brk, held)
  PROVE  SizeOf(held, Ids) \in Nat /\ brk \in Nat /\ SizeOf(held, Ids) <= brk
<1>1. held \in [Ids -> [bp : Nat, size : Nat]] /\ brk \in Nat
  BY HeapAssumption DEF HeapHolds, LiveIn
<1>2. Bound(held, Ids, brk)
  BY HeldAt DEF Bound
<1>3. SizeOf(held, Ids) \in Nat
  <2>1. \A o \in Ids : held[o].size \in Nat
    BY <1>1
  <2> QED
    BY <2>1, IdsFinite, SizeIsNat
<1>4. Ids \in SUBSET Ids
  OBVIOUS
<1> QED
  BY <1>1, <1>2, <1>3, <1>4, SumFits

(* The total changes by what eval_mm_util reckons.                         *)
LEMMA TotalGrows ==
  ASSUME live \in [Ids -> [bp : Nat, size : Nat]], NEW r, Allowed(r),
         NEW result, Answered(r, result), ~Failed(r, result), r.size \in Nat
  PROVE  SizeOf(Has(r, result), Ids) = SizeOf(live, Ids) + Growth(r)
<1>1. PICK now : now = Has(r, result)
  OBVIOUS
<1>2. PICK id \in Ids : id = r.id
  BY DEF Allowed
<1>3. PICK new : new = IF r.type = "FREE" THEN Nothing ELSE [bp |-> result.bp, size |-> r.size]
  OBVIOUS
<1>4. now = [live EXCEPT ![id] = new] /\ result.bp \in Nat
  BY <1>1, <1>2, <1>3 DEF Answered, Holding
<1>5. new \in [bp : Nat, size : Nat] /\ new.size = IF r.type = "FREE" THEN 0 ELSE r.size
  <2>1. CASE r.type = "FREE"
    BY <2>1, <1>3 DEF Nothing, NULL
  <2>2. CASE r.type # "FREE"
    BY <2>2, <1>3, <1>4
  <2> QED
    BY <2>1, <2>2
<1>6. now \in [Ids -> [bp : Nat, size : Nat]] /\ now[id] = new
      /\ \A i \in Ids \ {id} : now[i] = live[i]
  BY <1>4, <1>5
<1>7. LessOne(live, Ids, id) /\ LessOne(now, Ids, id)
  BY <1>6, OneLess
<1>8. SizeOf(now, Ids \ {id}) = SizeOf(live, Ids \ {id})
  <2>1. \A i \in Ids \ {id} : now[i].size = live[i].size
    BY <1>6
  <2> QED
    BY <2>1, IdsFinite, SizeKept
<1>9. live[id].size \in Nat
  OBVIOUS
<1>10. Growth(r) = new.size - live[id].size
  <2>1. CASE r.type = "ALLOC"
    <3>1. live[id].size = 0
      BY <2>1, <1>2 DEF Allowed, Nothing
    <3> QED
      BY <2>1, <3>1, <1>5 DEF Growth
  <2>2. CASE r.type = "REALLOC"
    BY <2>2, <1>2, <1>5 DEF Growth
  <2>3. CASE r.type = "FREE"
    BY <2>3, <1>2, <1>5, <1>9 DEF Growth
  <2> QED
    BY <2>1, <2>2, <2>3 DEF Allowed
<1>11. new.size \in Nat
  BY <1>5
<1> QED
  BY <1>1, <1>6, <1>7, <1>8, <1>9, <1>10, <1>11 DEF LessOne
-----------------------------------------------------------------------------
(* What the driver has counted.                                            *)
Counted ==
    /\ phase = "valid" => total_size = 0 /\ max_total_size = 0
    /\ phase = "util" => /\ total_size = SizeOf(live, Ids) /\ max_total_size \in Nat
                         /\ max_total_size <= mem_brk

(* One request more in eval_mm_util.                                       *)
LEMMA UtilCounts ==
  ASSUME SizesFit, DriverInv, Counted, eval_mm_util, phase' = "util"
  PROVE  Counted'
<1>0. /\ HeapHolds(mem, mem_brk, live) /\ live \in [Ids -> [bp : Nat, size : Nat]]
      /\ phase = "util" /\ total_size = SizeOf(live, Ids) /\ max_total_size \in Nat
      /\ max_total_size <= mem_brk
  BY DEF DriverInv, HeapHolds, LiveIn, eval_mm_util, Counted
<1>1. PICK r : r = trace[op + 1].request
  OBVIOUS
<1>2. PICK result : result = Called(r)
  OBVIOUS
<1>3. /\ op < Len(trace) /\ mem_brk' = result.brk /\ live' = Has(r, result)
      /\ phase' = IF Failed(r, result) THEN "aborted" ELSE phase
  BY <1>1, <1>2 DEF eval_mm_util, Play, Played, Leaves
<1>4. Allowed(r)
  BY <1>0, <1>1, <1>3, NextAllowed
<1>5. Answered(r, result)
  BY <1>0, <1>2, <1>4, Answers
<1>6. ~Failed(r, result)
  BY <1>3
<1>7. r.size \in Nat
  BY <1>4 DEF Allowed, SizesFit, Fitting
<1>8. SizeOf(Has(r, result), Ids) = SizeOf(live, Ids) + Growth(r)
  BY <1>0, <1>4, <1>5, <1>6, <1>7, TotalGrows
<1>9. PICK total : total = total_size + Growth(r)
  OBVIOUS
<1>10. total = SizeOf(live', Ids)
  BY <1>0, <1>3, <1>8, <1>9
<1>11. HeapHolds(mem', mem_brk', live')
  BY <1>0, <1>1, PlayRight DEF eval_mm_util, DriverInv
<1>12. total \in Nat /\ mem_brk' \in Nat /\ total <= mem_brk'
  BY <1>10, <1>11, TotalFits
<1>13. mem_brk' >= mem_brk /\ mem_brk \in Nat
  BY <1>0, <1>3, <1>5, HeapAssumption DEF Answered, HeapHolds
<1>14. total_size' = total
       /\ max_total_size' = IF total > max_total_size THEN total ELSE max_total_size
  BY <1>1, <1>9 DEF eval_mm_util
<1>15. max_total_size' \in Nat /\ max_total_size' <= mem_brk'
  BY <1>0, <1>12, <1>13, <1>14
<1>16. SizeOf(live, Ids)' = SizeOf(live', Ids)
  BY DEF Ids
<1> QED
  BY <1>10, <1>14, <1>15, <1>16 DEF Counted

(* The count of a driver that starts to measure.                           *)
LEMMA UtilStarts ==
  ASSUME DriverInv, Counted, EndValid
  PROVE  Counted'
<1>1. /\ phase = "valid" /\ phase' = "util" /\ Restart
      /\ total_size' = total_size /\ max_total_size' = max_total_size
  BY DEF EndValid
<1>2. total_size' = 0 /\ max_total_size' = 0
  BY <1>1 DEF Counted
<1>3. HeapHolds(mem', mem_brk', live') /\ live' = None
  BY <1>1, RestartHolds DEF DriverInv
<1>4. mem_brk' \in Nat
  BY <1>3, TotalFits
<1>5. SizeOf(live', Ids) = 0
  <2>1. \A id \in Ids : None[id].size = 0
    BY DEF None, Nothing
  <2>2. SizeOf(None, Ids) = 0
    BY <2>1, IdsFinite, SizeOfZeros
  <2> QED
    BY <2>2, <1>3
<1>6. SizeOf(live, Ids)' = SizeOf(live', Ids)
  BY DEF Ids
<1> QED
  BY <1>1, <1>2, <1>4, <1>5, <1>6 DEF Counted

(* The count in every step.                                                *)
LEMMA DriverCounts ==
  ASSUME SizesFit, DriverInv, Counted, DriverNext
  PROVE  Counted'
<1>1. CASE Caller
  BY <1>1 DEF Caller, driverVars, Counted
<1>2. CASE NextTrace
  BY <1>2 DEF NextTrace, Counted
<1>3. CASE EndValid
  BY <1>3, UtilStarts
<1>4. CASE eval_mm_util
  <2>1. phase' = "util" \/ phase' = "aborted"
    BY <1>4 DEF eval_mm_util, Play, Played
  <2>2. CASE phase' = "util"
    BY <1>4, <2>2, UtilCounts
  <2>3. CASE phase' = "aborted"
    BY <2>3 DEF Counted
  <2> QED
    BY <2>1, <2>2, <2>3
<1>5. CASE eval_mm_speed \/ EndReplay \/ Finish
  <2>1. phase' # "valid" /\ phase' # "util"
    BY <1>5 DEF eval_mm_speed, EndReplay, Finish, Play, Played
  <2> QED
    BY <2>1 DEF Counted
<1>6. CASE \E r \in Requests : CheckRequest(r)
  <2>1. phase = "valid" /\ (phase' = "valid" \/ phase' = "next")
        /\ total_size' = total_size /\ max_total_size' = max_total_size
    BY <1>6 DEF CheckRequest, Check
  <2> QED
    BY <2>1 DEF Counted
<1> QED
  BY <1>1, <1>2, <1>3, <1>4, <1>5, <1>6 DEF DriverNext

(* What the driver knows of the blocks is true: where they are, and how    *)
(* much they hold in all, which is never more than the heap (add_range,    *)
(* remove_range, eval_mm_valid, eval_mm_util).                             *)
THEOREM MdriverKnowsBlocks == SizesFit /\ DriverSpec => []DriverKnowsBlocks
<1>1. DriverInit => Counted
  BY DEF DriverInit, Counted
<1>2. SizesFit /\ DriverInv /\ Counted /\ [DriverNext]_driverAll => Counted'
  <2> SUFFICES ASSUME SizesFit, DriverInv, Counted, [DriverNext]_driverAll PROVE Counted'
    OBVIOUS
  <2>1. CASE UNCHANGED driverAll
    BY <2>1 DEF driverAll, driverVars, vars, Counted, Ids
  <2> QED
    BY <2>1, DriverCounts
<1>3. DriverInv /\ Counted => DriverKnowsBlocks
  <2> SUFFICES ASSUME DriverInv, Counted PROVE DriverKnowsBlocks
    OBVIOUS
  <2>1. RangesAreLive
    BY DriverTyped
  <2>2. UtilisationIsSound
    BY DEF Counted, UtilisationIsSound, SizeOf, mem_heapsize
  <2> QED
    BY <2>1, <2>2 DEF DriverKnowsBlocks
<1> QED
  BY <1>1, <1>2, <1>3, DriverAlways, SizesFitAlways, PTL DEF DriverSpec
-----------------------------------------------------------------------------
(* 21. Calls that read nothing but what the allocator wrote.               *)

(* A word of g is known when it is a number that the allocator may have    *)
(* written: data and garbage are negative.  A memory m agrees with g when  *)
(* it holds what is known of g, and anything elsewhere.                    *)
Known(g, p) == p \in Addr /\ g[p] \in Nat
Agree(m, g) == m \in Memory /\ g \in Memory /\ \A p \in Addr : Known(g, p) => m[p] = g[p]
InStep(g, m2, g2) == Agree(m2, g2) /\ \A p \in Addr : Known(g, p) => Known(g2, p)
ClassesKnown(g) == \A k \in Classes : Known(g, k)

(* One write does the same to both, and nothing that is known gets lost.   *)
LEMMA PutAgrees ==
  ASSUME NEW m, NEW g, Agree(m, g), NEW p, NEW v \in Nat
  PROVE  /\ InStep(g, PUT(m, p, v), PUT(g, p, v))
         /\ p \in Addr => Known(PUT(g, p, v), p)
<1>1. m \in Memory /\ g \in Memory
  BY DEF Agree
<1>2. PUT(m, p, v) \in Memory /\ PUT(g, p, v) \in Memory
  <2>1. ASSUME NEW x \in Memory PROVE PUT(x, p, v) \in Memory
    <3>1. PUT(x, p, v) = [q \in Addr |-> IF q = p THEN v ELSE x[q]]
      BY DEF PUT, Memory
    <3> QED
      BY <3>1 DEF Memory
  <2> QED
    BY <2>1, <1>1
<1>3. \A q \in Addr : /\ PUT(m, p, v)[q] = IF q = p THEN v ELSE m[q]
                      /\ PUT(g, p, v)[q] = IF q = p THEN v ELSE g[q]
  BY <1>1 DEF PUT, Memory
<1> QED
  BY <1>2, <1>3 DEF InStep, Agree, Known

(* Steps follow one another.                                               *)
LEMMA StepsAgree ==
  ASSUME NEW g, NEW m2, NEW g2, InStep(g, m2, g2), NEW m3, NEW g3, InStep(g2, m3, g3)
  PROVE  InStep(g, m3, g3)
BY DEF InStep

(* What was known is known after a step.                                   *)
LEMMA StaysKnown ==
  ASSUME NEW g, NEW m2, NEW g2, InStep(g, m2, g2)
  PROVE  /\ Agree(m2, g2) /\ (ClassesKnown(g) => ClassesKnown(g2))
         /\ \A p : Known(g, p) => Known(g2, p)
BY DEF InStep, ClassesKnown, Known

(* A header that is known says the same in both.                           *)
SameHeader(m, g, b) ==
    /\ Header(m, b) = Header(g, b) /\ Size(m, b) = Size(g, b) /\ Size(g, b) \in Nat
    /\ Allocated(m, b) <=> Allocated(g, b)
    /\ PrevAllocated(m, b) <=> PrevAllocated(g, b)
    /\ NEXT_BLKP(m, b) = NEXT_BLKP(g, b) /\ PallocFlag(m, b) = PallocFlag(g, b)

(* So it does when the memories agree.                                     *)
LEMMA HeaderAgrees ==
  ASSUME NEW m, NEW g, Agree(m, g), NEW b, Known(g, b - 4)
  PROVE  SameHeader(m, g, b)
<1>1. Header(m, b) = Header(g, b) /\ Header(g, b) \in Nat
  BY DEF Agree, Known, Header, WSIZE
<1>2. Size(m, b) = Size(g, b) /\ Size(g, b) \in Nat
  BY <1>1 DEF Size, SIZE
<1>3. /\ Allocated(m, b) <=> Allocated(g, b)
      /\ PrevAllocated(m, b) <=> PrevAllocated(g, b)
  BY <1>1 DEF Allocated, PrevAllocated
<1> QED
  BY <1>1, <1>2, <1>3 DEF SameHeader, NEXT_BLKP, PallocFlag

(* The tags of a block are written. *)
LEMMA HeaderPut ==
  ASSUME NEW m, NEW g, Agree(m, g), NEW b, NEW size \in Nat, NEW flags \in 0 .. 3,
         NEW m2, m2 = PutHeader(m, b, size, flags), NEW g2, g2 = PutHeader(g, b, size, flags)
  PROVE  InStep(g, m2, g2) /\ (b - 4 \in Addr => Known(g2, b - 4))
<1>1. PICK v \in Nat : v = size + flags
  OBVIOUS
<1>2. m2 = PUT(m, b - 4, v) /\ g2 = PUT(g, b - 4, v)
  BY <1>1 DEF PutHeader, WSIZE
<1> QED
  BY <1>2, PutAgrees

(* So are those of a free block, which are two words.                      *)
LEMMA FreePut ==
  ASSUME NEW m, NEW g, Agree(m, g), NEW b, b - 4 \in Addr,
         NEW size \in Nat, NEW palloc \in {0, 2},
         NEW m2, m2 = PutFree(m, b, size, palloc), NEW g2, g2 = PutFree(g, b, size, palloc)
  PROVE  InStep(g, m2, g2) /\ Known(g2, b - 4)
<1>1. PICK m1 : m1 = PutHeader(m, b, size, palloc)
  OBVIOUS
<1>2. PICK g1 : g1 = PutHeader(g, b, size, palloc)
  OBVIOUS
<1>3. InStep(g, m1, g1) /\ Known(g1, b - 4) /\ Agree(m1, g1)
  BY <1>1, <1>2, HeaderPut DEF InStep
<1>4. Size(m1, b) = Size(g1, b) /\ Size(g1, b) \in Nat
  BY <1>3, HeaderAgrees DEF SameHeader
<1>5. PICK s \in Nat : s = Size(g1, b)
  BY <1>4
<1>6. PICK f : f = b + s - DSIZE
  OBVIOUS
<1>7. m2 = PUT(m1, f, s) /\ g2 = PUT(g1, f, s)
  BY <1>1, <1>2, <1>4, <1>5, <1>6 DEF PutFree, PutFooter
<1>8. InStep(g1, m2, g2)
  BY <1>3, <1>7, PutAgrees
<1> QED
  BY <1>3, <1>8, StepsAgree, StaysKnown

(* A pointer is written into a block, if there is one.                     *)
LEMMA LinkPut ==
  ASSUME NEW m, NEW g, Agree(m, g), NEW b, NEW v \in Nat
  PROVE  /\ InStep(g, PutPred(m, b, v), PutPred(g, b, v))
         /\ InStep(g, PutSucc(m, b, v), PutSucc(g, b, v))
<1>1. InStep(g, m, g)
  BY DEF InStep
<1> QED
  BY <1>1, PutAgrees DEF PutPred, PutSucc

(* unjoin reads the header, the links and the head of the list.            *)
LinksKnown(g, b) == Known(g, b - 4) /\ Known(g, b) /\ Known(g, b + 4)

(* It changes both alike.                                                  *)
LEMMA UnjoinAgrees ==
  ASSUME NEW m, NEW g, Agree(m, g), ClassesKnown(g), NEW b, LinksKnown(g, b),
         NEW m2, m2 = unjoin(m, b), NEW g2, g2 = unjoin(g, b)
  PROVE  InStep(g, m2, g2)
<1>1. PICK class : class = match_heap(Size(g, b))
  OBVIOUS
<1>2. /\ match_heap(Size(m, b)) = class /\ Known(g, class)
      /\ m[class] = g[class] /\ g[class] \in Nat
  <2>1. Size(m, b) = Size(g, b) /\ Size(g, b) \in Nat
    BY HeaderAgrees DEF LinksKnown, SameHeader
  <2>2. class \in Classes
    BY <2>1, <1>1, HasClass
  <2> QED
    BY <2>1, <2>2, <1>1 DEF ClassesKnown, Agree, Known
<1>3. PICK p \in Nat : p = Pred(m, b) /\ p = Pred(g, b)
  BY DEF LinksKnown, Known, Agree, Pred
<1>4. PICK s \in Nat : s = Succ(m, b) /\ s = Succ(g, b)
  BY DEF LinksKnown, Known, Agree, Succ, WSIZE
<1>5. PICK m3 : m3 = PutPred(m, s, p)
  OBVIOUS
<1>6. PICK g3 : g3 = PutPred(g, s, p)
  OBVIOUS
<1>7. InStep(g, m3, g3)
  BY <1>5, <1>6, LinkPut
<1>8. PICK m4 : m4 = PutSucc(m3, p, s)
  OBVIOUS
<1>9. PICK g4 : g4 = PutSucc(g3, p, s)
  OBVIOUS
<1>10. InStep(g, m4, g4) /\ Agree(m4, g4) /\ Known(g4, b + 4)
  <2>1. InStep(g3, m4, g4)
    BY <1>7, <1>8, <1>9, LinkPut, StaysKnown
  <2>2. InStep(g, m4, g4)
    BY <2>1, <1>7, StepsAgree
  <2> QED
    BY <2>2, StaysKnown DEF LinksKnown
<1>11. PICK t \in Nat : t = Succ(m4, b) /\ t = Succ(g4, b)
  BY <1>10 DEF Known, Agree, Succ, WSIZE
<1>12. /\ m2 = IF b = m[class] THEN PUT(m4, class, t) ELSE m4
       /\ g2 = IF b = g[class] THEN PUT(g4, class, t) ELSE g4
  BY <1>1, <1>2, <1>3, <1>4, <1>5, <1>6, <1>8, <1>9, <1>11 DEF unjoin
<1>13. CASE b = g[class]
  <2>1. m2 = PUT(m4, class, t) /\ g2 = PUT(g4, class, t)
    BY <1>2, <1>12, <1>13
  <2>2. InStep(g4, m2, g2)
    BY <2>1, <1>10, PutAgrees
  <2> QED
    BY <2>2, <1>10, StepsAgree
<1>14. CASE b # g[class]
  <2>1. m2 = m4 /\ g2 = g4
    BY <1>2, <1>12, <1>14
  <2> QED
    BY <2>1, <1>10
<1> QED
  BY <1>13, <1>14

(* join reads the header and the head of the list.                         *)
LEMMA JoinAgrees ==
  ASSUME NEW m, NEW g, Agree(m, g), ClassesKnown(g), NEW b \in Nat, Known(g, b - 4),
         NEW m2, m2 = join(m, b), NEW g2, g2 = join(g, b)
  PROVE  InStep(g, m2, g2)
<1>1. PICK class : class = match_heap(Size(g, b))
  OBVIOUS
<1>2. match_heap(Size(m, b)) = class /\ m[class] = g[class] /\ g[class] \in Nat
  <2>1. Size(m, b) = Size(g, b) /\ Size(g, b) \in Nat
    BY HeaderAgrees DEF SameHeader
  <2>2. class \in Classes
    BY <2>1, <1>1, HasClass
  <2> QED
    BY <2>1, <2>2, <1>1 DEF ClassesKnown, Agree, Known
<1>3. PICK s \in Nat : s = m[class] /\ s = g[class]
  BY <1>2
<1>4. PICK null \in Nat : null = NULL
  BY DEF NULL
<1>5. PICK m3 : m3 = PutPred(m, b, null)
  OBVIOUS
<1>6. PICK g3 : g3 = PutPred(g, b, null)
  OBVIOUS
<1>7. InStep(g, m3, g3) /\ Agree(m3, g3)
  BY <1>5, <1>6, LinkPut, StaysKnown
<1>8. PICK m4 : m4 = PutSucc(m3, b, s)
  OBVIOUS
<1>9. PICK g4 : g4 = PutSucc(g3, b, s)
  OBVIOUS
<1>10. InStep(g3, m4, g4) /\ Agree(m4, g4)
  BY <1>7, <1>8, <1>9, LinkPut, StaysKnown
<1>11. PICK m5 : m5 = PutPred(m4, s, b)
  OBVIOUS
<1>12. PICK g5 : g5 = PutPred(g4, s, b)
  OBVIOUS
<1>13. InStep(g4, m5, g5) /\ Agree(m5, g5)
  BY <1>10, <1>11, <1>12, LinkPut, StaysKnown
<1>14. m2 = PUT(m5, class, b) /\ g2 = PUT(g5, class, b)
  BY <1>1, <1>2, <1>3, <1>4, <1>5, <1>6, <1>8, <1>9, <1>11, <1>12 DEF join
<1>15. InStep(g5, m2, g2)
  BY <1>13, <1>14, PutAgrees
<1>16. InStep(g3, m5, g5)
  BY <1>10, <1>13, StepsAgree
<1>17. InStep(g3, m2, g2)
  BY <1>15, <1>16, StepsAgree
<1> QED
  BY <1>7, <1>17, StepsAgree

(* In a heap that is being worked on, everything but data, garbage and the *)
(* hole is known.                                                          *)
LEMMA HeapKnown ==
  ASSUME NEW g, NEW brk, NEW S, NEW lo, NEW h, HeapAt(g, brk, S, lo, h)
  PROVE  /\ ClassesKnown(g) /\ \A b \in S \ {lo} : Known(g, b - 4)
         /\ \A b \in FreeIn(g, brk, S, lo) :
               /\ LinksKnown(g, b) /\ Known(g, NEXT_BLKP(g, b) - 8)
               /\ g[NEXT_BLKP(g, b) - 8] = Size(g, b)
<1>1. Walls(g, brk, S, lo, h) /\ Tags(g, brk, S, lo) /\ g \in Memory
  BY WallsSay DEF HeapAt
<1>2. PICK R : Linked(g, FreeIn(g, brk, S, lo), R)
  BY DEF HeapAt
<1>3. \A b \in FreeIn(g, brk, S, lo) : b \in Nat /\ b \in S \ {brk, lo} /\ ~Allocated(g, b)
  BY <1>1, WallsSay DEF FreeIn
<1>4. ClassesKnown(g)
  <2>1. \A k \in Classes : k \in Addr /\ (g[k] = NULL \/ g[k] \in FreeIn(g, brk, S, lo))
    BY <1>1, <1>2, BlockWords DEF Linked
  <2> QED
    BY <2>1, <1>3 DEF ClassesKnown, Known, NULL
<1>5. ASSUME NEW b \in S \ {lo} PROVE Known(g, b - 4)
  <2>1. b - 4 \in Addr /\ Size(g, b) \in Nat
    BY <1>1, BlockWords, SizeNat
  <2>2. g[b - 4] \in Int /\ SIZE(g[b - 4]) >= 0
    BY <2>1, <1>1 DEF Memory, Size, Header, WSIZE
  <2>3. g[b - 4] >= 0
    BY <2>2 DEF SIZE
  <2> QED
    BY <2>1, <2>2, <2>3 DEF Known
<1>6. ASSUME NEW b \in FreeIn(g, brk, S, lo)
      PROVE  /\ LinksKnown(g, b) /\ Known(g, NEXT_BLKP(g, b) - 8)
             /\ g[NEXT_BLKP(g, b) - 8] = Size(g, b)
  <2>1. /\ b \in Addr /\ b + 4 \in Addr /\ b + Size(g, b) - 8 \in Addr /\ b \in Nat
        /\ Size(g, b) \in Nat
    <3>1. Extent(g, lo, h, b) = Size(g, b)
      BY <1>3 DEF Extent
    <3> QED
      BY <3>1, <1>1, <1>3, BlockWords
  <2>2. Pred(g, b) \in Nat /\ Succ(g, b) \in Nat
    BY <1>2, <1>3 DEF Linked, NULL
  <2>3. LinksKnown(g, b)
    BY <2>1, <2>2, <1>3, <1>5 DEF LinksKnown, Known, Pred, Succ, WSIZE
  <2>4. g[NEXT_BLKP(g, b) - 8] = Size(g, b)
    BY <1>1, <1>3 DEF Tags, DSIZE
  <2>5. NEXT_BLKP(g, b) - 8 = b + Size(g, b) - 8
    BY <2>1 DEF NEXT_BLKP
  <2> QED
    BY <2>1, <2>3, <2>4, <2>5 DEF Known
<1> QED
  BY <1>4, <1>5, <1>6

(* The hole that is to be coalesced says its size.                         *)
LEMMA HoleKnown ==
  ASSUME NEW g, NEW brk, NEW S, NEW lo, NEW h, HeapAt(g, brk, S, lo, h), lo \in S,
         Size(g, lo) = h
  PROVE  Known(g, lo - 4)
<1>1. g \in Memory /\ lo - 4 \in Addr /\ h \in Nat
  BY HoleWords, HoleSays
<1>2. g[lo - 4] \in Int /\ SIZE(g[lo - 4]) >= 0
  BY <1>1 DEF Memory, Size, Header, WSIZE
<1>3. g[lo - 4] >= 0
  BY <1>2 DEF SIZE
<1> QED
  BY <1>1, <1>2, <1>3 DEF Known

(* The block that is found in front of a block is one of the list.         *)
LEMMA BeforeAgrees ==
  ASSUME NEW g, NEW brk, NEW S, NEW lo, NEW h, HeapAt(g, brk, S, lo, h), lo \in S,
         Size(g, lo) = h, NEW m, Agree(m, g), NEW first, first = coalesceBefore(g, lo)
  PROVE  /\ coalesceBefore(m, lo) = first /\ first \in Nat /\ Known(g, first - 4)
         /\ first # lo => first \in FreeIn(g, brk, S, lo)
<1>1. lo \in Nat /\ Known(g, lo - 4)
  BY HoleSays, HoleKnown
<1>2. PrevAllocated(m, lo) <=> PrevAllocated(g, lo)
  BY <1>1, HeaderAgrees DEF SameHeader
<1>3. CASE PrevAllocated(g, lo)
  BY <1>1, <1>2, <1>3 DEF coalesceBefore
<1>4. CASE ~PrevAllocated(g, lo)
  <2>1. PICK p \in S \ {brk, lo} : NEXT_BLKP(g, p) = lo /\ ~Allocated(g, p)
    BY <1>4, InFrontOfHole
  <2>2. p \in FreeIn(g, brk, S, lo)
    BY <2>1 DEF FreeIn
  <2>3. Known(g, lo - 8) /\ g[lo - 8] = Size(g, p) /\ Known(g, p - 4)
    BY <2>1, <2>2, HeapKnown
  <2>4. m[lo - 8] = g[lo - 8]
    BY <2>3 DEF Agree, Known
  <2>5. /\ p \in Nat /\ Size(g, p) \in Nat /\ Size(g, p) % 8 = 0 /\ p + Size(g, p) = lo
    BY <2>1, Nexts, WallsSay DEF HeapAt
  <2>6. PREV_BLKP(m, lo) = p /\ PREV_BLKP(g, lo) = p
    BY <2>3, <2>4, <2>5 DEF PREV_BLKP, SIZE, DSIZE
  <2> QED
    BY <2>2, <2>3, <2>5, <2>6, <1>2, <1>4 DEF coalesceBefore
<1> QED
  BY <1>3, <1>4

(* coalesce. *)
LEMMA CoalesceAgrees ==
  ASSUME NEW g, NEW brk, NEW S, NEW lo, NEW h, HeapAt(g, brk, S, lo, h), lo \in S,
         Size(g, lo) = h, NEW m, Agree(m, g),
         NEW r, r = coalesce(m, lo), NEW r2, r2 = coalesce(g, lo)
  PROVE  Agree(r.mem, r2.mem) /\ r.bp = r2.bp
<1>1. /\ lo \in Nat /\ h \in Nat /\ lo + h \in S /\ lo + h # lo /\ Known(g, lo - 4)
      /\ ClassesKnown(g)
  BY HoleSays, HoleKnown, HeapKnown
<1>2. PICK n : n = lo + h
  OBVIOUS
<1>3. Known(g, n - 4)
  BY <1>1, <1>2, HeapKnown
<1>4. SameHeader(m, g, lo) /\ SameHeader(m, g, n)
  BY <1>1, <1>3, HeaderAgrees
<1>5. NEXT_BLKP(m, lo) = n /\ NEXT_BLKP(g, lo) = n
  BY <1>2, <1>4 DEF SameHeader, NEXT_BLKP
<1>6. PICK first : first = coalesceBefore(g, lo)
  OBVIOUS
<1>7. /\ coalesceBefore(m, lo) = first /\ first \in Nat /\ Known(g, first - 4)
      /\ first # lo => LinksKnown(g, first)
  BY <1>6, BeforeAgrees, HeapKnown
<1>8. SameHeader(m, g, first)
  BY <1>7, HeaderAgrees
<1>9. PICK m1 : m1 = IF first # lo THEN unjoin(m, first) ELSE m
  OBVIOUS
<1>10. PICK g1 : g1 = IF first # lo THEN unjoin(g, first) ELSE g
  OBVIOUS
<1>11. InStep(g, m1, g1)
  <2>1. InStep(g, m, g)
    BY DEF InStep
  <2>2. first # lo => InStep(g, unjoin(m, first), unjoin(g, first))
    BY <1>1, <1>7, UnjoinAgrees
  <2> QED
    BY <2>1, <2>2, <1>9, <1>10
<1>12. ~Allocated(g, n) => LinksKnown(g, n)
  <2>1. ~Allocated(g, n) => n \in FreeIn(g, brk, S, lo)
    BY <1>1, <1>2, WallsSay DEF FreeIn, HeapAt
  <2> QED
    BY <2>1, HeapKnown
<1>13. PICK m2 : m2 = IF ~Allocated(m, n) THEN unjoin(m1, n) ELSE m1
  OBVIOUS
<1>14. PICK g2 : g2 = IF ~Allocated(g, n) THEN unjoin(g1, n) ELSE g1
  OBVIOUS
<1>15. InStep(g, m2, g2)
  <2>1. Agree(m1, g1) /\ ClassesKnown(g1) /\ (LinksKnown(g, n) => LinksKnown(g1, n))
    BY <1>1, <1>11, StaysKnown DEF LinksKnown
  <2>2. CASE ~Allocated(g, n)
    <3>1. InStep(g1, unjoin(m1, n), unjoin(g1, n))
      BY <2>1, <2>2, <1>12, UnjoinAgrees
    <3>2. m2 = unjoin(m1, n) /\ g2 = unjoin(g1, n)
      BY <2>2, <1>4, <1>13, <1>14 DEF SameHeader
    <3> QED
      BY <3>1, <3>2, <1>11, StepsAgree
  <2>3. CASE Allocated(g, n)
    <3>1. m2 = m1 /\ g2 = g1
      BY <2>3, <1>4, <1>13, <1>14 DEF SameHeader
    <3> QED
      BY <3>1, <1>11
  <2> QED
    BY <2>2, <2>3
<1>16. PICK size \in Nat : size = Size(g, lo) + (IF first # lo THEN Size(g, first) ELSE 0)
                                              + (IF ~Allocated(g, n) THEN Size(g, n) ELSE 0)
  <2>1. Size(g, lo) \in Nat /\ Size(g, first) \in Nat /\ Size(g, n) \in Nat
    BY <1>4, <1>8 DEF SameHeader
  <2> QED
    BY <2>1
<1>17. size = Size(m, lo) + (IF first # lo THEN Size(m, first) ELSE 0)
                          + (IF ~Allocated(m, n) THEN Size(m, n) ELSE 0)
  BY <1>4, <1>8, <1>16 DEF SameHeader
<1>18. PICK palloc \in {0, 2} : palloc = PALLOC
  BY DEF PALLOC
<1>19. PICK m3 : m3 = PutFree(m2, first, size, palloc)
  OBVIOUS
<1>20. PICK g3 : g3 = PutFree(g2, first, size, palloc)
  OBVIOUS
<1>21. InStep(g2, m3, g3) /\ Known(g3, first - 4)
  <2>1. Agree(m2, g2) /\ first - 4 \in Addr
    BY <1>7, <1>15 DEF InStep, Known
  <2> QED
    BY <2>1, <1>19, <1>20, FreePut
<1>22. Agree(m3, g3) /\ ClassesKnown(g3)
  BY <1>1, <1>15, <1>21, StaysKnown
<1>23. InStep(g3, join(m3, first), join(g3, first))
  BY <1>7, <1>21, <1>22, JoinAgrees
<1>24. /\ r = [mem |-> join(m3, first), bp |-> first]
       /\ r2 = [mem |-> join(g3, first), bp |-> first]
  BY <1>5, <1>6, <1>7, <1>9, <1>10, <1>13, <1>14, <1>16, <1>17, <1>18, <1>19, <1>20
     DEF coalesce
<1> QED
  BY <1>23, <1>24, StaysKnown

(* mm_free. *)
LEMMA FreeAgrees ==
  ASSUME NEW g, NEW brk, NEW S, NEW lo, NEW h, HeapAt(g, brk, S, lo, h), lo \in S,
         Size(g, lo) = h, NEW m, Agree(m, g)
  PROVE  Agree(mm_free(m, lo), mm_free(g, lo))
<1>1. lo \in Nat /\ h \in Nat /\ lo + h \in S /\ lo + h # lo /\ Known(g, lo - 4)
  BY HoleSays, HoleKnown
<1>2. PICK n : n = lo + h
  OBVIOUS
<1>3. Known(g, n - 4)
  BY <1>1, <1>2, HeapKnown
<1>4. SameHeader(m, g, lo) /\ SameHeader(m, g, n)
  BY <1>1, <1>3, HeaderAgrees
<1>5. NEXT_BLKP(m, lo) = n /\ NEXT_BLKP(g, lo) = n
  BY <1>2, <1>4 DEF SameHeader, NEXT_BLKP
<1>6. PICK palloc \in {0, 2} : palloc = PallocFlag(g, lo)
  BY DEF PallocFlag, PALLOC
<1>7. PICK m1 : m1 = PutFree(m, lo, h, palloc)
  OBVIOUS
<1>8. PICK g1 : g1 = PutFree(g, lo, h, palloc)
  OBVIOUS
<1>9. InStep(g, m1, g1) /\ Agree(m1, g1)
  <2>1. lo - 4 \in Addr
    BY <1>1 DEF Known
  <2>2. InStep(g, m1, g1)
    BY <2>1, <1>1, <1>7, <1>8, FreePut
  <2> QED
    BY <2>2 DEF InStep
<1>10. PICK flags \in 0 .. 3 : flags = IF Allocated(g, n) THEN ALLOC ELSE 0
  BY DEF ALLOC
<1>11. PICK size \in Nat : size = Size(g, n)
  BY <1>4 DEF SameHeader
<1>12. PICK m2 : m2 = PutHeader(m1, n, size, flags)
  OBVIOUS
<1>13. PICK g2 : g2 = PutHeader(g1, n, size, flags)
  OBVIOUS
<1>14. Agree(m2, g2)
  BY <1>9, <1>12, <1>13, HeaderPut, StaysKnown
<1>15. HeapAt(g2, brk, S, lo, h) /\ Size(g2, lo) = h
  BY <1>2, <1>6, <1>8, <1>10, <1>11, <1>13, FreeTold DEF Told
<1>16. mm_free(g, lo) = coalesce(g2, lo).mem
  BY <1>5, <1>6, <1>8, <1>10, <1>11, <1>13 DEF mm_free
<1>17. mm_free(m, lo) = coalesce(m2, lo).mem
  BY <1>4, <1>5, <1>6, <1>7, <1>10, <1>11, <1>12 DEF mm_free, SameHeader
<1> QED
  BY <1>14, <1>15, <1>16, <1>17, CoalesceAgrees

(* place. *)
LEMMA PlaceAgrees ==
  ASSUME NEW g, NEW brk, NEW S, HeapAt(g, brk, S, 0, 0), NEW b \in FreeIn(g, brk, S, 0),
         NEW a \in Nat, a % 8 = 0, a >= 16, Size(g, b) >= a, NEW m, Agree(m, g)
  PROVE  Agree(place(m, b, a), place(g, b, a))
<1>0. /\ Walls(g, brk, S, 0, 0) /\ Tags(g, brk, S, 0) /\ 0 \notin S /\ ClassesKnown(g)
      /\ LinksKnown(g, b)
  BY WallsSay, HeapKnown DEF HeapAt
<1>1. b \in S \ {brk, 0} /\ b \in S /\ ~Allocated(g, b)
  BY <1>0, FreeIsLater DEF FreeIn
<1>2. PICK h : h = Size(g, b)
  OBVIOUS
<1>3. /\ h \in Nat /\ NEXT_BLKP(g, b) = b + h /\ b + h \in S /\ b + h # 0 /\ b \in Nat
  BY <1>0, <1>1, <1>2, Nexts, WallsSay
<1>4. PICK n : n = b + h
  OBVIOUS
<1>5. SameHeader(m, g, b) /\ SameHeader(m, g, n)
  BY <1>0, <1>1, <1>3, <1>4, HeapKnown, HeaderAgrees
<1>6. NEXT_BLKP(m, b) = n
  BY <1>3, <1>4, <1>5 DEF SameHeader
<1>7. PICK u : u = unjoin(g, b)
  OBVIOUS
<1>8. PICK v : v = unjoin(m, b)
  OBVIOUS
<1>9. InStep(g, v, u) /\ Agree(v, u)
  BY <1>0, <1>7, <1>8, UnjoinAgrees DEF InStep
<1>10. HeapAt(u, brk, S, b, h) /\ SameHeaders(g, u, S)
  BY <1>2, <1>7, OpenFree
<1>11. PrevAllocated(u, b)
  <2>1. PrevAllocated(g, b)
    BY <1>0, FreeStandsAlone
  <2> QED
    BY <2>1, <1>1, <1>10, HeadersSay
<1>12. PICK flags \in {1, 3} : flags = ALLOC + PALLOC /\ flags \in 0 .. 3 /\ flags = 3
  BY DEF ALLOC, PALLOC
<1>13. CASE h - a >= 16
  <2>1. PICK palloc \in {0, 2} : palloc = PALLOC
    BY DEF PALLOC
  <2>2. PICK x \in Nat : x = b + a
    BY <1>3
  <2>3. PICK rest \in Nat : rest = h - a
    BY <1>3, <1>13
  <2>4. PICK g1 : g1 = PutHeader(u, b, a, flags)
    OBVIOUS
  <2>5. PICK m1 : m1 = PutHeader(v, b, a, flags)
    OBVIOUS
  <2>6. Agree(m1, g1)
    BY <2>4, <2>5, <1>9, <1>12, HeaderPut DEF InStep
  <2>7. PICK g2 : g2 = PutFree(g1, x, rest, palloc)
    OBVIOUS
  <2>8. PICK m2 : m2 = PutFree(m1, x, rest, palloc)
    OBVIOUS
  <2>9. Split(u, g2, brk, S, b, h, a)
    BY <2>1, <2>2, <2>3, <2>4, <2>7, <1>1, <1>10, <1>11, <1>12, <1>13, HoleSplit
  <2>10. PICK T : HeapAt(g2, brk, T, x, rest) /\ x \in T /\ Size(g2, x) = rest
    BY <2>2, <2>3, <2>9 DEF Split, Cut
  <2>11. Agree(m2, g2)
    <3>1. x - 4 \in Addr
      BY <2>10, HoleWords
    <3> QED
      BY <3>1, <2>6, <2>7, <2>8, FreePut DEF InStep
  <2>12. place(g, b, a) = coalesce(g2, x).mem
    BY <2>1, <2>2, <2>3, <2>4, <2>7, <1>2, <1>7, <1>12, <1>13 DEF place, MINBLOCK
  <2>13. place(m, b, a) = coalesce(m2, x).mem
    BY <2>1, <2>2, <2>3, <2>5, <2>8, <1>2, <1>5, <1>8, <1>12, <1>13
       DEF place, MINBLOCK, SameHeader
  <2> QED
    BY <2>10, <2>11, <2>12, <2>13, CoalesceAgrees
<1>14. CASE ~(h - a >= 16)
  <2>1. PICK s \in Nat : s = Size(g, n)
    BY <1>5 DEF SameHeader
  <2>2. PICK g1 : g1 = PutHeader(u, b, h, flags)
    OBVIOUS
  <2>3. PICK m1 : m1 = PutHeader(v, b, h, flags)
    OBVIOUS
  <2>4. Agree(m1, g1)
    BY <2>2, <2>3, <1>3, <1>9, <1>12, HeaderPut DEF InStep
  <2>5. Agree(PutHeader(m1, n, s, flags), PutHeader(g1, n, s, flags))
    BY <2>4, <1>12, HeaderPut DEF InStep
  <2>6. place(g, b, a) = PutHeader(g1, n, s, flags)
    BY <2>1, <2>2, <1>2, <1>3, <1>4, <1>7, <1>12, <1>14 DEF place, MINBLOCK
  <2>7. place(m, b, a) = PutHeader(m1, n, s, flags)
    BY <2>1, <2>3, <1>2, <1>5, <1>6, <1>8, <1>12, <1>14 DEF place, MINBLOCK, SameHeader
  <2> QED
    BY <2>5, <2>6, <2>7
<1> QED
  BY <1>13, <1>14

(* extend_heap. *)
LEMMA ExtendAgrees ==
  ASSUME NEW g, NEW brk, NEW S, HeapAt(g, brk, S, 0, 0),
         NEW a \in Nat, a % 8 = 0, a >= 16, a < 2 ^ SizeBits, NEW m, Agree(m, g),
         NEW r, r = extend_heap(m, brk, a), NEW r2, r2 = extend_heap(g, brk, a)
  PROVE  r.bp = r2.bp /\ r.brk = r2.brk /\ Agree(r.mem, r2.mem)
<1>0. /\ brk \in Nat /\ brk - 4 \in Addr /\ MAX_HEAP \in Nat /\ Known(g, brk - 4)
  <2>1. brk \in S \ {0}
    BY WallsSay DEF HeapAt
  <2> QED
    BY <2>1, BlockWords, HeapAssumption, HeapKnown DEF HeapAt
<1>1. ALIGN(a) = a
  BY AlignIs
<1>2. CASE brk + a > MAX_HEAP
  BY <1>1, <1>2 DEF extend_heap, Result
<1>3. CASE ~(brk + a > MAX_HEAP)
  <2>1. PICK palloc \in {0, 2} : palloc = PallocFlag(g, brk) /\ palloc = PallocFlag(m, brk)
    <3>1. PallocFlag(m, brk) = PallocFlag(g, brk)
      BY <1>0, HeaderAgrees DEF SameHeader
    <3> QED
      BY <3>1 DEF PallocFlag, PALLOC
  <2>2. PICK flags \in 0 .. 3 : flags = ALLOC
    BY DEF ALLOC
  <2>3. PICK n \in Nat : n = brk + a
    BY <1>0
  <2>4. PICK g1 : g1 = PutFree(g, brk, a, palloc)
    OBVIOUS
  <2>5. PICK m1 : m1 = PutFree(m, brk, a, palloc)
    OBVIOUS
  <2>6. InStep(g, m1, g1)
    BY <2>4, <2>5, <1>0, FreePut
  <2>7. PICK g2 : g2 = PutHeader(g1, n, 0, flags)
    OBVIOUS
  <2>8. PICK m2 : m2 = PutHeader(m1, n, 0, flags)
    OBVIOUS
  <2>9. Agree(m2, g2)
    <3>1. Agree(m1, g1) /\ 0 \in Nat
      BY <2>6 DEF InStep
    <3>2. InStep(g1, m2, g2)
      BY <3>1, <2>7, <2>8, HeaderPut
    <3> QED
      BY <3>2 DEF InStep
  <2>10. Chunk(g, g2, brk, S, a)
    <3>1. brk + a <= MAX_HEAP
      BY <1>0, <1>3
    <3>2. g2 = PutHeader(PutFree(g, brk, a, PallocFlag(g, brk)), brk + a, 0, ALLOC)
      BY <2>1, <2>2, <2>3, <2>4, <2>7
    <3> QED
      BY <3>1, <3>2, ChunkAdded
  <2>11. PICK T : HeapAt(g2, n, T, brk, a) /\ brk \in T /\ Size(g2, brk) = a
    BY <2>3, <2>10 DEF Chunk, Grown
  <2>12. PICK c : c = coalesce(m2, brk)
    OBVIOUS
  <2>13. PICK c2 : c2 = coalesce(g2, brk)
    OBVIOUS
  <2>14. Agree(c.mem, c2.mem) /\ c.bp = c2.bp
    BY <2>9, <2>11, <2>12, <2>13, CoalesceAgrees
  <2>15. r = [mem |-> c.mem, brk |-> n, bp |-> c.bp]
    BY <2>1, <2>2, <2>3, <2>5, <2>8, <2>12, <1>1, <1>3 DEF extend_heap, Extended, Result
  <2>16. r2 = [mem |-> c2.mem, brk |-> n, bp |-> c2.bp]
    BY <2>1, <2>2, <2>3, <2>4, <2>7, <2>13, <1>1, <1>3 DEF extend_heap, Extended, Result
  <2> QED
    BY <2>14, <2>15, <2>16
<1> QED
  BY <1>2, <1>3

(* The lists are the same, and what is found on them.                      *)
LEMMA ListedAgrees ==
  ASSUME NEW g, NEW brk, NEW S, HeapAt(g, brk, S, 0, 0), NEW m, Agree(m, g),
         NEW class \in Classes
  PROVE  Listed(m, class) = Listed(g, class)
<1>1. PICK F : F = FreeIn(g, brk, S, 0)
  OBVIOUS
<1>2. PICK R : Linked(g, F, R)
  BY <1>1 DEF HeapAt
<1>3. F \subseteq Nat \ {0}
  BY <1>1, SixteenApart DEF HeapAt
<1>4. ASSUME NEW b \in F
      PROVE  SameHeader(m, g, b) /\ Pred(m, b) = Pred(g, b) /\ Succ(m, b) = Succ(g, b)
  <2>1. LinksKnown(g, b)
    BY <1>1, <1>4, HeapKnown
  <2>2. m[b] = g[b] /\ m[b + 4] = g[b + 4] /\ Known(g, b - 4)
    BY <2>1 DEF LinksKnown, Agree, Known
  <2> QED
    BY <2>2, HeaderAgrees DEF Pred, Succ, WSIZE
<1>5. \A k \in Classes : m[k] = g[k]
  BY HeapKnown DEF ClassesKnown, Agree, Known
<1>6. Linked(m, F, R)
  <2>1. \A b \in F : Size(m, b) = Size(g, b) /\ Size(g, b) \in Int
    BY <1>4 DEF SameHeader
  <2> QED
    BY <2>1, <1>2, <1>4, <1>5, LinksSeen
<1>7. PICK L : L = Listed(g, class)
  OBVIOUS
<1>8. PICK K : K = Listed(m, class)
  OBVIOUS
<1>9. PICK N : N = MAX_HEAP \div MINBLOCK /\ N \in Nat
  BY HeapAssumption DEF MINBLOCK
<1>10. /\ L \in [0 .. N -> F \cup {NULL}] /\ L[0] = g[class]
       /\ \A n \in 1 .. N : L[n] = IF L[n - 1] = NULL THEN NULL ELSE Succ(g, L[n - 1])
  <2>1. FollowsList(g, F, class, L)
    BY <1>2, <1>3, <1>7, ListedIs
  <2> QED
    BY <2>1, <1>9 DEF FollowsList
<1>11. /\ K \in [0 .. N -> F \cup {NULL}] /\ K[0] = m[class]
       /\ \A n \in 1 .. N : K[n] = IF K[n - 1] = NULL THEN NULL ELSE Succ(m, K[n - 1])
  <2>1. FollowsList(m, F, class, K)
    BY <1>3, <1>6, <1>8, ListedIs
  <2> QED
    BY <2>1, <1>9 DEF FollowsList
<1> DEFINE T == {n \in 0 .. N : K[n] = L[n]}
<1>12. 0 .. N \subseteq T
  <2>1. 0 \in T
    BY <1>5, <1>9, <1>10, <1>11
  <2>2. ASSUME NEW n \in 0 .. N - 1, n \in T PROVE n + 1 \in T
    <3>1. n + 1 \in 1 .. N /\ (n + 1) - 1 = n /\ n \in 0 .. N
      BY <1>9
    <3>2. L[n + 1] = (IF L[n] = NULL THEN NULL ELSE Succ(g, L[n]))
          /\ K[n + 1] = (IF K[n] = NULL THEN NULL ELSE Succ(m, K[n]))
      BY <3>1, <1>10, <1>11
    <3>3. L[n] \in F \cup {NULL} /\ K[n] = L[n]
      BY <3>1, <2>2, <1>10
    <3> QED
      BY <3>1, <3>2, <3>3, <1>4
  <2> HIDE DEF T
  <2> QED
    BY <2>1, <2>2, <1>9, UpTo
<1>13. \A n \in 0 .. N : K[n] = L[n]
  BY <1>12
<1> HIDE DEF T
<1>14. K = L
  <2>1. K = [n \in 0 .. N |-> K[n]] /\ L = [n \in 0 .. N |-> L[n]]
    BY <1>10, <1>11
  <2> QED
    BY <2>1, <1>13
<1> QED
  BY <1>7, <1>8, <1>14

(* find_fit finds the same block in both.                                  *)
LEMMA FindAgrees ==
  ASSUME NEW g, NEW brk, NEW S, HeapAt(g, brk, S, 0, 0), NEW m, Agree(m, g),
         NEW class \in Classes, NEW a
  PROVE  find_fit(m, class, a) = find_fit(g, class, a)
<1>1. PICK L : L = Listed(g, class) /\ L = Listed(m, class)
  BY ListedAgrees
<1>2. \A n \in DOMAIN L : L[n] # NULL => Size(m, L[n]) = Size(g, L[n])
  <2>1. PICK F : F = FreeIn(g, brk, S, 0)
    OBVIOUS
  <2>2. PICK R : Linked(g, F, R)
    BY <2>1 DEF HeapAt
  <2>3. F \subseteq Nat \ {0}
    BY <2>1, SixteenApart DEF HeapAt
  <2>4. \A n \in DOMAIN L : L[n] # NULL => L[n] \in F
    <3>1. FollowsList(g, F, class, L)
      BY <2>2, <2>3, <1>1, ListedIs
    <3> QED
      BY <3>1 DEF FollowsList
  <2>5. \A b \in F : Size(m, b) = Size(g, b)
    BY <2>1, HeapKnown, HeaderAgrees DEF LinksKnown, SameHeader
  <2> QED
    BY <2>4, <2>5
<1> DEFINE Fit(x) == {n \in DOMAIN L : L[n] # NULL /\ Size(x, L[n]) >= a}
           Best16(x) == {n \in Fit(x) : \A k \in Fit(x) : Size(x, L[n]) <= Size(x, L[k])}
<1>3. Fit(m) = Fit(g)
  BY <1>2
<1>4. Best16(m) = Best16(g)
  BY <1>2, <1>3
<1>5. find_fit(m, class, a) = IF Fit(m) = {} THEN NULL ELSE L[Min(Best16(m))]
  BY <1>1 DEF find_fit
<1>6. find_fit(g, class, a) = IF Fit(g) = {} THEN NULL ELSE L[Min(Best16(g))]
  BY <1>1 DEF find_fit
<1> HIDE DEF Fit, Best16
<1> QED
  BY <1>3, <1>4, <1>5, <1>6

(* mm_malloc. *)
SameResult(r, r2) == r.bp = r2.bp /\ r.brk = r2.brk /\ Agree(r.mem, r2.mem)

(* It gives the same block in both.                                        *)
LEMMA MallocAgrees ==
  ASSUME NEW g, NEW brk, NEW S, HeapAt(g, brk, S, 0, 0), NEW size, Fitting(size),
         NEW m, Agree(m, g),
         NEW r, r = mm_malloc(m, brk, size), NEW r2, r2 = mm_malloc(g, brk, size)
  PROVE  SameResult(r, r2)
<1>0. Walls(g, brk, S, 0, 0) /\ brk \in Nat
  BY BlockWords DEF HeapAt
<1>1. PICK a : a = ADJUST(size)
  OBVIOUS
<1>2. a \in Nat /\ a % 8 = 0 /\ a >= 16 /\ a < 2 ^ SizeBits
  BY <1>1, AdjustIs
<1> DEFINE Usable(x) == {class \in Classes : /\ class >= match_heap(a)
                                             /\ find_fit(x, class, a) # NULL}
<1>3. PICK U : U = Usable(g) /\ U = Usable(m)
  <2>1. \A class \in Classes : find_fit(m, class, a) = find_fit(g, class, a)
    BY FindAgrees
  <2>2. Usable(g) = Usable(m)
    BY <2>1
  <2> QED
    BY <2>2
<1>4. CASE size = 0
  <2>1. r = Result(m, brk, NULL) /\ r2 = Result(g, brk, NULL)
    BY <1>4 DEF mm_malloc
  <2> QED
    BY <2>1 DEF SameResult, Result
<1>5. CASE size # 0 /\ U # {}
  <2>1. PICK k : k = Min(U)
    OBVIOUS
  <2>2. k \in U
    <3>1. U \subseteq Nat
      BY <1>3 DEF Classes, class_listp, WSIZE, CLASS_SIZE
    <3> QED
      BY <3>1, <2>1, <1>5, MinNat
  <2>3. PICK b : b = find_fit(g, k, a) /\ b = find_fit(m, k, a)
    BY <2>2, <1>3, FindAgrees
  <2>4. b # NULL /\ k \in Classes
    BY <2>2, <2>3, <1>3
  <2>5. b \in FreeIn(g, brk, S, 0) /\ Size(g, b) >= a
    <3>1. PICK R : Linked(g, FreeIn(g, brk, S, 0), R)
      BY DEF HeapAt
    <3>2. FoundFit(g, FreeIn(g, brk, S, 0), k, a, b)
      BY <3>1, <2>3, <2>4, <1>0, <1>2, FindFits
    <3> QED
      BY <3>2, <2>4 DEF FoundFit
  <2>6. r = PlacedIn(Result(m, brk, b), a) /\ r2 = PlacedIn(Result(g, brk, b), a)
    BY <2>1, <2>3, <1>1, <1>3, <1>5 DEF mm_malloc
  <2>7. r = Result(place(m, b, a), brk, b) /\ r2 = Result(place(g, b, a), brk, b)
    BY <2>4, <2>6 DEF PlacedIn, Result
  <2>8. Agree(place(m, b, a), place(g, b, a))
    BY <2>5, <1>2, PlaceAgrees
  <2> QED
    BY <2>7, <2>8 DEF SameResult, Result
<1>6. CASE size # 0 /\ U = {}
  <2>1. PICK s : s = Growth16(a)
    OBVIOUS
  <2>2. s \in Nat /\ s % 8 = 0 /\ s >= 16 /\ s < 2 ^ SizeBits /\ s >= a
    BY <2>1, <1>2, HeapAssumption DEF Growth16
  <2>3. PICK x : x = extend_heap(m, brk, s)
    OBVIOUS
  <2>4. PICK x2 : x2 = extend_heap(g, brk, s)
    OBVIOUS
  <2>5. x.bp = x2.bp /\ x.brk = x2.brk /\ Agree(x.mem, x2.mem)
    BY <2>2, <2>3, <2>4, ExtendAgrees
  <2>6. r = PlacedIn(x, a) /\ r2 = PlacedIn(x2, a)
    BY <2>1, <2>3, <2>4, <1>1, <1>3, <1>6 DEF mm_malloc, Growth16
  <2>7. CASE x2.bp = NULL
    BY <2>5, <2>6, <2>7 DEF PlacedIn, SameResult
  <2>8. CASE x2.bp # NULL
    <3>1. GrownTo(g, x2, brk, Used(g, brk, S, 0), s)
      BY <2>2, <2>4, Extends
    <3>2. PICK n : n = brk + s /\ Merged(g, x2, n, Used(g, brk, S, 0), s)
      BY <3>1, <2>8 DEF GrownTo, Result
    <3>3. PICK T : /\ HeapAt(x2.mem, n, T, 0, 0) /\ x2.bp \in FreeIn(x2.mem, n, T, 0)
                   /\ Size(x2.mem, x2.bp) >= s
      BY <3>2 DEF Merged, Heaped
    <3>4. Size(x2.mem, x2.bp) >= a
      <4>1. x2.bp \in T \ {n, 0}
        BY <3>3 DEF FreeIn
      <4>2. Size(x2.mem, x2.bp) \in Nat
        BY <4>1, <3>3, Nexts DEF HeapAt
      <4> QED
        BY <4>2, <3>3, <2>2, <1>2
    <3>5. Agree(place(x.mem, x2.bp, a), place(x2.mem, x2.bp, a))
      BY <3>3, <3>4, <2>5, <1>2, PlaceAgrees
    <3>6. r = Result(place(x.mem, x2.bp, a), x2.brk, x2.bp)
          /\ r2 = Result(place(x2.mem, x2.bp, a), x2.brk, x2.bp)
      BY <2>5, <2>6, <2>8 DEF PlacedIn
    <3> QED
      BY <3>5, <3>6 DEF SameResult, Result
  <2> QED
    BY <2>7, <2>8
<1> QED
  BY <1>4, <1>5, <1>6

(* mm_realloc: in place. *)
LEMMA ShrinkAgrees ==
  ASSUME NEW g, NEW brk, NEW S, HeapAt(g, brk, S, 0, 0), NEW b \in Used(g, brk, S, 0),
         NEW a \in Nat, a % 8 = 0, a >= 16, a <= Size(g, b), NEW m, Agree(m, g)
  PROVE  Agree(Shrunk(m, b, a), Shrunk(g, b, a))
<1>0. b \in Nat /\ b \in S /\ b # 0 /\ Size(g, b) \in Nat
  BY UsedWords
<1>1. PICK h \in Nat : h = Size(g, b)
  BY <1>0
<1>2. SameHeader(m, g, b)
  BY <1>0, HeapKnown, HeaderAgrees
<1>3. CASE ~(h - a >= 16)
  <2>1. Shrunk(m, b, a) = m /\ Shrunk(g, b, a) = g
    BY <1>1, <1>2, <1>3 DEF Shrunk, MINBLOCK, SameHeader
  <2> QED
    BY <2>1
<1>4. CASE h - a >= 16
  <2>1. HeapAt(g, brk, S, b, h)
    BY <1>1, OpenUsed
  <2>2. PICK flags \in {1, 3} : /\ flags = ALLOC + PallocFlag(g, b) /\ flags \in 0 .. 3
                                /\ flags = 3 <=> PrevAllocated(g, b)
    BY DEF ALLOC, PallocFlag, PALLOC
  <2>3. flags = ALLOC + PallocFlag(m, b)
    BY <2>2, <1>2 DEF SameHeader
  <2>4. PICK palloc \in {0, 2} : palloc = PALLOC
    BY DEF PALLOC
  <2>5. PICK x \in Nat : x = b + a
    BY <1>0
  <2>6. PICK rest \in Nat : rest = h - a
    BY <1>1, <1>4
  <2>7. PICK g1 : g1 = PutHeader(g, b, a, flags)
    OBVIOUS
  <2>8. PICK m1 : m1 = PutHeader(m, b, a, flags)
    OBVIOUS
  <2>9. Agree(m1, g1)
    BY <2>2, <2>7, <2>8, HeaderPut DEF InStep
  <2>10. PICK g2 : g2 = PutFree(g1, x, rest, palloc)
    OBVIOUS
  <2>11. PICK m2 : m2 = PutFree(m1, x, rest, palloc)
    OBVIOUS
  <2>12. Split(g, g2, brk, S, b, h, a)
    BY <2>1, <2>2, <2>4, <2>5, <2>6, <2>7, <2>10, <1>0, <1>4, HoleSplit
  <2>13. PICK T : HeapAt(g2, brk, T, x, rest) /\ x \in T /\ Size(g2, x) = rest
    BY <2>5, <2>6, <2>12 DEF Split, Cut
  <2>14. Agree(m2, g2)
    <3>1. x - 4 \in Addr
      BY <2>13, HoleWords
    <3> QED
      BY <3>1, <2>9, <2>10, <2>11, FreePut DEF InStep
  <2>15. Shrunk(g, b, a) = mm_free(g2, x)
    BY <2>2, <2>4, <2>5, <2>6, <2>7, <2>10, <1>1, <1>4 DEF Shrunk, MINBLOCK
  <2>16. Shrunk(m, b, a) = mm_free(m2, x)
    BY <2>3, <2>4, <2>5, <2>6, <2>8, <2>11, <1>1, <1>2, <1>4
       DEF Shrunk, MINBLOCK, SameHeader
  <2> QED
    BY <2>13, <2>14, <2>15, <2>16, FreeAgrees
<1> QED
  BY <1>3, <1>4

(* Whether mm_realloc goes down, and where to, is the same in both.        *)
LEMMA PreviousAgrees ==
  ASSUME NEW g, NEW brk, NEW S, HeapAt(g, brk, S, 0, 0), NEW b \in Used(g, brk, S, 0),
         NEW a, NEW m, Agree(m, g)
  PROVE  /\ UsesPrevious(m, b, a) <=> UsesPrevious(g, b, a)
         /\ ~PrevAllocated(g, b) =>
              /\ PREV_BLKP(m, b) = PREV_BLKP(g, b)
              /\ PREV_BLKP(g, b) \in FreeIn(g, brk, S, 0)
              /\ SameHeader(m, g, PREV_BLKP(g, b))
<1>0. b \in S \ {class_listp} /\ b # 0 /\ SameHeader(m, g, b)
  BY UsedWords, HeapKnown, HeaderAgrees DEF Used
<1>1. CASE PrevAllocated(g, b)
  BY <1>0, <1>1 DEF UsesPrevious, SameHeader
<1>2. CASE ~PrevAllocated(g, b)
  <2>1. PICK p : p = PREV_BLKP(g, b)
    OBVIOUS
  <2>2. p \in FreeIn(g, brk, S, 0) /\ NEXT_BLKP(g, p) = b
    BY <2>1, <1>0, <1>2, FreeInFront
  <2>3. LinksKnown(g, p) /\ Known(g, b - 8)
    BY <2>2, HeapKnown
  <2>4. SameHeader(m, g, p)
    BY <2>3, HeaderAgrees DEF LinksKnown
  <2>5. PREV_BLKP(m, b) = p
    BY <2>1, <2>3 DEF Agree, Known, PREV_BLKP, DSIZE
  <2> QED
    BY <2>1, <2>2, <2>4, <2>5, <1>0, <1>2 DEF UsesPrevious, SameHeader
<1> QED
  BY <1>1, <1>2

(* memmove takes along what agrees.                                        *)
LEMMA MoveAgrees ==
  ASSUME NEW g, NEW m, Agree(m, g), NEW to \in Nat, NEW from \in Nat, NEW n \in Nat,
         to % 8 = 0, from % 8 = 0, n % 8 = 0, from + n <= MAX_HEAP
  PROVE  Agree(Move(m, to, from, n), Move(g, to, from, n))
<1>0. m \in Memory /\ g \in Memory
  BY DEF Agree
<1>1. Move(m, to, from, n) \in Memory /\ Move(g, to, from, n) \in Memory
  BY <1>0, Moves DEF Moved
<1>2. ASSUME NEW p \in Addr, Known(Move(g, to, from, n), p)
      PROVE  Move(m, to, from, n)[p] = Move(g, to, from, n)[p]
  <2>1. CASE p \in to .. to + n - 1
    <3>1. PICK q \in Nat : q = from + (p - to)
      BY <2>1
    <3>2. p \in Nat /\ p % 4 = 0 /\ MAX_HEAP \in Nat
      BY AddrIs, HeapAssumption
    <3>3. q % 4 = 0 /\ q < from + n
      BY <3>1, <3>2, <2>1
    <3>4. q + 4 <= MAX_HEAP
      <4>1. (from + n) % 4 = 0 /\ from + n \in Nat
        OBVIOUS
      <4>2. PICK end \in Nat : end = from + n
        BY <4>1
      <4>3. q + 4 <= end
        BY <4>1, <4>2, <3>3
      <4> QED
        BY <4>2, <4>3, <3>2
    <3>5. q \in Addr
      BY <3>3, <3>4, IsAddr
    <3>6. Move(g, to, from, n)[p] = g[q] /\ Move(m, to, from, n)[p] = m[q]
      BY <3>1, <2>1, <1>0 DEF Move, Memory
    <3> QED
      BY <3>5, <3>6, <1>2 DEF Known, Agree
  <2>2. CASE p \notin to .. to + n - 1
    <3>1. Move(g, to, from, n)[p] = g[p] /\ Move(m, to, from, n)[p] = m[p]
      BY <2>2, <1>0 DEF Move, Memory
    <3> QED
      BY <3>1, <1>2 DEF Known, Agree
  <2> QED
    BY <2>1, <2>2
<1> QED
  BY <1>1, <1>2 DEF Agree
-----------------------------------------------------------------------------
(* mm_realloc: into the block in front.                                    *)
LEMMA DownAgrees ==
  ASSUME NEW g, NEW brk, NEW S, HeapAt(g, brk, S, 0, 0), NEW b \in Used(g, brk, S, 0),
         NEW a \in Nat, a % 8 = 0, a >= 16, a > Size(g, b), UsesPrevious(g, b, a),
         NEW m, Agree(m, g)
  PROVE  Agree(MovedDown(m, b, a), MovedDown(g, b, a))
<1>0. /\ b \in Nat /\ b % 8 = 0 /\ b \in S /\ Size(g, b) \in Nat /\ Size(g, b) >= 16
      /\ Size(g, b) % 8 = 0 /\ b + Size(g, b) <= MAX_HEAP
  BY UsedWords
<1>1. PICK p : p = PREV_BLKP(g, b)
  OBVIOUS
<1>2. /\ p \in FreeIn(g, brk, S, 0) /\ NEXT_BLKP(g, p) = b /\ PREV_BLKP(m, b) = p
      /\ SameHeader(m, g, p)
  <2>1. ~PrevAllocated(g, b) /\ b \in S \ {class_listp}
    BY DEF UsesPrevious, Used
  <2> QED
    BY <2>1, <1>1, PreviousAgrees, FreeInFront
<1>3. SameHeader(m, g, b) /\ LinksKnown(g, p) /\ ClassesKnown(g)
  <2>1. b \in S \ {0}
    BY UsedWords
  <2> QED
    BY <2>1, <1>2, HeapKnown, HeaderAgrees
<1>4. p \in S /\ 0 \notin S /\ p \in S \ {brk, 0} /\ Walls(g, brk, S, 0, 0)
  BY <1>2, WallsSay DEF HeapAt, FreeIn
<1>5. p \in Nat /\ p % 8 = 0 /\ Size(g, p) \in Nat /\ Size(g, p) >= 16
  BY <1>4, Nexts, WallsSay
<1>6. PICK u : u = unjoin(g, p)
  OBVIOUS
<1>7. PICK v : v = unjoin(m, p)
  OBVIOUS
<1>8. Agree(v, u)
  BY <1>3, <1>6, <1>7, UnjoinAgrees, StaysKnown
<1>9. PICK s \in Nat : s = Size(g, b)
  BY <1>0
<1>10. PICK h \in Nat : h = s + Size(g, p)
  BY <1>5
<1>11. PICK w : w = Move(u, p, b, s)
  OBVIOUS
<1>12. PICK y : y = Move(v, p, b, s)
  OBVIOUS
<1>13. Agree(y, w)
  BY <1>0, <1>5, <1>8, <1>9, <1>11, <1>12, MoveAgrees
<1>14. PICK flags \in 0 .. 3 : flags = ALLOC + PALLOC
  BY DEF ALLOC, PALLOC
<1>15. Size(m, b) = s /\ Size(m, b) + Size(m, p) = h /\ Size(g, b) + Size(g, p) = h
  BY <1>2, <1>3, <1>9, <1>10 DEF SameHeader
<1>16. CASE h - a >= 16
  <2>1. PICK T : T = S \ {b}
    OBVIOUS
  <2>2. Opened(g, u, brk, S, p, b)
    BY <1>2, <1>6, OpenBoth
  <2>3. HeapAt(u, brk, T, p, h) /\ p \in T /\ SameHeaders(g, u, S)
    <3>1. Size(g, p) + Size(g, b) = h
      BY <1>5, <1>9, <1>10
    <3> QED
      BY <3>1, <2>1, <2>2 DEF Opened
  <2>4. PrevAllocated(u, p)
    <3>1. PrevAllocated(g, p)
      BY <1>2, <1>4, FreeStandsAlone
    <3> QED
      BY <3>1, <2>3, <1>4, HeadersSay
  <2>5. w \in Memory /\ \A q \in Addr : q < p \/ q > p + s - 4 => w[q] = u[q]
    <3>1. Carried(g, u, w, p, b)
      BY <2>2, <1>2, <1>9, <1>11, Carries
    <3> QED
      BY <3>1, <1>9 DEF Carried
  <2>6. PICK x \in Nat : x = p + a
    BY <1>5
  <2>7. PICK rest \in Nat : rest = h - a
    BY <1>16
  <2>8. PICK palloc \in 0 .. 3 : palloc = PALLOC
    BY DEF PALLOC
  <2>9. PICK c : c = PutHeader(w, p, a, flags)
    OBVIOUS
  <2>10. PICK d : d = PutHeader(y, p, a, flags)
    OBVIOUS
  <2>11. Agree(d, c)
    BY <2>9, <2>10, <1>13, HeaderPut, StaysKnown
  <2>12. PICK f : f = PutHeader(c, x, rest, palloc)
    OBVIOUS
  <2>13. PICK e : e = PutHeader(d, x, rest, palloc)
    OBVIOUS
  <2>14. Agree(e, f)
    BY <2>11, <2>12, <2>13, HeaderPut, StaysKnown
  <2>15. Lowered(u, w, f, brk, T, p, h, a)
    <3>1. f = PutHeader(PutHeader(w, p, a, flags), p + a, h - a, PALLOC)
      BY <2>6, <2>7, <2>8, <2>9, <2>12
    <3>2. s < a
      BY <1>9
    <3> QED
      BY <3>1, <3>2, <2>3, <2>4, <2>5, <1>14, <1>16, HoleLowered
  <2>16. PICK V : HeapAt(f, brk, V, x, rest) /\ x \in V /\ Size(f, x) = rest
    BY <2>6, <2>7, <2>15 DEF Lowered, Cut
  <2>17. MovedDown(g, b, a) = mm_free(f, x)
    BY <2>6, <2>7, <2>8, <2>9, <2>12, <1>1, <1>6, <1>9, <1>11, <1>14, <1>15, <1>16
       DEF MovedDown, MINBLOCK
  <2>18. MovedDown(m, b, a) = mm_free(e, x)
    BY <2>6, <2>7, <2>8, <2>10, <2>13, <1>2, <1>7, <1>12, <1>14, <1>15, <1>16
       DEF MovedDown, MINBLOCK
  <2> QED
    BY <2>14, <2>16, <2>17, <2>18, FreeAgrees
<1>17. CASE ~(h - a >= 16)
  <2>1. MovedDown(g, b, a) = PutHeader(w, p, h, flags)
    BY <1>1, <1>6, <1>9, <1>11, <1>14, <1>15, <1>17 DEF MovedDown, MINBLOCK
  <2>2. MovedDown(m, b, a) = PutHeader(y, p, h, flags)
    BY <1>2, <1>7, <1>12, <1>14, <1>15, <1>17 DEF MovedDown, MINBLOCK
  <2> QED
    BY <2>1, <2>2, <1>13, HeaderPut, StaysKnown
<1> QED
  BY <1>16, <1>17

(* mm_realloc.                                                             *)
LEMMA ReallocAgrees ==
  ASSUME NEW g, NEW brk, NEW S, HeapAt(g, brk, S, 0, 0), NEW b \in Used(g, brk, S, 0),
         NEW size, Fitting(size), size # 0, NEW m, Agree(m, g),
         NEW r, r = mm_realloc(m, brk, b, size), NEW r2, r2 = mm_realloc(g, brk, b, size)
  PROVE  SameResult(r, r2)
<1>0. /\ b \in Nat /\ b % 8 = 0 /\ b \in S /\ b # 0 /\ Size(g, b) \in Nat
      /\ Size(g, b) % 8 = 0 /\ b + Size(g, b) <= MAX_HEAP /\ Size(g, b) >= 16
  BY UsedWords
<1>1. PICK a : a = ADJUST(size)
  OBVIOUS
<1>2. a \in Nat /\ a % 8 = 0 /\ a >= 16
  BY <1>1, AdjustIs
<1>3. PICK s \in Nat : s = Size(g, b) /\ s = Size(m, b)
  BY <1>0, HeapKnown, HeaderAgrees DEF SameHeader
<1>4. CASE a <= s
  <2>1. r = Result(Shrunk(m, b, a), brk, b) /\ r2 = Result(Shrunk(g, b, a), brk, b)
    BY <1>1, <1>3, <1>4 DEF mm_realloc
  <2>2. Agree(Shrunk(m, b, a), Shrunk(g, b, a))
    BY <1>2, <1>3, <1>4, ShrinkAgrees
  <2> QED
    BY <2>1, <2>2 DEF SameResult, Result
<1>5. CASE a > s /\ UsesPrevious(g, b, a)
  <2>1. UsesPrevious(m, b, a) /\ PREV_BLKP(m, b) = PREV_BLKP(g, b)
    BY <1>5, PreviousAgrees DEF UsesPrevious
  <2>2. /\ r = Result(MovedDown(m, b, a), brk, PREV_BLKP(g, b))
        /\ r2 = Result(MovedDown(g, b, a), brk, PREV_BLKP(g, b))
    <3>1. ~(a <= s)
      BY <1>2, <1>5
    <3> QED
      BY <3>1, <2>1, <1>1, <1>3, <1>5 DEF mm_realloc
  <2>3. Agree(MovedDown(m, b, a), MovedDown(g, b, a))
    BY <1>2, <1>3, <1>5, DownAgrees
  <2> QED
    BY <2>2, <2>3 DEF SameResult, Result
<1>6. CASE a > s /\ ~UsesPrevious(g, b, a)
  <2>1. PICK n : n = mm_malloc(m, brk, size)
    OBVIOUS
  <2>2. PICK n2 : n2 = mm_malloc(g, brk, size)
    OBVIOUS
  <2>3. SameResult(n, n2)
    BY <2>1, <2>2, MallocAgrees
  <2>4. r = MovedTo(n, b, s) /\ r2 = MovedTo(n2, b, s)
    <3>1. ~(a <= s) /\ ~UsesPrevious(m, b, a)
      BY <1>2, <1>6, PreviousAgrees
    <3> QED
      BY <3>1, <2>1, <2>2, <1>1, <1>3, <1>6 DEF mm_realloc
  <2>5. CASE n2.bp = NULL
    BY <2>3, <2>4, <2>5 DEF MovedTo, SameResult
  <2>6. CASE n2.bp # NULL
    <3>1. PICK bp : bp = n2.bp
      OBVIOUS
    <3>2. PICK w : w = Move(n2.mem, bp, b, s)
      OBVIOUS
    <3>3. PICK y : y = Move(n.mem, bp, b, s)
      OBVIOUS
    <3>4. r = Result(mm_free(y, b), n2.brk, bp) /\ r2 = Result(mm_free(w, b), n2.brk, bp)
      BY <3>1, <3>2, <3>3, <2>3, <2>4, <2>6 DEF MovedTo, SameResult
    <3>5. PICK A : A = Used(g, brk, S, 0)
      OBVIOUS
    <3>6. PlacedAt(g, n2.mem, n2.brk, A, bp, a)
      <4>1. Malloced(g, n2, brk, S, size)
        BY <2>2, Mallocs
      <4> QED
        BY <4>1, <3>1, <3>5, <2>6, <1>1 DEF Malloced
    <3>7. PICK end : end = n2.brk
      OBVIOUS
    <3>8. PICK T : /\ HeapAt(n2.mem, end, T, 0, 0) /\ Used(n2.mem, end, T, 0) = A \cup {bp}
                   /\ bp \notin A /\ Size(n2.mem, bp) >= a
      BY <3>6, <3>7 DEF PlacedAt
    <3>9. /\ bp \in Used(n2.mem, end, T, 0) /\ bp \in Nat /\ bp % 8 = 0
          /\ Size(n2.mem, bp) \in Nat /\ Size(n2.mem, bp) % 8 = 0
      <4>1. bp \in Used(n2.mem, end, T, 0)
        BY <3>8
      <4> QED
        BY <4>1, <3>8, UsedWords
    <3>10. PICK t \in Nat : t = Size(n2.mem, bp)
      BY <3>9
    <3>11. t >= s + 8
      BY <3>8, <3>9, <3>10, <1>0, <1>2, <1>3, <1>6
    <3>12. Agree(y, w)
      <4>1. Agree(n.mem, n2.mem)
        BY <2>3 DEF SameResult
      <4> QED
        BY <4>1, <3>2, <3>3, <3>9, <1>0, <1>3, MoveAgrees
    <3>13. Unseen(n2.mem, w, end, T, bp)
      <4>1. n2.mem \in Memory
        BY <2>3 DEF SameResult, Agree
      <4>2. Moved(n2.mem, w, bp, b, s)
        BY <4>1, <3>2, <3>9, <1>0, <1>3, Moves
      <4>3. \A q \in Addr : q < bp \/ q > bp + t - 8 => w[q] = n2.mem[q]
        <5>1. \A q \in Addr : q < bp \/ q > bp + t - 8 => q < bp \/ q > bp + s - 4
          BY <3>9, <3>11, AddrIs
        <5> QED
          BY <5>1, <4>2 DEF Moved
      <4>4. w \in Memory
        BY <4>2 DEF Moved
      <4> QED
        BY <4>3, <4>4, <3>8, <3>9, <3>10, PayloadWritten
    <3>14. HeapAt(w, end, T, 0, 0) /\ b \in Used(w, end, T, 0)
      BY <3>5, <3>8, <3>13 DEF Unseen
    <3>15. HeapAt(w, end, T, b, Size(w, b)) /\ b \in T
      BY <3>14, OpenUsed, UsedWords
    <3>16. Agree(mm_free(y, b), mm_free(w, b))
      BY <3>12, <3>15, FreeAgrees
    <3> QED
      BY <3>4, <3>16 DEF SameResult, Result
  <2> QED
    BY <2>5, <2>6
<1> QED
  BY <1>2, <1>3, <1>4, <1>5, <1>6
-----------------------------------------------------------------------------
(* 22. A trace that is played again.                                       *)

(* Where the heaps agree, the blocks are the same, and so is what is       *)
(* erased.                                                                 *)
LEMMA ErasedAgrees ==
  ASSUME NEW g, NEW brk, NEW S, HeapAt(g, brk, S, 0, 0), NEW held, NEW m, Agree(m, g)
  PROVE  Agree(Erased(m, brk, held), Erased(g, brk, held))
<1>0. /\ Walls(g, brk, S, 0, 0) /\ m \in Memory /\ g \in Memory /\ DOMAIN m = Addr
      /\ DOMAIN g = Addr /\ 0 \notin S
  BY WallsSay DEF HeapAt, Agree, Memory
<1>1. \A b \in S : SameHeader(m, g, b)
  BY <1>0, HeapKnown, HeaderAgrees
<1>2. ClassesKnown(g) /\ \A b \in FreeIn(g, brk, S, 0) :
                             LinksKnown(g, b) /\ Known(g, NEXT_BLKP(g, b) - 8)
  BY HeapKnown
<1>3. HeapAt(m, brk, S, 0, 0)
  <2>1. m[12] = g[12]
    <3>1. 12 \in Addr /\ g[12] = 27
      BY <1>0, BlockWords DEF Walls
    <3> QED
      BY <3>1 DEF Agree, Known
  <2>2. \A k \in Classes : m[k] = g[k]
    BY <1>2 DEF Agree, Known, ClassesKnown
  <2>3. \A b \in FreeIn(g, brk, S, 0) :
            /\ Pred(m, b) = Pred(g, b) /\ Succ(m, b) = Succ(g, b)
            /\ m[NEXT_BLKP(g, b) - DSIZE] = g[NEXT_BLKP(g, b) - DSIZE]
    BY <1>2 DEF Agree, Known, LinksKnown, Pred, Succ, WSIZE, DSIZE
  <2>4. \A b \in S : /\ Size(m, b) = Size(g, b)
                     /\ Allocated(m, b) <=> Allocated(g, b)
                     /\ PrevAllocated(m, b) <=> PrevAllocated(g, b)
    BY <1>1 DEF SameHeader
  <2> QED
    BY <2>1, <2>2, <2>3, <2>4, <1>0, HeapSeen
<1>4. Heap(m, brk) = S /\ Heap(g, brk) = S
  BY <1>3, SoundHeap
<1> DEFINE blocks == S \ {brk}
           free(x) == {bp \in blocks : ~Allocated(x, bp)}
           tags(x) == {bp - WSIZE : bp \in blocks \cup {brk}}
                      \cup UNION {{bp, bp + WSIZE, NEXT_BLKP(x, bp) - DSIZE} : bp \in free(x)}
           data == UNION {{held[id].bp + WSIZE * k : k \in 0 .. Words(held[id].size) - 1} :
                            id \in Ids}
<1>5. free(m) = free(g)
  BY <1>1 DEF SameHeader
<1>6. tags(m) = tags(g)
  <2>1. \A bp \in free(g) : NEXT_BLKP(m, bp) = NEXT_BLKP(g, bp)
    BY <1>1 DEF SameHeader
  <2> HIDE DEF free
  <2>2. \A bp \in free(g) : {bp, bp + WSIZE, NEXT_BLKP(m, bp) - DSIZE}
                              = {bp, bp + WSIZE, NEXT_BLKP(g, bp) - DSIZE}
    BY <2>1
  <2>3. UNION {{bp, bp + WSIZE, NEXT_BLKP(m, bp) - DSIZE} : bp \in free(m)}
          = UNION {{bp, bp + WSIZE, NEXT_BLKP(g, bp) - DSIZE} : bp \in free(g)}
    BY <2>2, <1>5
  <2> QED
    BY <2>3
<1>7. PICK K : K = tags(g) \cup data
  OBVIOUS
<1>8. Erased(m, brk, held) = [p \in Addr |-> IF p < 40 \/ p >= brk \/ p \in K THEN m[p]
                                             ELSE Garbage]
  <2>1. Erased(m, brk, held) = [p \in DOMAIN m |->
             IF p < 40 \/ p >= brk \/ p \in tags(m) \cup data THEN m[p] ELSE Garbage]
    BY <1>4 DEF Erased, BlocksOf
  <2> HIDE DEF tags, data
  <2> QED
    BY <2>1, <1>0, <1>6, <1>7
<1>9. Erased(g, brk, held) = [p \in Addr |-> IF p < 40 \/ p >= brk \/ p \in K THEN g[p]
                                             ELSE Garbage]
  <2>1. Erased(g, brk, held) = [p \in DOMAIN g |->
             IF p < 40 \/ p >= brk \/ p \in tags(g) \cup data THEN g[p] ELSE Garbage]
    BY <1>4 DEF Erased, BlocksOf
  <2> HIDE DEF tags, data
  <2> QED
    BY <2>1, <1>0, <1>7
<1>10. Erased(m, brk, held) \in Memory /\ Erased(g, brk, held) \in Memory
  BY <1>0, ErasedIs
<1>11. ASSUME NEW p \in Addr, Known(Erased(g, brk, held), p)
       PROVE  Erased(m, brk, held)[p] = Erased(g, brk, held)[p]
  <2>1. CASE p < 40 \/ p >= brk \/ p \in K
    BY <2>1, <1>8, <1>9, <1>11 DEF Agree, Known
  <2>2. CASE ~(p < 40 \/ p >= brk \/ p \in K)
    BY <2>2, <1>8, <1>9
  <2> QED
    BY <2>1, <2>2
<1> QED
  BY <1>10, <1>11 DEF Agree

(* Data is nothing that is known.                                          *)
LEMMA FillAgrees ==
  ASSUME NEW m, NEW g, Agree(m, g), NEW id \in Ids, NEW b \in Nat, NEW size \in Nat,
         NEW f, f = Fill(g, id, b, 0, size), f \in Memory
  PROVE  Agree(m, f)
<1>0. m \in Memory /\ g \in Memory /\ DOMAIN g = Addr /\ id \in Nat /\ id >= 1
  BY HeapAssumption DEF Agree, Memory, Ids
<1>1. ASSUME NEW p \in Addr, Known(f, p) PROVE m[p] = f[p]
  <2>1. CASE \E k \in 0 .. Words(size) - 1 : p = b + WSIZE * k
    <3>1. PICK k \in 0 .. Words(size) - 1 : p = b + WSIZE * k
      BY <2>1
    <3>2. k \in Nat /\ (p - b) \div WSIZE = k
      BY <3>1, WordsAre DEF WSIZE
    <3>3. f[p] = Data(id, k)
      BY <2>1, <3>2, <1>0 DEF Fill
    <3>4. Data(id, k) \notin Nat
      BY <3>2, <1>0 DEF Data
    <3> QED
      BY <3>3, <3>4, <1>1 DEF Known
  <2>2. CASE ~\E k \in 0 .. Words(size) - 1 : p = b + WSIZE * k
    <3>1. f[p] = g[p]
      BY <2>2, <1>0 DEF Fill
    <3> QED
      BY <3>1, <1>1 DEF Agree, Known
  <2> QED
    BY <2>1, <2>2
<1> QED
  BY <1>0, <1>1 DEF Agree

(* mm_init writes all of the words that mem_reset_brk leaves: every play   *)
(* begins with the same heap.                                              *)
Fresh == mm_init([p \in Addr |-> Garbage])
FreshMem == [p \in Addr |-> IF p < Fresh.brk THEN Erased(Fresh.mem, Fresh.brk, None)[p]
                            ELSE Garbage]

(* What was erased before makes no difference.                             *)
LEMMA RestartsAlike ==
  ASSUME mem \in Memory, Restart
  PROVE  mem' = FreshMem /\ mem_brk' = Fresh.brk /\ live' = None
<1>0. DOMAIN mem = Addr
  BY DEF Memory
<1>1. PICK z : z = mem_reset_brk
  OBVIOUS
<1>2. z = [p \in Addr |-> IF p < 40 THEN mem[p] ELSE Garbage]
  BY <1>0, <1>1 DEF mem_reset_brk
<1>3. PICK y : y = [p \in Addr |-> Garbage]
  OBVIOUS
<1> DEFINE cleared(x) == [p \in Addr |-> IF p = 0 \/ p \in Classes THEN 0 ELSE x[p]]
           start(x) == [cleared(x) EXCEPT ![4] = DSIZE + ALLOC, ![8] = DSIZE + ALLOC,
                                 ![12] = (CLASS_SIZE + 1) * WSIZE + ALLOC + PALLOC,
                                 ![36] = ALLOC + PALLOC]
<1>4. start(z) = start(y)
  <2>1. \A p \in Addr : p < 40 => p \in {0, 4, 8, 12, 36} \/ p \in Classes
    <3>1. Classes = {16, 20, 24, 28, 32}
      BY DEF Classes, class_listp, WSIZE, CLASS_SIZE
    <3> SUFFICES ASSUME NEW p \in Addr, p < 40
                 PROVE  p \in {0, 4, 8, 12, 36} \/ p \in {16, 20, 24, 28, 32}
      BY <3>1
    <3>2. p \in Nat /\ p % 4 = 0
      BY AddrIs
    <3> QED
      BY <3>2
  <2>2. \A p \in Addr : p \notin {4, 8, 12, 36} => cleared(z)[p] = cleared(y)[p]
    BY <2>1, <1>2, <1>3
  <2>3. cleared(z) \in [Addr -> Int] /\ cleared(y) \in [Addr -> Int]
    BY <1>0, <1>2, <1>3 DEF Memory, Garbage
  <2> HIDE DEF cleared
  <2>4. \A p \in Addr : start(z)[p] = start(y)[p]
    BY <2>2, <2>3
  <2>5. DOMAIN start(z) = Addr /\ DOMAIN start(y) = Addr
    BY <2>3
  <2> QED
    BY <2>3, <2>4, <2>5
<1>5. mm_init(z) = extend_heap(start(z), 40, CHUNKSIZE)
  BY <1>2 DEF mm_init
<1>6. Fresh = extend_heap(start(y), 40, CHUNKSIZE)
  BY <1>3 DEF mm_init, Fresh
<1> HIDE DEF start
<1>7. mm_init(z) = Fresh
  BY <1>4, <1>5, <1>6
<1> QED
  BY <1>0, <1>1, <1>7 DEF Restart, Restarts, FreshMem, None
-----------------------------------------------------------------------------
(* What the first play records of the heap: its state after each request.  *)
CalledOn(g, r) ==
    LET bp == g.live[r.id].bp IN
    CASE r.type = "ALLOC" -> mm_malloc(g.mem, g.brk, r.size)
      [] r.type = "REALLOC" /\ r.size > 0 -> mm_realloc(g.mem, g.brk, bp, r.size)
      [] r.type = "REALLOC" /\ r.size = 0 -> Result(mm_free(g.mem, bp), g.brk, NULL)
      [] r.type = "FREE" -> Result(mm_free(g.mem, bp), g.brk, bp)
HasThen(held, r, result) ==
    IF r.type = "FREE" \/ (r.type = "REALLOC" /\ r.size = 0)
    THEN [held EXCEPT ![r.id] = Nothing]
    ELSE IF result.bp = NULL THEN held
    ELSE [held EXCEPT ![r.id] = [bp |-> result.bp, size |-> r.size]]
FilledWith(r, result) ==
    IF r.type = "FREE" THEN result.mem ELSE Fill(result.mem, r.id, result.bp, 0, r.size)
Follows(g, e, g2) ==
    LET result == CalledOn(g, e.request)
        now == HasThen(g.live, e.request, result)
        m == FilledWith(e.request, result)
    IN  /\ ~Failed(e.request, result) /\ e.bp = result.bp
        /\ g2.mem = Erased(m, result.brk, now) /\ g2.brk = result.brk /\ g2.live = now
        /\ HeapHolds(m, result.brk, now) /\ result.bp \in Nat
Recorded(tr, G) ==
    /\ G[0].mem = FreshMem /\ G[0].brk = Fresh.brk /\ G[0].live = None
    /\ \A n \in 0 .. Len(tr) : HeapHolds(G[n].mem, G[n].brk, G[n].live)
    /\ \A n \in 1 .. Len(tr) : Follows(G[n - 1], tr[n], G[n])

(* A call agrees with the one that was recorded.                           *)
LEMMA CallAgrees ==
  ASSUME SizesFit, NEW g, HeapHolds(g.mem, g.brk, g.live), Agree(mem, g.mem),
         mem_brk = g.brk, live = g.live, NEW r, Allowed(r)
  PROVE  SameResult(Called(r), CalledOn(g, r))
<1>1. PICK brk : brk = g.brk
  OBVIOUS
<1>2. PICK n : n = g.mem
  OBVIOUS
<1>3. PICK S : S = Heap(n, brk)
  OBVIOUS
<1>4. HeapAt(n, brk, S, 0, 0) /\ LiveIn(n, brk, S, live) /\ Agree(mem, n)
  BY <1>1, <1>2, <1>3 DEF HeapHolds, Sound
<1>5. PICK b : b = live[r.id].bp
  OBVIOUS
<1>6. live[r.id] # Nothing => b \in Used(n, brk, S, 0)
  BY <1>4, <1>5 DEF LiveIn, Allowed
<1>7. CASE r.type = "ALLOC" /\ r.size \in Sizes
  <2>1. PICK x : x = mm_malloc(mem, brk, r.size)
    OBVIOUS
  <2>2. PICK x2 : x2 = mm_malloc(n, brk, r.size)
    OBVIOUS
  <2>3. Called(r) = x /\ CalledOn(g, r) = x2
    BY <2>1, <2>2, <1>1, <1>2, <1>7 DEF Called, CalledOn
  <2>4. Fitting(r.size)
    BY <1>7 DEF SizesFit
  <2> QED
    BY <2>1, <2>2, <2>3, <2>4, <1>4, MallocAgrees
<1>8. CASE r.type = "REALLOC" /\ live[r.id] # Nothing /\ r.size \in Sizes /\ r.size # 0
  <2>1. PICK x : x = mm_realloc(mem, brk, b, r.size)
    OBVIOUS
  <2>2. PICK x2 : x2 = mm_realloc(n, brk, b, r.size)
    OBVIOUS
  <2>3. Fitting(r.size) /\ r.size > 0
    BY <1>8 DEF SizesFit, Fitting
  <2>4. Called(r) = x /\ CalledOn(g, r) = x2
    BY <2>1, <2>2, <2>3, <1>1, <1>2, <1>5, <1>8 DEF Called, CalledOn
  <2> QED
    BY <2>1, <2>2, <2>3, <2>4, <1>4, <1>6, <1>8, ReallocAgrees
<1>9. CASE /\ live[r.id] # Nothing
           /\ (r.type = "REALLOC" /\ r.size \in Sizes /\ r.size = 0) \/ r.type = "FREE"
  <2>1. b \in Used(n, brk, S, 0) /\ b \in S
    BY <1>6, <1>9 DEF Used
  <2>2. HeapAt(n, brk, S, b, Size(n, b))
    BY <2>1, <1>4, OpenUsed
  <2>3. PICK h : h = Size(n, b)
    OBVIOUS
  <2>4. Agree(mm_free(mem, b), mm_free(n, b))
    BY <2>1, <2>2, <2>3, <1>4, FreeAgrees
  <2>5. PICK bp : bp = IF r.type = "FREE" THEN b ELSE NULL
    OBVIOUS
  <2>6. Called(r) = Result(mm_free(mem, b), brk, bp)
    BY <2>5, <1>1, <1>5, <1>9 DEF Called
  <2>7. CalledOn(g, r) = Result(mm_free(n, b), brk, bp)
    BY <2>5, <1>1, <1>2, <1>5, <1>9 DEF CalledOn
  <2> QED
    BY <2>4, <2>6, <2>7 DEF SameResult, Result
<1> QED
  BY <1>7, <1>8, <1>9 DEF Allowed

(* So a request that is played again gives what it gave, and leaves what   *)
(* agrees with what it left.                                               *)
LEMMA PlayAgrees ==
  ASSUME SizesFit, NEW g, HeapHolds(g.mem, g.brk, g.live), Agree(mem, g.mem),
         mem_brk = g.brk, live = g.live, NEW r, Allowed(r),
         NEW bp, NEW g2, Follows(g, [request |-> r, bp |-> bp], g2),
         NEW result, result = Called(r)
  PROVE  /\ ~Failed(r, result) /\ result.bp = bp /\ result.brk = g2.brk
         /\ Has(r, result) = g2.live
         /\ Agree(Erased(result.mem, result.brk, Has(r, result)), g2.mem)
<1>1. PICK x : x = CalledOn(g, r)
  OBVIOUS
<1>2. PICK now : now = HasThen(g.live, r, x)
  OBVIOUS
<1>3. PICK f : f = FilledWith(r, x)
  OBVIOUS
<1>4. /\ ~Failed(r, x) /\ bp = x.bp /\ g2.mem = Erased(f, x.brk, now)
      /\ g2.brk = x.brk /\ g2.live = now /\ HeapHolds(f, x.brk, now) /\ x.bp \in Nat
  BY <1>1, <1>2, <1>3 DEF Follows
<1>5. result.bp = x.bp /\ result.brk = x.brk /\ Agree(result.mem, x.mem)
  <2>1. SameResult(result, x)
    BY <1>1, CallAgrees
  <2> QED
    BY <2>1 DEF SameResult
<1>6. ~Failed(r, result) /\ Has(r, result) = now
  BY <1>2, <1>4, <1>5 DEF Failed, Has, HasThen
<1>7. PICK S : S = Heap(f, x.brk) /\ HeapAt(f, x.brk, S, 0, 0) /\ f \in Memory
  BY <1>4 DEF HeapHolds, Sound, HeapAt, Walls
<1>8. Agree(result.mem, f)
  <2>1. CASE r.type = "FREE"
    BY <2>1, <1>3, <1>5 DEF FilledWith
  <2>2. CASE r.type # "FREE"
    <3>1. f = Fill(x.mem, r.id, x.bp, 0, r.size)
      BY <2>2, <1>3 DEF FilledWith
    <3>2. r.id \in Ids /\ r.size \in Nat
      BY DEF Allowed, SizesFit, Fitting
    <3> QED
      BY <3>1, <3>2, <1>4, <1>5, <1>7, FillAgrees
  <2> QED
    BY <2>1, <2>2
<1>9. Agree(Erased(result.mem, x.brk, now), Erased(f, x.brk, now))
  BY <1>7, <1>8, ErasedAgrees
<1> QED
  BY <1>4, <1>5, <1>6, <1>9
-----------------------------------------------------------------------------
(* The invariant: the first play is recorded, and every other play agrees  *)
(* with the record.                                                        *)
PlayedAs(g, m, brk, held) == brk = g.brk /\ held = g.live /\ Agree(m, g.mem)
PlayedSince(tr, n, m, brk, held, first) ==
    \E G : Recorded(tr, G) /\ PlayedAs(G[n], m, brk, held) /\ (first => m = G[n].mem)
PlayInv ==
    phase \in {"valid", "util", "speed"} =>
        PlayedSince(trace, op, mem, mem_brk, live, phase = "valid")

(* A memory agrees with itself.                                            *)
LEMMA AgreesWithItself == \A m \in Memory : Agree(m, m)
BY DEF Agree

(* A record that is empty.                                                 *)
LEMMA RecordStarts ==
  ASSUME HeapHolds(mem', mem_brk', live'), mem' = FreshMem, mem_brk' = Fresh.brk, live' = None,
         NEW tr, Len(tr) = 0
  PROVE  \E G : /\ Recorded(tr, G) /\ G[0].mem = mem' /\ G[0].brk = mem_brk' /\ G[0].live = live'
<1>1. PICK s : s = [mem |-> mem', brk |-> mem_brk', live |-> live']
  OBVIOUS
<1>2. s.mem = mem' /\ s.brk = mem_brk' /\ s.live = live'
  BY <1>1
<1>3. PICK G : G = [n \in {0} |-> s]
  OBVIOUS
<1>4. G[0] = s
  BY <1>3
<1>5. 0 .. Len(tr) = {0} /\ 1 .. Len(tr) = {}
  OBVIOUS
<1>6. Recorded(tr, G)
  BY <1>2, <1>4, <1>5 DEF Recorded
<1> QED
  BY <1>2, <1>4, <1>6

(* A record gets longer. *)
LEMMA RecordGrows ==
  ASSUME NEW tr, tr \in Seq(Entry), NEW G, Recorded(tr, G), NEW e \in Entry, NEW s,
         HeapHolds(s.mem, s.brk, s.live), Follows(G[Len(tr)], e, s)
  PROVE  \E F : Recorded(Append(tr, e), F) /\ F[Len(tr) + 1] = s
<1>1. PICK l \in Nat : l = Len(tr)
  OBVIOUS
<1>2. PICK tr2 : tr2 = Append(tr, e)
  OBVIOUS
<1>3. Len(tr2) = l + 1 /\ tr2[l + 1] = e /\ \A n \in 1 .. l : tr2[n] = tr[n]
  BY <1>1, <1>2
<1>4. PICK F : F = [n \in 0 .. l + 1 |-> IF n = l + 1 THEN s ELSE G[n]]
  OBVIOUS
<1>5. F[l + 1] = s /\ \A n \in 0 .. l : F[n] = G[n]
  BY <1>4
<1>6. F[0] = G[0]
  BY <1>5
<1>7. \A n \in 0 .. l + 1 : HeapHolds(F[n].mem, F[n].brk, F[n].live)
  <2> SUFFICES ASSUME NEW n \in 0 .. l + 1 PROVE HeapHolds(F[n].mem, F[n].brk, F[n].live)
    OBVIOUS
  <2>1. n = l + 1 \/ n \in 0 .. l
    OBVIOUS
  <2> QED
    BY <2>1, <1>1, <1>5 DEF Recorded
<1>8. \A n \in 1 .. l + 1 : Follows(F[n - 1], tr2[n], F[n])
  <2> SUFFICES ASSUME NEW n \in 1 .. l + 1 PROVE Follows(F[n - 1], tr2[n], F[n])
    OBVIOUS
  <2>1. CASE n = l + 1
    <3>1. n - 1 = l /\ F[n - 1] = G[l]
      BY <2>1, <1>5
    <3> QED
      BY <3>1, <2>1, <1>1, <1>3, <1>5
  <2>2. CASE n # l + 1
    <3>1. n \in 1 .. l /\ n - 1 \in 0 .. l /\ n \in 0 .. l
      BY <2>2
    <3>2. F[n - 1] = G[n - 1] /\ F[n] = G[n] /\ tr2[n] = tr[n]
      BY <3>1, <1>3, <1>5
    <3>3. Follows(G[n - 1], tr[n], G[n])
      BY <3>1, <1>1 DEF Recorded
    <3> QED
      BY <3>2, <3>3
  <2> QED
    BY <2>1, <2>2
<1>9. Recorded(tr2, F)
  BY <1>3, <1>6, <1>7, <1>8 DEF Recorded
<1> QED
  BY <1>1, <1>2, <1>5, <1>9
-----------------------------------------------------------------------------
(* A request that is checked is recorded.                                  *)
LEMMA CheckRecords ==
  ASSUME SizesFit, DriverInv, PlayInv, NEW r \in Requests, CheckRequest(r)
  PROVE  PlayInv'
<1>0. /\ HeapHolds(mem, mem_brk, live) /\ Allowed(r) /\ trace \in Seq(Entry)
      /\ Len(trace) \in Nat /\ live \in [Ids -> [bp : Nat, size : Nat]]
  BY RequestAllowed DEF DriverInv, HeapHolds, LiveIn
<1>1. PICK result : result = Called(r)
  OBVIOUS
<1>2. Answered(r, result) /\ Check(r, result)
  BY <1>0, <1>1, Answers DEF CheckRequest
<1>3. /\ phase = "valid" /\ trace' = Append(trace, [request |-> r, bp |-> result.bp])
      /\ Accused(r, result) => ChecksBad(r, result)
      /\ ~Accused(r, result) => ChecksGood(r, result)
  BY <1>0, <1>2, CheckIs
<1>4. CASE Accused(r, result)
  BY <1>3, <1>4 DEF ChecksBad, PlayInv
<1>5. CASE ~Accused(r, result)
  <2>0. ~Failed(r, result)
    BY <1>5 DEF Accused
  <2>1. PICK G : Recorded(trace, G) /\ PlayedAs(G[op], mem, mem_brk, live) /\ mem = G[op].mem
    BY <1>3 DEF PlayInv, PlayedSince
  <2>2. PICK l \in Nat : l = op /\ l = Len(trace)
    BY <1>0, <1>3 DEF DriverInv
  <2>3. PICK g : g = G[l] /\ g.mem = mem /\ g.brk = mem_brk /\ g.live = live
    BY <2>1, <2>2 DEF PlayedAs
  <2>4. PICK e \in Entry : e = [request |-> r, bp |-> result.bp]
    BY <1>2, RequestAllowed DEF Entry, Answered
  <2>5. e.request = r /\ e.bp = result.bp
    BY <2>4
  <2>6. CalledOn(g, r) = result /\ HasThen(g.live, r, result) = Has(r, result)
    BY <2>3, <1>1 DEF CalledOn, Called, HasThen, Has
  <2>7. PICK now : now = Has(r, result)
    OBVIOUS
  <2>8. PICK f : f = FilledWith(r, result)
    OBVIOUS
  <2>9. HeapHolds(f, result.brk, now) /\ result.bp \in Nat
    <3>1. HeapHolds(result.mem, result.brk, now) /\ result.bp \in Nat
      BY <2>7, <1>2 DEF Answered
    <3>2. CASE r.type = "FREE"
      BY <3>1, <3>2, <2>8 DEF FilledWith
    <3>3. CASE r.type # "FREE"
      <4>1. now = Holding(live, r.id, result.bp, r.size) /\ result.bp # NULL
        BY <3>3, <2>7, <1>2, <2>0 DEF Answered, Failed
      <4>2. now[r.id] = [bp |-> result.bp, size |-> r.size] /\ r.id \in Ids
        BY <4>1, <1>0 DEF Holding, Allowed
      <4>3. now[r.id].bp = result.bp /\ now[r.id].size = r.size /\ now[r.id] # Nothing
        BY <4>1, <4>2 DEF Nothing
      <4>4. f = Fill(result.mem, r.id, now[r.id].bp, 0, now[r.id].size)
        BY <4>3, <3>3, <2>8 DEF FilledWith
      <4>5. PICK first \in Nat : first = 0
        OBVIOUS
      <4> QED
        BY <4>2, <4>3, <4>4, <4>5, <3>1, FillHeld
    <3> QED
      BY <3>2, <3>3
  <2>10. /\ mem' = Erased(f, result.brk, now) /\ mem_brk' = result.brk /\ live' = now
         /\ phase' = "valid" /\ op' = l + 1
    BY <2>2, <2>7, <2>8, <1>3, <1>5 DEF ChecksGood, FilledWith
  <2>11. PICK s : s = [mem |-> mem', brk |-> mem_brk', live |-> live']
    OBVIOUS
  <2>12. s.mem = mem' /\ s.brk = mem_brk' /\ s.live = live'
    BY <2>11
  <2>13. HeapHolds(s.mem, s.brk, s.live)
    BY <2>12, <1>0, <1>2, <1>3, <1>5, <2>0, GoodIsFilled
  <2>14. Follows(g, e, s)
    BY <2>5, <2>6, <2>7, <2>8, <2>9, <2>10, <2>12, <2>0 DEF Follows
  <2>15. PICK F : Recorded(trace', F) /\ F[l + 1] = s
    <3>1. trace' = Append(trace, e)
      BY <2>4, <1>3
    <3> QED
      BY <3>1, <2>1, <2>2, <2>3, <2>13, <2>14, <1>0, RecordGrows
  <2>16. mem' \in Memory
    BY <2>12, <2>13 DEF HeapHolds, Sound, HeapAt, Walls
  <2>17. PlayedAs(F[op'], mem', mem_brk', live') /\ mem' = F[op'].mem
    BY <2>10, <2>12, <2>15, <2>16, AgreesWithItself DEF PlayedAs
  <2> QED
    BY <2>15, <2>17 DEF PlayInv, PlayedSince
<1> QED
  BY <1>4, <1>5

(* A new play begins as the recorded one did.                              *)
LEMMA RestartAgrees ==
  ASSUME DriverInv, Restart, NEW G, Recorded(trace, G)
  PROVE  PlayedAs(G[0], mem', mem_brk', live')
<1>1. mem \in Memory
  BY DEF DriverInv, HeapHolds, Sound, HeapAt, Walls
<1>2. mem' = FreshMem /\ mem_brk' = Fresh.brk /\ live' = None
  BY <1>1, RestartsAlike
<1>3. mem' \in Memory
  <2>1. HeapHolds(mem', mem_brk', live')
    BY RestartHolds DEF DriverInv
  <2> QED
    BY <2>1 DEF HeapHolds, Sound, HeapAt, Walls
<1>4. mem' = G[0].mem /\ mem_brk' = G[0].brk /\ live' = G[0].live
  BY <1>2 DEF Recorded
<1> QED
  BY <1>3, <1>4, AgreesWithItself DEF PlayedAs

(* A request that is played again gives what it gave.                      *)
LEMMA PlayedAlike ==
  ASSUME SizesFit, DriverInv, PlayInv, phase \in {"util", "speed"},
         NEW r, r = trace[op + 1].request, Play(r)
  PROVE  PlayInv' /\ phase' # "aborted" /\ Same(trace[op'])
<1>0. /\ trace \in Seq(Entry) /\ Len(trace) \in Nat /\ op \in Nat
      /\ live \in [Ids -> [bp : Nat, size : Nat]] /\ HeapHolds(mem, mem_brk, live)
  BY DEF DriverInv, HeapHolds, LiveIn
<1>1. PICK result : result = Called(r)
  OBVIOUS
<1>2. /\ op < Len(trace) /\ op' = op + 1
      /\ mem' = Erased(result.mem, result.brk, Has(r, result)) /\ mem_brk' = result.brk
      /\ live' = Has(r, result)
      /\ phase' = (IF Failed(r, result) THEN "aborted" ELSE phase)
      /\ trace' = trace
  BY <1>1 DEF Play, Played, Leaves
<1>3. Allowed(r)
  BY <1>2, NextAllowed
<1>4. Answered(r, result)
  BY <1>0, <1>1, <1>3, Answers
<1>5. PICK G : Recorded(trace, G) /\ PlayedAs(G[op], mem, mem_brk, live)
  BY DEF PlayInv, PlayedSince
<1>6. PICK n : n = op + 1
  OBVIOUS
<1>7. op \in 0 .. Len(trace) /\ n \in 1 .. Len(trace) /\ n - 1 = op
  BY <1>0, <1>2, <1>6
<1>8. PICK bp : bp = trace[n].bp
  OBVIOUS
<1>9. trace[n] \in Entry /\ trace[n] = [request |-> r, bp |-> bp]
  <2>1. trace[n] \in Entry /\ trace[n].request = r
    BY <1>0, <1>6, <1>7
  <2> QED
    BY <2>1, <1>8 DEF Entry
<1>10. PICK g : /\ g = G[op] /\ HeapHolds(g.mem, g.brk, g.live)
                /\ PlayedAs(g, mem, mem_brk, live)
  BY <1>5, <1>7 DEF Recorded
<1>11. PICK g2 : g2 = G[n] /\ Follows(g, [request |-> r, bp |-> bp], g2)
  BY <1>5, <1>7, <1>9, <1>10 DEF Recorded
<1>12. /\ ~Failed(r, result) /\ result.bp = bp /\ result.brk = g2.brk
       /\ Has(r, result) = g2.live
       /\ Agree(Erased(result.mem, result.brk, Has(r, result)), g2.mem)
  BY <1>1, <1>3, <1>10, <1>11, PlayAgrees DEF PlayedAs
<1>13. phase' = phase /\ phase' # "aborted"
  BY <1>2, <1>12
<1>14. PlayedAs(G[op'], mem', mem_brk', live')
  BY <1>2, <1>6, <1>11, <1>12 DEF PlayedAs
<1>15. Recorded(trace', G)
  BY <1>2, <1>5
<1>16. PlayInv'
  BY <1>13, <1>14, <1>15 DEF PlayInv, PlayedSince
<1>17. Same(trace[op'])
  <2> SUFFICES ASSUME trace[op'].request.type # "FREE"
               PROVE  live'[trace[op'].request.id].bp = trace[op'].bp
    BY DEF Same
  <2>1. trace[op'].request = r /\ trace[op'].bp = bp /\ r.type # "FREE" /\ r.id \in Ids
    BY <1>2, <1>3, <1>6, <1>8, <1>9 DEF Allowed
  <2>2. live' = Holding(live, r.id, bp, r.size)
    BY <2>1, <1>2, <1>4, <1>12 DEF Answered
  <2>3. live'[r.id] = [bp |-> bp, size |-> r.size]
    BY <2>1, <2>2, <1>0 DEF Holding
  <2> QED
    BY <2>1, <2>3
<1> QED
  BY <1>13, <1>16, <1>17

(* Every step.                                                             *)
LEMMA PlaySteps ==
  ASSUME SizesFit, DriverInv, PlayInv, DriverNext
  PROVE  /\ PlayInv'
         /\ op' = op + 1 /\ phase \in {"util", "speed"} =>
               phase' # "aborted" /\ Same(trace[op'])
<1>0. op \in Nat
  BY DEF DriverInv
<1>1. CASE Caller
  <2>1. phase = "caller" /\ phase' = "caller"
    BY <1>1 DEF Caller, driverVars
  <2> QED
    BY <2>1 DEF PlayInv
<1>2. CASE NextTrace
  <2>1. phase = "next" /\ Restart /\ phase' = "valid" /\ trace' = <<>> /\ op' = 0
    BY <1>2 DEF NextTrace
  <2>2. mem \in Memory
    BY DEF DriverInv, HeapHolds, Sound, HeapAt, Walls
  <2>3. /\ mem' = FreshMem /\ mem_brk' = Fresh.brk /\ live' = None
        /\ HeapHolds(mem', mem_brk', live') /\ mem' \in Memory
    <3>1. HeapHolds(mem', mem_brk', live')
      BY <2>1, RestartHolds DEF DriverInv
    <3>2. mem' \in Memory
      BY <3>1 DEF HeapHolds, Sound, HeapAt, Walls
    <3> QED
      BY <3>1, <3>2, <2>1, <2>2, RestartsAlike
  <2>4. Len(trace') = 0
    BY <2>1
  <2>5. PICK G : /\ Recorded(trace', G) /\ G[0].mem = mem' /\ G[0].brk = mem_brk'
                 /\ G[0].live = live'
    BY <2>3, <2>4, RecordStarts
  <2>6. PlayedAs(G[op'], mem', mem_brk', live') /\ mem' = G[op'].mem
    BY <2>1, <2>3, <2>5, AgreesWithItself DEF PlayedAs
  <2> QED
    BY <2>1, <2>5, <2>6 DEF PlayInv, PlayedSince
<1>3. CASE EndValid
  <2>1. phase = "valid" /\ Restart /\ phase' = "util" /\ op' = 0 /\ trace' = trace
    BY <1>3 DEF EndValid
  <2>2. PICK G : Recorded(trace, G)
    BY <2>1 DEF PlayInv, PlayedSince
  <2>3. PlayedAs(G[op'], mem', mem_brk', live') /\ Recorded(trace', G)
    BY <2>1, <2>2, RestartAgrees
  <2> QED
    BY <2>1, <2>3 DEF PlayInv, PlayedSince
<1>4. CASE eval_mm_util
  BY <1>4, PlayedAlike DEF eval_mm_util
<1>5. CASE eval_mm_speed
  BY <1>5, PlayedAlike DEF eval_mm_speed
<1>6. CASE EndReplay
  <2>1. phase \in {"util", "speed"} /\ op' = 0 /\ op' # op + 1 /\ trace' = trace
    BY <1>0, <1>6 DEF EndReplay
  <2>2. CASE repetition < Repetitions
    <3>1. Restart /\ phase' = "speed"
      BY <1>6, <2>2 DEF EndReplay
    <3>2. PICK G : Recorded(trace, G)
      BY <2>1 DEF PlayInv, PlayedSince
    <3>3. PlayedAs(G[op'], mem', mem_brk', live') /\ Recorded(trace', G)
      BY <2>1, <3>1, <3>2, RestartAgrees
    <3> QED
      BY <2>1, <3>1, <3>3 DEF PlayInv, PlayedSince
  <2>3. CASE ~(repetition < Repetitions)
    <3>1. phase' = "next"
      BY <1>6, <2>3 DEF EndReplay
    <3> QED
      BY <2>1, <3>1 DEF PlayInv
  <2> QED
    BY <2>2, <2>3
<1>7. CASE Finish
  <2>1. phase = "next" /\ phase' = "done"
    BY <1>7 DEF Finish
  <2> QED
    BY <2>1 DEF PlayInv
<1>8. CASE \E r \in Requests : CheckRequest(r)
  <2>1. PICK r \in Requests : CheckRequest(r)
    BY <1>8
  <2>2. phase = "valid"
    BY <2>1 DEF CheckRequest, Check
  <2> QED
    BY <2>1, <2>2, CheckRecords
<1> QED
  BY <1>1, <1>2, <1>3, <1>4, <1>5, <1>6, <1>7, <1>8 DEF DriverNext

(* Whenever a trace that was valid is played again, it gets the blocks it  *)
(* got at first, and no call fails.                                        *)
THEOREM MdriverPlaysAlike == SizesFit /\ DriverSpec => PlaysAlike
<1>1. SizesFit /\ DriverInv /\ PlayInv /\ [DriverNext]_driverAll
        => /\ PlayInv'
           /\ [op' = op + 1 /\ phase \in {"util", "speed"} =>
                 phase' # "aborted" /\ Same(trace[op'])]_driverAll
  <2> SUFFICES ASSUME SizesFit, DriverInv, PlayInv, [DriverNext]_driverAll
               PROVE  /\ PlayInv'
                      /\ [op' = op + 1 /\ phase \in {"util", "speed"} =>
                            phase' # "aborted" /\ Same(trace[op'])]_driverAll
    OBVIOUS
  <2>1. CASE DriverNext
    BY <2>1, PlaySteps
  <2>2. CASE UNCHANGED driverAll
    <3>1. UNCHANGED <<mem, mem_brk, live, phase, trace, op>>
      BY <2>2 DEF driverAll, vars, driverVars
    <3>2. PlayInv'
      BY <3>1 DEF PlayInv
    <3> QED
      BY <2>2, <3>2
  <2> QED
    BY <2>1, <2>2
<1>2. DriverInit => PlayInv
  BY DEF DriverInit, PlayInv
<1> QED
  BY <1>1, <1>2, DriverAlways, SizesFitAlways, PTL DEF DriverSpec, PlaysAlike
=============================================================================
