------------------------------- MODULE Malloc -------------------------------
(***************************************************************************)
(* The allocator mm.c over memlib.c, as it is configured: segregated free  *)
(* lists, best fit, LIFO insertion, and footers in free blocks only.       *)
(*                                                                         *)
(* Memory is the code's memory: words at byte addresses, which hold        *)
(* headers, footers, list pointers or what the caller wrote.  A helper     *)
(* takes a memory m and returns the memory it leaves.  heap_listp is not a *)
(* variable: every use of it reads a class list first.                     *)
(*                                                                         *)
(* The caller (mdriver.c) passes pointers it was given and did not free,   *)
(* and writes all the bytes it asked for.                                  *)
(***************************************************************************)
EXTENDS Integers, FiniteSetsExt

CONSTANTS MAX_HEAP,    \* bytes of memory
          CHUNKSIZE,   \* what the heap grows by, at least
          SizeBits,    \* the width of size_t
          Sizes,       \* what callers ask for
          MaxLive      \* bound: blocks a caller holds
ASSUME HeapAssumption ==
    /\ MAX_HEAP \in Nat /\ CHUNKSIZE \in Nat /\ CHUNKSIZE >= 16 /\ CHUNKSIZE % 8 = 0
    /\ 40 + CHUNKSIZE <= MAX_HEAP /\ SizeBits \in Nat /\ MAX_HEAP < 2 ^ SizeBits
    /\ 2 ^ SizeBits \in Nat /\ 2 ^ SizeBits % 8 = 0
    /\ Sizes \subseteq 0 .. 2 ^ SizeBits - 1 /\ MaxLive \in Nat

VARIABLES mem,         \* the words of the heap
          mem_brk,     \* its end
          live         \* the size asked for of every block the caller holds

vars == <<mem, mem_brk, live>>

NULL == 0
WSIZE == 4
DSIZE == 8
MINBLOCK == 16
FREE == 0
ALLOC == 1
PALLOC == 2

(* A size near the top of size_t wraps around to 0 or 8. *)
ALIGN(size) == (((size + 7) % 2 ^ SizeBits) \div 8) * 8
ADJUST(size) == IF size <= 3 * WSIZE THEN MINBLOCK
                ELSE ALIGN((size + WSIZE) % 2 ^ SizeBits)

(* A header packs a size, a multiple of 8, and the two flags. *)
PUT(m, p, val) == [m EXCEPT ![p] = val]
SIZE(word) == (word \div 8) * 8
ALLOCATED(word) == word % 2 = 1
PALLOCATED(word) == word % 4 \in {2, 3}

Header(m, bp) == m[bp - WSIZE]
Size(m, bp) == SIZE(Header(m, bp))
Allocated(m, bp) == ALLOCATED(Header(m, bp))
PrevAllocated(m, bp) == PALLOCATED(Header(m, bp))
PallocFlag(m, bp) == IF PrevAllocated(m, bp) THEN PALLOC ELSE 0
NEXT_BLKP(m, bp) == bp + Size(m, bp)
PREV_BLKP(m, bp) == bp - SIZE(m[bp - DSIZE])
PutHeader(m, bp, size, flags) == PUT(m, bp - WSIZE, size + flags)
PutFooter(m, bp) == PUT(m, bp + Size(m, bp) - DSIZE, Size(m, bp))
PutFree(m, bp, size, palloc) == PutFooter(PutHeader(m, bp, size, palloc), bp)

(* The size classes: class_listp is the first of five list heads. *)
class_listp == 16
CLASS_SIZE == 5
Classes == {class_listp + WSIZE * k : k \in 0 .. CLASS_SIZE - 1}

match_heap(asize) ==
    class_listp + WSIZE * (CASE asize <= 2 * MINBLOCK -> 0
                             [] asize <= 3 * MINBLOCK /\ asize > 2 * MINBLOCK -> 1
                             [] asize <= 4 * MINBLOCK /\ asize > 3 * MINBLOCK -> 2
                             [] asize <= 8 * MINBLOCK /\ asize > 4 * MINBLOCK -> 3
                             [] asize > 8 * MINBLOCK -> 4)

Pred(m, bp) == m[bp]
Succ(m, bp) == m[bp + WSIZE]
PutPred(m, bp, val) == IF bp = NULL THEN m ELSE PUT(m, bp, val)
PutSucc(m, bp, val) == IF bp = NULL THEN m ELSE PUT(m, bp + WSIZE, val)

(* unjoin takes a block out of the list of its size's class. *)
unjoin(m, bp) ==
    LET class == match_heap(Size(m, bp))
        linked == PutSucc(PutPred(m, Succ(m, bp), Pred(m, bp)), Pred(m, bp), Succ(m, bp))
    IN  IF bp = m[class] THEN PUT(linked, class, Succ(linked, bp)) ELSE linked

(* join(NULL, bp, ...) puts it in front of that list. *)
join(m, bp) ==
    LET class == match_heap(Size(m, bp))
    IN  PUT(PutPred(PutSucc(PutPred(m, bp, NULL), bp, m[class]), m[class], bp), class, bp)

(* coalesce: the free block bp, not on a list, is merged with the free     *)
(* neighbours it has and put on a list.  All four cases; in the first its  *)
(* tags are written again as they are.                                     *)
coalesceBefore(m, bp) ==
    IF PrevAllocated(m, bp) THEN bp ELSE PREV_BLKP(m, bp)
coalesce(m, bp) ==
    LET next == NEXT_BLKP(m, bp)
        first == coalesceBefore(m, bp)
        m1 == IF first # bp THEN unjoin(m, first) ELSE m
        m2 == IF ~Allocated(m, next) THEN unjoin(m1, next) ELSE m1
        size == Size(m, bp) + (IF first # bp THEN Size(m, first) ELSE 0)
                            + (IF ~Allocated(m, next) THEN Size(m, next) ELSE 0)
    IN  [mem |-> join(PutFree(m2, first, size, PALLOC), first), bp |-> first]

(* A call that returns bp, or fails. *)
Result(m, brk, bp) == [mem |-> m, brk |-> brk, bp |-> bp]
Extended(merged, brk) == Result(merged.mem, brk, merged.bp)

(* extend_heap: mem_sbrk, a free block where the epilogue was, coalesce. *)
extend_heap(m, brk, size) ==
    LET asize == ALIGN(size)
        freed == PutFree(m, brk, asize, PallocFlag(m, brk))
    IN  IF brk + asize > MAX_HEAP THEN Result(m, brk, NULL)
        ELSE Extended(coalesce(PutHeader(freed, brk + asize, 0, ALLOC), brk), brk + asize)

(* place: the free block bp becomes allocated; what it does not need       *)
(* becomes a free block if that is large enough.                           *)
place(m, bp, asize) ==
    LET csize == Size(m, bp)
        taken == unjoin(m, bp)
        next == NEXT_BLKP(m, bp)
    IN  IF csize - asize >= MINBLOCK
        THEN coalesce(PutFree(PutHeader(taken, bp, asize, ALLOC + PALLOC),
                              bp + asize, csize - asize, PALLOC), bp + asize).mem
        ELSE PutHeader(PutHeader(taken, bp, csize, ALLOC + PALLOC),
                       next, Size(m, next), ALLOC + PALLOC)

(* The list of a class: its n-th block, or NULL. *)
Listed(m, class) ==
    LET Nth[n \in 0 .. MAX_HEAP \div MINBLOCK] ==
          IF n = 0 THEN m[class]
          ELSE LET bp == Nth[n - 1] IN IF bp = NULL THEN NULL ELSE Succ(m, bp)
    IN  Nth

find_fitFirst(m, class, asize) ==     \* Mutant: the first block that fits.
    LET Nth == Listed(m, class)
        Fit == {n \in DOMAIN Nth : Nth[n] # NULL /\ Size(m, Nth[n]) >= asize}
    IN  IF Fit = {} THEN NULL ELSE Nth[Min(Fit)]

(* find_fit in one class: the first of the smallest blocks that fit. *)
find_fit(m, class, asize) ==
    LET Nth == Listed(m, class)
        Fit == {n \in DOMAIN Nth : Nth[n] # NULL /\ Size(m, Nth[n]) >= asize}
    IN  IF Fit = {} THEN NULL
        ELSE Nth[Min({n \in Fit : \A k \in Fit : Size(m, Nth[n]) <= Size(m, Nth[k])})]

PlacedIn(r, asize) ==
    IF r.bp = NULL THEN r ELSE Result(place(r.mem, r.bp, asize), r.brk, r.bp)

(* mm_malloc: the first class, from the one of asize up, that has a fit. *)
mm_malloc(m, brk, size) ==
    LET asize == ADJUST(size)
        Usable == {class \in Classes : /\ class >= match_heap(asize)
                                       /\ find_fit(m, class, asize) # NULL}
    IN  IF size = 0 THEN Result(m, brk, NULL)
        ELSE PlacedIn(IF Usable # {} THEN Result(m, brk, find_fit(m, Min(Usable), asize))
                      ELSE extend_heap(m, brk, IF asize > CHUNKSIZE THEN asize ELSE CHUNKSIZE),
                      asize)

mm_freeTellsNobody(m, bp) ==          \* Mutant: the next block's flag is not cleared.
    coalesce(PutFree(m, bp, Size(m, bp), PallocFlag(m, bp)), bp).mem

(* mm_free: the block becomes free, its neighbour hears of it, coalesce. *)
mm_free(m, bp) ==
    LET freed == PutFree(m, bp, Size(m, bp), PallocFlag(m, bp))
        next == NEXT_BLKP(m, bp)
        told == PutHeader(freed, next, Size(m, next), IF Allocated(m, next) THEN ALLOC ELSE 0)
    IN  coalesce(told, bp).mem

Move(m, to, from, n) ==       \* memmove and memcpy
    [p \in DOMAIN m |-> IF p \in to .. to + n - 1 THEN m[from + (p - to)] ELSE m[p]]

(* mm_realloc in place: what is not needed any more becomes a free block. *)
Shrunk(m, ptr, asize) ==
    LET rest == Size(m, ptr) - asize
        cut == PutHeader(m, ptr, asize, ALLOC + PallocFlag(m, ptr))
    IN  IF rest >= MINBLOCK THEN mm_free(PutFree(cut, ptr + asize, rest, PALLOC), ptr + asize)
        ELSE m

(* mm_realloc down into the free block before. *)
UsesPrevious(m, ptr, asize) ==
    /\ ~PrevAllocated(m, ptr)
    /\ LET prev == Size(m, PREV_BLKP(m, ptr))
       IN  prev <= asize /\ Size(m, ptr) + prev >= asize

MovedDownLate(m, ptr, asize) ==       \* Mutant: the tags are written before memmove.
    LET newptr == PREV_BLKP(m, ptr)
        newsize == Size(m, ptr) + Size(m, newptr)
        rest == newptr + asize
        split == PutHeader(PutHeader(unjoin(m, newptr), newptr, asize, ALLOC + PALLOC),
                           rest, newsize - asize, PALLOC)
    IN  IF newsize - asize >= MINBLOCK
        THEN Move(mm_free(split, rest), newptr, ptr, Size(m, ptr))
        ELSE PutHeader(Move(unjoin(m, newptr), newptr, ptr, Size(m, ptr)),
                       newptr, newsize, ALLOC + PALLOC)

MovedDown(m, ptr, asize) ==
    LET newptr == PREV_BLKP(m, ptr)
        newsize == Size(m, ptr) + Size(m, newptr)
        moved == Move(unjoin(m, newptr), newptr, ptr, Size(m, ptr))
        rest == newptr + asize
        split == PutHeader(PutHeader(moved, newptr, asize, ALLOC + PALLOC),
                           rest, newsize - asize, PALLOC)
    IN  IF newsize - asize >= MINBLOCK THEN mm_free(split, rest)
        ELSE PutHeader(moved, newptr, newsize, ALLOC + PALLOC)

(* mm_realloc to a new block, unless there is none. *)
MovedTo(new, ptr, oldsize) ==
    IF new.bp = NULL THEN new
    ELSE Result(mm_free(Move(new.mem, new.bp, ptr, oldsize), ptr), new.brk, new.bp)

mm_realloc(m, brk, ptr, size) ==
    LET asize == ADJUST(size)
    IN  IF asize <= Size(m, ptr) THEN Result(Shrunk(m, ptr, asize), brk, ptr)
        ELSE IF UsesPrevious(m, ptr, asize)
        THEN Result(MovedDown(m, ptr, asize), brk, PREV_BLKP(m, ptr))
        ELSE MovedTo(mm_malloc(m, brk, size), ptr, Size(m, ptr))
-----------------------------------------------------------------------------
(* The blocks of the heap, from the first after the prologue up to the     *)
(* epilogue, at the end of the heap.                                       *)
Heap(m, brk) ==
    LET Nth[n \in 0 .. MAX_HEAP \div MINBLOCK] ==
          IF n = 0 THEN class_listp
          ELSE LET bp == Nth[n - 1]
               IN  IF bp >= brk \/ Size(m, bp) < MINBLOCK THEN bp ELSE NEXT_BLKP(m, bp)
    IN  {Nth[n] : n \in DOMAIN Nth}
BlocksOf(m, brk) == Heap(m, brk) \ {brk}

(* The caller fills the bytes of a block from the first-th on; a word it   *)
(* writes is no number that the allocator would write.                     *)
Data(id, k) == -(64 * id + k)
Words(size) == (size + WSIZE - 1) \div WSIZE
Fill(m, id, bp, first, size) ==
    [p \in DOMAIN m |-> IF \E k \in first .. Words(size) - 1 : p = bp + WSIZE * k
                        THEN Data(id, (p - bp) \div WSIZE) ELSE m[p]]

Ids == 1 .. MaxLive
Nothing == [bp |-> NULL, size |-> 0]
Held == {id \in Ids : live[id] # Nothing}

(* What is no tag, no list pointer and no caller's data is garbage, and    *)
(* nothing may depend on it: it is written as one value.                   *)
Garbage == -1
Erased(m, brk, held) ==
    LET blocks == BlocksOf(m, brk)
        free == {bp \in blocks : ~Allocated(m, bp)}
        tags == {bp - WSIZE : bp \in blocks \cup {brk}}
                \cup UNION {{bp, bp + WSIZE, NEXT_BLKP(m, bp) - DSIZE} : bp \in free}
        data == UNION {{held[id].bp + WSIZE * k : k \in 0 .. Words(held[id].size) - 1} :
                         id \in Ids}
    IN  [p \in DOMAIN m |-> IF p < 40 \/ p >= brk \/ p \in tags \cup data THEN m[p]
                            ELSE Garbage]

(* A call leaves memory m and end brk; the caller holds what it has now. *)
Leaves(m, brk, held) ==
    /\ mem' = Erased(m, brk, held) /\ mem_brk' = brk /\ live' = held

Becomes(r, id, first, size) ==
    IF r.bp = NULL THEN Leaves(r.mem, r.brk, live)
    ELSE Leaves(Fill(r.mem, id, r.bp, first, size), r.brk,
                [live EXCEPT ![id] = [bp |-> r.bp, size |-> size]])

(* mm_init on an empty heap: prologue, class lists, epilogue, a first chunk.*)
mm_init(m) ==
    LET cleared == [p \in DOMAIN m |-> IF p = 0 \/ p \in Classes THEN 0 ELSE m[p]]
        start == [cleared EXCEPT ![4] = DSIZE + ALLOC, ![8] = DSIZE + ALLOC,
                                 ![12] = (CLASS_SIZE + 1) * WSIZE + ALLOC + PALLOC,
                                 ![36] = ALLOC + PALLOC]
    IN  extend_heap(start, 40, CHUNKSIZE)

(* mem_init: fresh memory. *)
Init ==
    LET zeros == [p \in {WSIZE * k : k \in 0 .. MAX_HEAP \div WSIZE - 1} |-> 0]
        r == mm_init(zeros)
    IN  /\ live = [id \in Ids |-> Nothing]
        /\ mem_brk = r.brk /\ mem = Erased(r.mem, r.brk, live)

Malloc(size) ==
    /\ Held # Ids
    /\ Becomes(mm_malloc(mem, mem_brk, size), Min(Ids \ Held), 0, size)

Free(id) ==
    /\ id \in Held
    /\ Leaves(mm_free(mem, live[id].bp), mem_brk, [live EXCEPT ![id] = Nothing])

(* mm_realloc to size 0 is mm_free, and of NULL is mm_malloc. *)
Realloc(id, size) ==
    /\ id \in Held /\ size # 0
    /\ Becomes(mm_realloc(mem, mem_brk, live[id].bp, size), id, Words(live[id].size), size)

Next == \/ \E size \in Sizes : Malloc(size)
        \/ \E id \in Ids : Free(id) \/ \E size \in Sizes : Realloc(id, size)

Spec == Init /\ [][Next]_vars
-----------------------------------------------------------------------------
Blocks == BlocksOf(mem, mem_brk)
FreeBlocks == {bp \in Blocks : ~Allocated(mem, bp)}

TypeOK ==
    /\ mem \in [{WSIZE * k : k \in 0 .. MAX_HEAP \div WSIZE - 1} -> Int]
    /\ mem_brk \in 40 + CHUNKSIZE .. MAX_HEAP /\ mem_brk % 8 = 0
    /\ \A id \in Ids : live[id].bp \in 0 .. mem_brk /\ live[id].size \in Sizes \cup {0}

(* The boundary tags agree (mm_check): the blocks fill the heap without    *)
(* gap or overlap, no two free ones are neighbours, every header knows its *)
(* neighbour, every footer its header.                                     *)
TagsAgree ==
    /\ mem_brk \in Heap(mem, mem_brk) /\ Size(mem, mem_brk) = 0 /\ Allocated(mem, mem_brk)
    /\ \A bp \in Blocks :
          /\ Size(mem, bp) >= MINBLOCK /\ bp % 8 = 0
          /\ Allocated(mem, bp) <=> PrevAllocated(mem, NEXT_BLKP(mem, bp))
          /\ ~Allocated(mem, bp) =>
                /\ Allocated(mem, NEXT_BLKP(mem, bp)) /\ PrevAllocated(mem, bp)
                /\ mem[NEXT_BLKP(mem, bp) - DSIZE] = Size(mem, bp)

(* The class lists hold the free blocks, each once and in the class of its *)
(* size, linked both ways (join, unjoin).                                  *)
ListsHoldFree ==
    /\ \A class \in Classes :
          LET Nth == Listed(mem, class)
              On == {n \in DOMAIN Nth : Nth[n] # NULL}
          IN  /\ {Nth[n] : n \in On}
                    = {bp \in FreeBlocks : match_heap(Size(mem, bp)) = class}
              /\ \A n \in On : Pred(mem, Nth[n]) = IF n = 0 THEN NULL ELSE Nth[n - 1]

(* What callers hold are the allocated blocks, all of them, each large     *)
(* enough: nothing leaks and nothing is given twice (mm_malloc, mm_free,   *)
(* mm_realloc).                                                            *)
LiveAreAllocated ==
    /\ \A i, j \in Held : live[i].bp = live[j].bp => i = j
    /\ {live[id].bp : id \in Held} = Blocks \ (FreeBlocks \cup {class_listp})
    /\ \A id \in Held : live[id].size <= Size(mem, live[id].bp) - WSIZE

(* No call changes a byte that a caller holds, and mm_realloc takes what   *)
(* is in a block along.                                                    *)
PayloadsIntact ==
    \A id \in Held : \A k \in 0 .. Words(live[id].size) - 1 :
        mem[live[id].bp + WSIZE * k] = Data(id, k)

(* mm_malloc takes a smallest free block that fits, over all the classes,  *)
(* and the heap grows only when there is none.                             *)
BestFit ==
    [][\A id \in Ids :
         live[id] = Nothing /\ live'[id] # Nothing =>
            LET Fits == {bp \in FreeBlocks : Size(mem, bp) >= ADJUST(live'[id].size)}
            IN  IF Fits = {} THEN mem_brk' > mem_brk
                ELSE /\ mem_brk' = mem_brk /\ live'[id].bp \in Fits
                     /\ \A bp \in Fits : Size(mem, live'[id].bp) <= Size(mem, bp)]_vars
=============================================================================
