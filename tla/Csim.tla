-------------------------------- MODULE Csim --------------------------------
(***************************************************************************)
(* The cache simulator csim.c, one action per line of its trace.  A set is *)
(* an array of E blocks that is kept sorted: the blocks that are not valid *)
(* first, then the valid ones from the last used to the least recently     *)
(* used.                                                                   *)
(***************************************************************************)
EXTENDS Integers, FiniteSetsExt

CONSTANTS s, E, b,        \* set index bits, lines per set, block bits
          Addresses,      \* the addresses of the trace
          MaxUpdates      \* bound: calls of updateSet
ASSUME CacheAssumption ==
    /\ s \in Nat /\ b \in Nat /\ E \in Nat \ {0}   \* E = 0 reads past the set
    /\ Addresses \subseteq Nat /\ MaxUpdates \in Nat
ASSUME PowersAssumption ==
    2 ^ s \in Nat \ {0} /\ 2 ^ b \in Nat \ {0} /\ 2 ^ (b + s) = 2 ^ b * 2 ^ s

VARIABLES line,                                     \* the line of the trace
          cache,                                    \* the blocks of every set
          hit_count, miss_count, eviction_count

vars == <<line, cache, hit_count, miss_count, eviction_count>>

Lines == 0 .. E - 1
SetNum == 2 ^ s
tagOf(addr) == addr \div 2 ^ (b + s)
isetOf(addr) == (addr \div 2 ^ b) % SetNum
NoBlock == [tag |-> 0, valid |-> FALSE]

Init ==
    /\ line = [op |-> "", addr |-> 0]                \* none was read
    /\ cache = [iset \in 0 .. SetNum - 1 |-> [i \in Lines |-> NoBlock]]
    /\ hit_count = 0 /\ miss_count = 0 /\ eviction_count = 0

(* The search goes down from the last line to a line that is not valid. *)
getBlockSkipsLast(pset, tag) ==       \* Mutant: the search starts one line too low.
    LET Matches == {i \in 0 .. E - 2 : /\ pset[i].tag = tag
                                       /\ \A j \in i .. E - 1 : pset[j].valid}
    IN  IF Matches = {} THEN -1 ELSE Max(Matches)

getBlock(pset, tag) ==
    LET Matches == {i \in Lines : /\ pset[i].tag = tag
                                  /\ \A j \in i .. E - 1 : pset[j].valid}
    IN  IF Matches = {} THEN -1 ELSE Max(Matches)

(* The block at index is swapped down past the valid blocks below it. *)
sortSet(pset, index) ==
    LET top == Min({k \in 0 .. index : \A j \in k .. index - 1 : pset[j].valid})
    IN  [i \in Lines |-> IF i = top THEN pset[index]
                         ELSE IF i \in top .. index THEN pset[i - 1] ELSE pset[i]]

Full(pset) == pset[0].valid

missBlockEvictsFirst(pset, tag) ==    \* Mutant: evicts the last block used.
    LET index == IF Full(pset) THEN 0
                 ELSE Max({i \in Lines : ~pset[i].valid})
    IN  sortSet([pset EXCEPT ![index] = [tag |-> tag, valid |-> TRUE]], index)

(* The new block replaces the last one of a full set, or the last block that *)
(* is not valid.                                                             *)
missBlock(pset, tag) ==
    LET index == IF Full(pset) THEN E - 1
                 ELSE Max({i \in Lines : ~pset[i].valid})
    IN  sortSet([pset EXCEPT ![index] = [tag |-> tag, valid |-> TRUE]], index)

(* updateSet on a set and on the three counters. *)
updateSet(u, tag) ==
    LET index == getBlock(u.pset, tag) IN
    IF index >= 0
    THEN [u EXCEPT !.pset = sortSet(@, index), !.hits = @ + 1]
    ELSE [u EXCEPT !.pset = missBlock(@, tag), !.misses = @ + 1,
                   !.evictions = IF Full(u.pset) THEN @ + 1 ELSE @]

Now(iset) == [pset |-> cache[iset], hits |-> hit_count, misses |-> miss_count,
              evictions |-> eviction_count]
Becomes(iset, u) ==
    /\ cache' = [cache EXCEPT ![iset] = u.pset]
    /\ hit_count' = u.hits /\ miss_count' = u.misses /\ eviction_count' = u.evictions

Updates == hit_count + miss_count

(* L and S: one access.  I and what is not an operation is skipped. *)
LoadOrStore(op, addr) ==
    /\ Updates + 1 <= MaxUpdates /\ line' = [op |-> op, addr |-> addr]
    /\ Becomes(isetOf(addr), updateSet(Now(isetOf(addr)), tagOf(addr)))

(* M: a load and then a store. *)
Modify(addr) ==
    /\ Updates + 2 <= MaxUpdates /\ line' = [op |-> "M", addr |-> addr]
    /\ LET loaded == updateSet(Now(isetOf(addr)), tagOf(addr))
       IN  Becomes(isetOf(addr), updateSet(loaded, tagOf(addr)))

Next == \E addr \in Addresses : Modify(addr) \/ \E op \in {"L", "S"} : LoadOrStore(op, addr)

Spec == Init /\ [][Next]_vars
-----------------------------------------------------------------------------
Valid(iset) == {i \in Lines : cache[iset][i].valid}

TypeOK ==
    /\ line \in [op : {"", "L", "S", "M"}, addr : Addresses \cup {0}]
    /\ cache \in [0 .. SetNum - 1 -> [Lines -> [tag : {tagOf(a) : a \in Addresses} \cup {0},
                                                valid : BOOLEAN]]]
    /\ \A n \in {hit_count, miss_count, eviction_count} : n \in 0 .. MaxUpdates

(* The tests of updateSet look at one block each: getBlock stops at the    *)
(* first that is not valid, missBlock takes the first as a sign of a full  *)
(* set.  They are right when the valid blocks are the last ones, and no    *)
(* tag is there twice.                                                     *)
SetsSorted ==
    \A iset \in DOMAIN cache :
        /\ \A i \in Valid(iset) : i .. E - 1 \subseteq Valid(iset)
        /\ \A i, j \in Valid(iset) : cache[iset][i].tag = cache[iset][j].tag => i = j

(* Every block that came in is still there or was evicted: what main       *)
(* prints adds up (updateSet, missBlock).                                  *)
CountsAddUp ==
    miss_count = eviction_count
                 + MapThenSumSet(LAMBDA iset : Cardinality(Valid(iset)), DOMAIN cache)

(* The simulator is a cache with LRU replacement: the access of a line     *)
(* hits when the block of its address is in the cache and misses when it   *)
(* is not, a modify counts a second hit, and a full set gives up the block *)
(* that was not used for longest (main, updateSet, sortSet).  A tag of a   *)
(* set stands for one block of memory.                                     *)
recent == [iset \in DOMAIN cache |->
             LET n == Cardinality(Valid(iset))
             IN  [k \in 1 .. n |-> cache[iset][E - n + k - 1].tag * SetNum + iset]]
LRU == INSTANCE LRUSets
         WITH SetCount <- SetNum, BlockSize <- 2 ^ b, Lines <- E, recent <- recent,
              hits <- hit_count, misses <- miss_count, evictions <- eviction_count
IsLRU == LRU!Spec

(* The array of blocks is what its searches take it for, and nothing is    *)
(* counted twice or not at all (updateSet, getBlock, missBlock).           *)
CsimInv == TypeOK /\ SetsSorted /\ CountsAddUp

=============================================================================
