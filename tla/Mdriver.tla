------------------------------ MODULE Mdriver ------------------------------
(***************************************************************************)
(* The allocator with its callers: any program (Malloc's Next), or the     *)
(* driver mdriver.c, which plays every trace three times, each time on an  *)
(* empty heap: to check the blocks it is given against the ranges it       *)
(* keeps, to measure the space that is used, and to measure the time.  A   *)
(* trace is chosen while it is played for the first time.                  *)
(***************************************************************************)
EXTENDS Malloc, SequencesExt

CONSTANTS MaxOps,        \* bound: requests in a trace
          NumTraces,     \* num_tracefiles
          Repetitions,   \* how often the speed is measured (fsecs: 10)
          HighIds        \* the ids with index & 0xFF >= 128, which is no value of a char
ASSUME DriverAssumption ==
    /\ MaxOps \in Nat /\ NumTraces \in Nat /\ Repetitions \in Nat \ {0}
    /\ HighIds \subseteq Ids

VARIABLES phase,         \* caller, or next, valid, util, speed, done, aborted
          trace,         \* the requests, and the block each got when first played
          op,            \* requests played
          ranges,        \* the extents of the payloads, as the driver sees them
          total_size, max_total_size,
          repetition,
          error,         \* malloc_error's message of the last trace, or ""
          errors, numcorrect

driverVars == <<phase, trace, op, ranges, total_size, max_total_size, repetition, error,
                errors, numcorrect>>
driverAll == <<vars, driverVars>>

mem_heapsize == mem_brk

DriverInit ==
    /\ Init
    /\ phase \in {"caller", "next"} /\ trace = <<>> /\ op = 0 /\ ranges = {}
    /\ total_size = 0 /\ max_total_size = 0 /\ repetition = 0
    /\ error = "" /\ errors = 0 /\ numcorrect = 0

Caller == phase = "caller" /\ Next /\ UNCHANGED driverVars
-----------------------------------------------------------------------------
removeNothing(rs, lo) == rs           \* Mutant: remove_range finds no range.
remove_range(rs, lo) == {range \in rs : range.lo # lo}

add_rangeOneTooFar(rs, brk, lo, size) ==      \* Mutant: hi is one byte behind.
    LET hi == lo + size
    IN  CASE \E range \in rs : lo \in range.lo .. range.hi \/ hi \in range.lo .. range.hi ->
                [error |-> "overlaps", ranges |-> rs]
          [] lo % DSIZE # 0 -> [error |-> "not aligned", ranges |-> rs]
          [] hi > brk - 1 -> [error |-> "outside heap", ranges |-> rs]
          [] OTHER -> [error |-> "", ranges |-> rs \cup {[lo |-> lo, hi |-> hi]}]

(* The two ends of the payload must be in the heap and in no other range. *)
add_range(rs, brk, lo, size) ==
    LET hi == lo + size - 1
        Overlaps(range) == lo \in range.lo .. range.hi \/ hi \in range.lo .. range.hi
        message == IF lo % DSIZE # 0 THEN "not aligned"
                   ELSE IF lo < 0 \/ lo > brk - 1 \/ hi < 0 \/ hi > brk - 1 THEN "outside heap"
                   ELSE IF \E range \in rs : Overlaps(range) THEN "overlaps" ELSE ""
    IN  [error |-> message,
         ranges |-> IF message = "" THEN rs \cup {[lo |-> lo, hi |-> hi]} ELSE rs]

RestartKeepsHeap ==                   \* Mutant: the heap is not emptied.
    live' = [id \in Ids |-> Nothing] /\ UNCHANGED <<mem, mem_brk>>

(* mem_reset_brk leaves the bytes of the last play in the heap's memory:    *)
(* one value for all that mm_init does not write.                           *)
mem_reset_brk == [p \in DOMAIN mem |-> IF p < 40 THEN mem[p] ELSE Garbage]
Restarts(r, none) ==
    /\ mem' = [p \in DOMAIN mem |-> IF p < r.brk THEN Erased(r.mem, r.brk, none)[p]
                                    ELSE Garbage]
    /\ mem_brk' = r.brk /\ live' = none
Restart == Restarts(mm_init(mem_reset_brk), [id \in Ids |-> Nothing])

(* The requests that a trace may go on with: an id that has no block gets  *)
(* one, an id that has one resizes or frees it.                            *)
Request(type, id, size) == [type |-> type, id |-> id, size |-> size]
Requests ==
    {Request("ALLOC", id, size) : id \in {n \in Ids : Ids \ Held # {} /\ n = Min(Ids \ Held)},
                                  size \in Sizes}
    \cup {Request("REALLOC", id, size) : id \in Held, size \in Sizes}
    \cup {Request("FREE", id, 0) : id \in Held}

(* What a request does to the heap; mm_realloc to nothing frees. *)
Called(r) ==
    LET bp == live[r.id].bp IN
    CASE r.type = "ALLOC" -> mm_malloc(mem, mem_brk, r.size)
      [] r.type = "REALLOC" /\ r.size > 0 -> mm_realloc(mem, mem_brk, bp, r.size)
      [] r.type = "REALLOC" /\ r.size = 0 -> Result(mm_free(mem, bp), mem_brk, NULL)
      [] r.type = "FREE" -> Result(mm_free(mem, bp), mem_brk, bp)
Failed(r, result) == r.type # "FREE" /\ result.bp = NULL
Has(r, result) ==
    IF r.type = "FREE" \/ (r.type = "REALLOC" /\ r.size = 0)
    THEN [live EXCEPT ![r.id] = Nothing]
    ELSE IF result.bp = NULL THEN live
    ELSE [live EXCEPT ![r.id] = [bp |-> result.bp, size |-> r.size]]

(* main takes the next trace, eval_mm_valid resets and initialises. *)
NextTrace ==
    /\ phase = "next" /\ errors + numcorrect < NumTraces
    /\ Restart /\ phase' = "valid" /\ ranges' = {} /\ trace' = <<>> /\ error' = ""
    /\ op' = 0 /\ total_size' = 0 /\ max_total_size' = 0 /\ repetition' = 0
    /\ UNCHANGED <<errors, numcorrect>>

oldsize(r) == IF r.size < live[r.id].size THEN r.size ELSE live[r.id].size

(* Does the block that moved hold what the old one held?  newp[j] is a      *)
(* signed char and index & 0xFF an int: from 128 on the two differ, though *)
(* the byte is the one that memset wrote.                                  *)
Preserved(r, result) ==
    \A k \in 0 .. Words(oldsize(r)) - 1 :
        result.mem[result.bp + WSIZE * k] = Data(r.id, k) /\ r.id \notin HighIds

(* eval_mm_valid checks one request, and fills what it was given. *)
Check(r, result) ==
    LET others == IF r.type = "ALLOC" \/ Failed(r, result) THEN ranges
                  ELSE remove_range(ranges, live[r.id].bp)
        added == IF r.type = "FREE" THEN [error |-> "", ranges |-> others]
                 ELSE add_range(others, result.brk, result.bp, r.size)
        message == IF Failed(r, result) THEN "failed"
                   ELSE IF added.error # "" THEN added.error
                   ELSE IF r.type = "REALLOC" /\ ~Preserved(r, result) THEN "did not preserve"
                   ELSE ""
    IN  /\ phase = "valid" /\ Len(trace) < MaxOps
        /\ Leaves(IF message = "" /\ r.type # "FREE"
                  THEN Fill(result.mem, r.id, result.bp, 0, r.size) ELSE result.mem,
                  result.brk, Has(r, result))
        /\ ranges' = IF Failed(r, result) THEN others ELSE added.ranges
        /\ error' = message
        /\ IF message = ""
           THEN op' = op + 1 /\ UNCHANGED <<phase, errors>>
           ELSE phase' = "next" /\ errors' = errors + 1 /\ UNCHANGED op
        /\ trace' = Append(trace, [request |-> r, bp |-> result.bp])
        /\ UNCHANGED <<total_size, max_total_size, repetition, numcorrect>>
CheckRequest(r) == Check(r, Called(r))

(* The trace ends; eval_mm_util starts on an empty heap. *)
EndValid ==
    /\ phase = "valid" /\ phase' = "util" /\ numcorrect' = numcorrect + 1
    /\ Restart /\ op' = 0
    /\ UNCHANGED <<trace, ranges, total_size, max_total_size, repetition, error, errors>>

Growth(r) == CASE r.type = "ALLOC" -> r.size
               [] r.type = "REALLOC" -> r.size - live[r.id].size
               [] r.type = "FREE" -> -live[r.id].size

(* The next request is played, and the program ends when the call fails. *)
Played(r, result) ==
    /\ op < Len(trace) /\ op' = op + 1
    /\ Leaves(result.mem, result.brk, Has(r, result))
    /\ phase' = IF Failed(r, result) THEN "aborted" ELSE phase
    /\ UNCHANGED <<trace, ranges, repetition, error, errors, numcorrect>>
Play(r) == Played(r, Called(r))

eval_mm_util ==
    /\ phase = "util"
    /\ LET r == trace[op + 1].request
           total == total_size + Growth(r)
       IN  /\ Play(r) /\ total_size' = total
           /\ max_total_size' = IF total > max_total_size THEN total ELSE max_total_size

eval_mm_speed ==
    phase = "speed" /\ Play(trace[op + 1].request) /\ UNCHANGED <<total_size, max_total_size>>

(* A play ends: ftimer_gettod plays again, or the next trace comes. *)
EndReplay ==
    /\ phase \in {"util", "speed"} /\ op = Len(trace) /\ op' = 0
    /\ IF repetition < Repetitions
       THEN Restart /\ phase' = "speed" /\ repetition' = repetition + 1
       ELSE phase' = "next" /\ UNCHANGED <<mem, mem_brk, live, repetition>>
    /\ UNCHANGED <<trace, ranges, total_size, max_total_size, error, errors, numcorrect>>

(* main adds up. *)
Finish ==
    /\ phase = "next" /\ errors + numcorrect = NumTraces /\ phase' = "done"
    /\ UNCHANGED <<vars, trace, op, ranges, total_size, max_total_size, repetition, error,
                   errors, numcorrect>>

DriverNext == \/ Caller
              \/ NextTrace \/ EndValid \/ eval_mm_util \/ eval_mm_speed \/ EndReplay \/ Finish
              \/ \E r \in Requests : CheckRequest(r)

DriverSpec == DriverInit /\ [][DriverNext]_driverAll
-----------------------------------------------------------------------------
DriverTypeOK ==
    /\ TypeOK
    /\ phase \in {"caller", "next", "valid", "util", "speed", "done", "aborted"}
    /\ op \in 0 .. Len(trace) /\ Len(trace) <= MaxOps /\ repetition \in 0 .. Repetitions
    /\ \A range \in ranges : range.lo \in 0 .. MAX_HEAP /\ range.hi \in 0 .. MAX_HEAP

(* While callers fill their blocks, no call changes a byte of another      *)
(* block, and mm_realloc takes along what is in one (mm_realloc, place).   *)
PayloadsKept == phase \in {"caller", "valid"} => PayloadsIntact

(* The driver's ranges are the extents of the blocks it holds, after every *)
(* mixture of requests, with blocks that move or stay (add_range,          *)
(* remove_range, eval_mm_valid).                                           *)
RangesAreLive ==
    phase = "valid" =>
        ranges = {[lo |-> live[id].bp, hi |-> live[id].bp + live[id].size - 1] : id \in Held}

(* It finds two things wrong with this allocator, and nothing else: that   *)
(* it gives no block, for size 0, or when none fits and memory is at its   *)
(* end; and, of an id that is high, that mm_realloc did not preserve the   *)
(* data, which is in the new block all the same.  The second is a false    *)
(* alarm: the comment at mdriver.c 648 says that the loop looks whether    *)
(* the data was copied (eval_mm_valid).                                    *)
NoBlockToGive(size) ==
    LET asize == ADJUST(size)
    IN  /\ error' = "failed"
        /\ size # 0 =>
             /\ mem_brk + (IF asize > CHUNKSIZE THEN asize ELSE CHUNKSIZE) > MAX_HEAP
             /\ \A bp \in FreeBlocks : Size(mem, bp) < asize
FalselyAccused(r) ==
    /\ error' = "did not preserve" /\ r.type = "REALLOC" /\ r.id \in HighIds
    /\ \A k \in 0 .. Words(oldsize(r)) - 1 :
         mem'[live'[r.id].bp + WSIZE * k] = Data(r.id, k)
AlarmsAreExplained ==
    [][error' # "" /\ error' # error =>
         LET r == Last(trace').request IN NoBlockToGive(r.size) \/ FalselyAccused(r)]_driverAll

(* A trace that was valid gives the same blocks whenever it is played: no  *)
(* call depends on what an earlier play left in memory, and none fails     *)
(* (mm_init, eval_mm_util, eval_mm_speed).                                 *)
Same(played) ==
    played.request.type # "FREE" => live'[played.request.id].bp = played.bp
PlaysAlike ==
    [][op' = op + 1 /\ phase \in {"util", "speed"} =>
         phase' # "aborted" /\ Same(trace[op'])]_driverAll

(* The space utilisation is at most 1, and the total is that of the blocks *)
(* held (eval_mm_util).                                                    *)
UtilisationIsSound ==
    phase = "util" =>
        /\ max_total_size <= mem_heapsize
        /\ total_size = MapThenSumSet(LAMBDA id : live[id].size, Ids)
(* The heap is sound after every call, whoever makes it: its tags and its  *)
(* lists agree, and what callers hold is all that is allocated (mm.c).     *)
HeapInv == DriverTypeOK /\ TagsAgree /\ ListsHoldFree /\ LiveAreAllocated

(* What the driver knows of the blocks is true: where they are, and how    *)
(* much they hold in all (add_range, remove_range, eval_mm_util).          *)
DriverKnowsBlocks == RangesAreLive /\ UtilisationIsSound

=============================================================================
