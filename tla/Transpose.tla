----------------------------- MODULE Transpose -----------------------------
(***************************************************************************)
(* The matrix transposes of trans.c and the driver that grades them:       *)
(* tracegen runs a registered function and validates its result, the cache *)
(* simulator counts the misses of its accesses (test-trans.c), here while  *)
(* the function runs.  One step is one iteration of the loop around a      *)
(* tile.  The accesses of the markers and of tracegen's own variables, a   *)
(* handful in every trace, are left out.                                   *)
(***************************************************************************)
EXTENDS Integers, Sequences, FiniteSets

CONSTANTS Sizes,            \* the pairs <<M, N>> of the command line
          Registered,       \* registerFunctions: the functions, in their order
          INT_MAX

VARIABLES M, N,             \* A is N rows of M, B is M rows of N
          B,                \* tracegen's memory from B on: the cells of A it holds
          i,                \* eval_perf's function
          tile,             \* and how far its loops are
          sim,              \* the simulator's cache, hits, misses and evictions
          func_list,        \* for every function: correct, num_misses
          results           \* what main prints for the submission

vars == <<M, N, B, i, tile, sim, func_list, results>>

(* 1 KB direct mapped, blocks of 32 bytes. *)
Sim == INSTANCE Csim WITH s <- 5, E <- 1, b <- 5, Addresses <- Nat, MaxUpdates <- INT_MAX,
                          line <- tile, cache <- sim.cache, hit_count <- sim.hits,
                          miss_count <- sim.misses, eviction_count <- sim.evictions

(* Both arrays are 256 by 256 ints of static storage, one after the other.  *)
(* Cell k of the matrix is k ints after its array's start.                  *)
AddressA(k) == 4 * k
AddressB(k) == 4 * (256 * 256 + k)

(* initMatrix: a cell of A holds a number that is only there, every cell of *)
(* B another one, and the memory behind the matrix zeros.                   *)
Junk == -1
InA(k) == IF k < N * M THEN k ELSE Junk
FreshB == [k \in 0 .. M * N + 7 |-> Junk]

Access(c, addr) ==
    LET iset == Sim!isetOf(addr)
        u == Sim!updateSet([pset |-> c.cache[iset], hits |-> c.hits, misses |-> c.misses,
                            evictions |-> c.evictions], Sim!tagOf(addr))
    IN  [cache |-> [c.cache EXCEPT ![iset] = u.pset], hits |-> u.hits,
         misses |-> u.misses, evictions |-> u.evictions]

(* B[m][n] = A[n][m], with row indices that nobody checks. *)
CopyElement(c, n, m) ==
    [B |-> [c.B EXCEPT ![m * N + n] = InA(n * M + m)],
     sim |-> Access(Access(c.sim, AddressA(n * M + m)), AddressB(m * N + n))]

(* The two inner loops: rows n, and columns m of each. *)
CopyTile(t) ==
    LET width == t.m1 - t.m0
        copied[k \in 0 .. (t.n1 - t.n0) * width] ==
            IF k = 0
            THEN [B |-> B, sim |-> sim]
            ELSE LET before == copied[k - 1]
                 IN  CopyElement(before, t.n0 + (k - 1) \div width, t.m0 + ((k - 1) % width))
    IN  copied[(t.n1 - t.n0) * width]

Lesser(x, y) == IF x < y THEN x ELSE y
Across(length) == (length + 7) \div 8            \* iterations of a loop by 8
Rows(n0, n1, m0, m1) == [n0 |-> n0, n1 |-> n1, m0 |-> m0, m1 |-> m1]

(* Each function: how many tiles, and the t-th of them. *)
trans == [tiles |-> N, at |-> [t \in 0 .. N - 1 |-> Rows(t, t + 1, 0, M)]]

Blocks8 == Across(N) * Across(M)
RowOf(t) == 8 * (t \div Across(M))
ColumnOf(t) == 8 * (t % Across(M))

transpose_submit_32 ==
    [tiles |-> Blocks8,
     at |-> [t \in 0 .. Blocks8 - 1 |-> Rows(RowOf(t), RowOf(t) + 8, ColumnOf(t), ColumnOf(t) + 8)]]

transpose_submit_64RowMajor ==        \* Mutant: bottom-left before bottom-right.
    [tiles |-> 4 * Blocks8,
     at |-> [t \in 0 .. 4 * Blocks8 - 1 |->
               LET n0 == RowOf(t \div 4) + (IF t % 4 \in {1, 3} THEN 4 ELSE 0)
                   m0 == ColumnOf(t \div 4) + (IF t % 4 \in {2, 3} THEN 4 ELSE 0)
               IN  Rows(n0, n0 + 4, m0, m0 + 4)]]

(* Four 4 by 4 parts of every block: rows i, i+4, i+4, i and columns j, j, *)
(* j+4, j+4, so that each shares its lines of A or of B with the last one. *)
transpose_submit_64 ==
    [tiles |-> 4 * Blocks8,
     at |-> [t \in 0 .. 4 * Blocks8 - 1 |->
               LET n0 == RowOf(t \div 4) + (IF t % 4 \in {1, 2} THEN 4 ELSE 0)
                   m0 == ColumnOf(t \div 4) + (IF t % 4 \in {2, 3} THEN 4 ELSE 0)
               IN  Rows(n0, n0 + 4, m0, m0 + 4)]]

transpose_submit_61ClipsByM ==        \* Mutant: rows clipped by M.
    [tiles |-> Blocks8,
     at |-> [t \in 0 .. Blocks8 - 1 |-> Rows(RowOf(t), Lesser(RowOf(t) + 8, M),
                                             ColumnOf(t), Lesser(ColumnOf(t) + 8, M))]]

transpose_submit_61 ==
    [tiles |-> Blocks8,
     at |-> [t \in 0 .. Blocks8 - 1 |-> Rows(RowOf(t), Lesser(RowOf(t) + 8, N),
                                             ColumnOf(t), Lesser(ColumnOf(t) + 8, M))]]

(* The number of columns alone decides. *)
transpose_submit ==
    CASE M = 32 -> transpose_submit_32
      [] M = 64 -> transpose_submit_64
      [] M = 61 -> transpose_submit_61
      [] OTHER -> trans

Function(name) == IF name = "transpose_submit" THEN transpose_submit ELSE trans

(* The harness has a transpose of its own to compare with. *)
correctTrans == [k \in 0 .. M * N - 1 |-> (k % N) * M + k \div N]
validate(mem) == \A k \in DOMAIN correctTrans : mem[k] = correctTrans[k]

FreshSim == [cache |-> [iset \in 0 .. Sim!SetNum - 1 |-> [line \in {0} |-> Sim!NoBlock]],
             hits |-> 0, misses |-> 0, evictions |-> 0]

Init ==
    /\ \E size \in Sizes : M = size[1] /\ N = size[2]
    /\ i = 1 /\ tile = 0 /\ B = FreshB /\ sim = FreshSim
    /\ func_list = [f \in DOMAIN Registered |-> [correct |-> 0, num_misses |-> 0]]
    /\ results = [funcid |-> -1, correct |-> 0, misses |-> INT_MAX]

(* tracegen calls the function, which copies its next tile. *)
Copy ==
    /\ i \in DOMAIN Registered /\ tile < Function(Registered[i]).tiles
    /\ LET done == CopyTile(Function(Registered[i]).at[tile])
       IN  B' = done.B /\ sim' = done.sim
    /\ tile' = tile + 1
    /\ UNCHANGED <<M, N, i, func_list, results>>

Found == IF Registered[i] = "transpose_submit" THEN [results EXCEPT !.funcid = i] ELSE results

RecordsAnyMisses(graded) ==           \* Mutant: keeps the misses of the function run last.
    [graded EXCEPT !.correct = IF graded.funcid = i THEN 1 ELSE @, !.misses = sim.misses]

Records(graded) ==
    IF graded.funcid = i THEN [graded EXCEPT !.correct = 1, !.misses = sim.misses] ELSE graded

(* It returned: tracegen validates, and eval_perf skips the simulation of a *)
(* function that failed.  The next function has a process of its own.       *)
Evaluate ==
    /\ i \in DOMAIN Registered /\ tile = Function(Registered[i]).tiles
    /\ IF validate(B)
       THEN /\ results' = Records(Found)
            /\ func_list' = [func_list EXCEPT ![i] = [correct |-> 1, num_misses |-> sim.misses]]
       ELSE results' = Found /\ UNCHANGED func_list
    /\ i' = i + 1 /\ tile' = 0 /\ B' = FreshB /\ sim' = FreshSim
    /\ UNCHANGED <<M, N>>

Next == Copy \/ Evaluate
-----------------------------------------------------------------------------
Whole == M \in {32, 64} => N % 8 = 0        \* tiles of 8 rows fit

(* The driver never leaves its tables: one run at a time, in the array's   *)
(* bounds, and B holds cells of A or what was there before (eval_perf).    *)
TypeOK ==
    /\ <<M, N>> \in Sizes /\ i \in 1 .. Len(Registered) + 1
    /\ i \in DOMAIN Registered => tile \in 0 .. Function(Registered[i]).tiles
    /\ \A k \in DOMAIN B : B[k] = Junk \/ B[k] \in 0 .. M * N - 1
    /\ results.funcid \in -1 .. Len(Registered) /\ results.correct \in {0, 1}

(* When its tiles fit, the submission reads every element of A and writes  *)
(* every element of B once, and nothing behind the matrix, for matrices    *)
(* that are not square too (the four loops of each function).              *)
CopiesOnce ==
    Whole => /\ sim.hits + sim.misses = 2 * Cardinality({k \in DOMAIN B : B[k] # Junk})
             /\ \A k \in DOMAIN B : k >= M * N => B[k] = Junk

(* The submission is graded correct exactly for the shapes whose tiles fit:*)
(* the dispatch looks at M alone, and the tiles of 32 and 64 are not       *)
(* clipped (transpose_submit, validate).                                   *)
GradedFairly == i > Len(Registered) => (results.correct = 1) = Whole

(* What main prints are the misses of the submission's own valid run, and  *)
(* INT_MAX when it failed, whatever else is registered (eval_perf).        *)
GradedOnItsRun ==
    /\ results.correct = 1 => results.misses = func_list[results.funcid].num_misses
    /\ results.correct = 0 => results.misses = INT_MAX
    /\ results.funcid # -1 => Registered[results.funcid] = "transpose_submit"

(* Off the diagonal a tile loads no line twice: 8 of A and 8 of B for 32;  *)
(* for 64, whose rows meet in the cache again after four, 4 and 4 for the  *)
(* first part and then 4 for each part (transpose_submit_32, _64).         *)
TileKeepsLines ==
    Copy /\ Registered[i] = "transpose_submit" /\ M = N =>
       LET block == IF M = 64 THEN tile \div 4 ELSE tile IN
       /\ M = 32 /\ RowOf(block) # ColumnOf(block) => sim'.misses <= sim.misses + 16
       /\ M = 64 /\ RowOf(block) # ColumnOf(block) =>
              sim'.misses <= sim.misses + (IF tile % 4 = 0 THEN 8 ELSE 4)

(* For the three sizes of the assignment the submission has fewer misses   *)
(* than the plain scan: less than half (transpose_submit, trans).          *)
BeatsScan ==
    /\ i > Len(Registered) /\ <<M, N>> \in {<<32, 32>>, <<64, 64>>, <<61, 67>>}
    => \A f, g \in DOMAIN Registered :
         Registered[f] = "transpose_submit" /\ Registered[g] = "trans"
         => 2 * func_list[f].num_misses < func_list[g].num_misses
=============================================================================
