------------------------------ MODULE Cachelab ------------------------------
(***************************************************************************)
(* The two programs of the cache lab, of which a run starts one: csim on a *)
(* trace, or test-trans on the transposes, with a simulator of its own.    *)
(***************************************************************************)
EXTENDS Csim, Sequences

CONSTANTS Sizes, Registered, INT_MAX
ASSUME MatrixAssumption ==
    /\ Sizes \subseteq (1 .. 256) \X (1 .. 256)      \* MAXN
    /\ INT_MAX \in Nat /\ Registered \in Seq(STRING)

VARIABLES program, M, N, B, i, tile, sim, func_list, results

csimVars == vars
matrixVars == <<M, N, B, i, tile, sim, func_list, results>>
T == INSTANCE Transpose

NotStarted == /\ M = 0 /\ N = 0 /\ B = <<>> /\ i = 0 /\ tile = 0 /\ sim = <<>>
              /\ func_list = <<>> /\ results = <<>>

CachelabInit ==
    /\ Init
    /\ \/ program = "csim" /\ NotStarted
       \/ program = "test-trans" /\ T!Init

Simulate == program = "csim" /\ Next /\ UNCHANGED <<program, matrixVars>>
Transposes == program = "test-trans" /\ T!Next /\ UNCHANGED <<program, csimVars>>

CachelabNext == Simulate \/ Transposes
CachelabVars == <<program, csimVars, matrixVars>>
CachelabSpec == CachelabInit /\ [][CachelabNext]_CachelabVars
-----------------------------------------------------------------------------
(* Every element is copied once, and nothing behind the matrix, while      *)
(* test-trans goes through its table (the loops of trans.c).               *)
CopiesOnce == program = "test-trans" => T!TypeOK /\ T!CopiesOnce

(* The submission's grade is that of its own run, and it is right exactly  *)
(* for the shapes that its tiles fit (transpose_submit, eval_perf).        *)
Graded == program = "test-trans" => T!GradedFairly /\ T!GradedOnItsRun

(* A tile's lines stay in the cache while it is copied, and so the         *)
(* submission has less than half the misses of the plain scan for the      *)
(* three sizes of the assignment (transpose_submit_32, _64 and _61).       *)
TileStaysCached ==
    /\ [][program = "test-trans" => T!TileKeepsLines]_CachelabVars
    /\ [](program = "test-trans" => T!BeatsScan)
=============================================================================
