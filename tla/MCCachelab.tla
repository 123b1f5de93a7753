----------------------------- MODULE MCCachelab -----------------------------
EXTENDS Cachelab

(* Four blocks for each set, and more than one byte of the first blocks. *)
SomeAddresses == {a \in 0 .. 2 ^ (b + s + 2) - 1 : a % 2 ^ b = 0 \/ a < 2 ^ (b + s)}

(* The sizes of the assignment, and matrices that are not square, that are *)
(* smaller than a tile or no multiple of one.                              *)
SomeSizes ==
    {<<32, 32>>, <<64, 64>>, <<61, 67>>, <<32, 8>>, <<32, 12>>, <<64, 8>>, <<64, 12>>,
     <<64, 32>>, <<61, 3>>, <<61, 8>>, <<4, 4>>, <<3, 5>>, <<8, 32>>}
SubmissionAndScan == <<"transpose_submit", "trans">>
=============================================================================
