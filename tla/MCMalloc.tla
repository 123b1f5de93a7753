------------------------------ MODULE MCMalloc ------------------------------
EXTENDS Mdriver

(* Blocks of 16, 48 and 104 bytes, in three of the classes; what is    *)
(* split off and merged is in all of them.  The last one does not fit.     *)
CallerSizes == {0, 12, 40, 100, 500}
=============================================================================
