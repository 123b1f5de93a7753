------------------------------ MODULE LRUSets ------------------------------
(***************************************************************************)
(* What a set-associative cache with LRU replacement does with a trace: a  *)
(* block of memory has its place in one set, every set holds at most Lines *)
(* blocks, and gives up the one that was not used for longest.             *)
(***************************************************************************)
EXTENDS Integers, SequencesExt

CONSTANTS SetCount, BlockSize, Lines, Addresses

VARIABLES line,                      \* the access: its operation and address
          recent,                    \* the blocks of every set, the last used first
          hits, misses, evictions    \* what happened so far

vars == <<line, recent, hits, misses, evictions>>

Init ==
    /\ line = [op |-> "", addr |-> 0] /\ recent = [s \in 0 .. SetCount - 1 |-> <<>>]
    /\ hits = 0 /\ misses = 0 /\ evictions = 0

blockOf(addr) == addr \div BlockSize
setOf(addr) == blockOf(addr) % SetCount

(* A modify uses its block twice. *)
Uses(op) == IF op = "M" THEN 2 ELSE 1

Holds(s, block) == \E i \in DOMAIN recent[s] : recent[s][i] = block

(* A block that the set holds is used n times in a row: it comes to the    *)
(* front.                                                                  *)
Hit(s, block, n) ==
    /\ \E i \in DOMAIN recent[s] :
         recent[s][i] = block /\ recent' = [recent EXCEPT ![s] = <<block>> \o RemoveAt(@, i)]
    /\ hits' = hits + n /\ UNCHANGED <<misses, evictions>>

(* One that it does not hold comes in first, and while there is no line for *)
(* it the last one goes.  What is left of the n uses hits.                 *)
Miss(s, block, n) ==
    /\ ~Holds(s, block) /\ hits' = hits + n - 1 /\ misses' = misses + 1
    /\ IF Len(recent[s]) < Lines
       THEN /\ recent' = [recent EXCEPT ![s] = <<block>> \o @] /\ UNCHANGED evictions
       ELSE /\ recent' = [recent EXCEPT ![s] = <<block>> \o Front(@)]
            /\ evictions' = evictions + 1

Access(op, addr) ==
    /\ line' = [op |-> op, addr |-> addr]
    /\ \/ Hit(setOf(addr), blockOf(addr), Uses(op))
       \/ Miss(setOf(addr), blockOf(addr), Uses(op))

Next == \E op \in {"L", "S", "M"}, addr \in Addresses : Access(op, addr)

Spec == Init /\ [][Next]_vars
=============================================================================
