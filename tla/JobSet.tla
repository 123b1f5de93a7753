------------------------------- MODULE JobSet -------------------------------
(***************************************************************************)
(* What the job list of the shell promises: a set of jobs, each named by   *)
(* its process ID and in one state, that never holds more than MAXJOBS     *)
(* jobs and refuses a job when it is full.  Slots and job IDs are not seen *)
(* at this level.                                                          *)
(***************************************************************************)
EXTENDS Naturals, FiniteSets, Functions

CONSTANTS MAXJOBS, PIDs

VARIABLE live   \* the state of every listed job, a function on their pids

States == {"FG", "BG", "ST"}

Init == live = [p \in {} |-> "FG"]

Listed == DOMAIN live

Start(p, state) ==
    /\ p \notin Listed
    /\ Cardinality(Listed) < MAXJOBS
    /\ live' = [q \in Listed \cup {p} |-> IF q = p THEN state ELSE live[q]]

End(p) ==
    /\ p \in Listed
    /\ live' = Restrict(live, Listed \ {p})

Change(p, state) ==
    /\ p \in Listed
    /\ live' = [live EXCEPT ![p] = state]

Next == \E p \in PIDs :
            \/ End(p)
            \/ \E state \in States : Start(p, state) \/ Change(p, state)

Spec == Init /\ [][Next]_live
=============================================================================
